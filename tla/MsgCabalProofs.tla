--------------------------- MODULE MsgCabalProofs ---------------------------
(***************************************************************************)
(* A node of a cabal has one connection, whatever configurations, limits,  *)
(* records and faults the constants allow.                                 *)
(***************************************************************************)
EXTENDS MsgCabal, SequenceTheorems, SequenceLemmas, TLAPS

Ends == {"hello", "greet", "state", "run", "closed"}
NodeStates == {"disconnected", "connecting", "connected"}

(* A connection, as far as the end that owns it goes: what is buffered and *)
(* under way does not matter.                                              *)
Shape(r) ==
  /\ r = [opener |-> r.opener, end |-> r.end, out |-> r.out, wire |-> r.wire,
          fresh |-> r.fresh, broken |-> r.broken]
  /\ r.opener \in Side
  /\ r.end \in [Side -> Ends]

(* x's end of the connection r is the one of its msgnode.                  *)
Owns(x, r) == r.end[x] # "closed" /\ (r.opener = x \/ r.end[x] \in {"state", "run"})

(* A list of n connections.                                                *)
List(c, n) == /\ n \in Nat /\ c = [k \in 1..n |-> c[k]]
              /\ \A k \in 1..n : Shape(c[k])

(* OneConnection for x.                                                    *)
Holds(x, c, n, v) ==
  \A k \in 1..n : Owns(x, c[k]) <=> v.state # "disconnected" /\ v.peer = k

NodeIn(n) == [state : NodeStates, peer : 0..n]

(* The inductive invariant, of a list of n connections and the nodes.      *)
Matched(c, n, v) ==
  /\ List(c, n)
  /\ v \in [Side -> NodeIn(n)]
  /\ \A x \in Side : Holds(x, c, n, v[x])
CabalInv == \E n \in Nat : Matched(conns, n, node)

-----------------------------------------------------------------------------
(* What happens to one connection.                                         *)

(* The ends of s are those of r, and so is the opener.                     *)
Same(r, s) == Shape(s) /\ s.end = r.end /\ s.opener = r.opener

(* Only x's end of s may differ from r's, and it is e; the opener is the   *)
(* same unless nobody owns s.                                              *)
Turned(x, e, r, s) ==
  /\ Shape(s) /\ s.end = [r.end EXCEPT ![x] = e]
  /\ s.opener = r.opener \/ \A y \in Side : s.end[y] = "closed"

(* A list is as long as its domain says.                                   *)
LEMMA ListLength ==
  ASSUME NEW c, NEW n, List(c, n)
  PROVE  Len(c) = n /\ c \in Seq({c[k] : k \in 1..n})
BY DEF List

(* An element of a list is replaced.                                       *)
LEMMA ListPut ==
  ASSUME NEW c, NEW n, List(c, n), NEW k \in 1..n, NEW r, Shape(r)
  PROVE  /\ List([c EXCEPT ![k] = r], n)
         /\ [c EXCEPT ![k] = r][k] = r
         /\ \A j \in 1..n : j # k => [c EXCEPT ![k] = r][j] = c[j]
BY DEF List

(* A list gets a new element.                                              *)
Grown(c, r, d) == d = Append(c, r)

(* A grown list has the old elements at their places and the new one after *)
(* them.                                                                   *)
LEMMA ListAppend ==
  ASSUME NEW c, NEW n, List(c, n), NEW r, Shape(r), NEW d, Grown(c, r, d)
  PROVE  List(d, n + 1) /\ d[n + 1] = r /\ \A j \in 1..n : d[j] = c[j]
<1> DEFINE S == {c[k] : k \in 1..n} \cup {r}
<1>1. c \in Seq(S) /\ Len(c) = n /\ r \in S /\ n \in Nat
  BY DEF List
<1> HIDE DEF S
<1>2. /\ Append(c, r) \in Seq(S) /\ Len(Append(c, r)) = n + 1
      /\ \A j \in 1..n : Append(c, r)[j] = c[j]
      /\ Append(c, r)[n + 1] = r
  BY <1>1, AppendProperties
<1>3. Append(c, r) = [k \in 1..n + 1 |-> Append(c, r)[k]]
  <2>1. PICK a \in Seq(S) : a = Append(c, r)
    BY <1>2
  <2>2. a = [k \in 1..Len(a) |-> a[k]]
    OBVIOUS
  <2>3. Len(a) = n + 1
    BY <1>2, <2>1
  <2>4. QED
    BY <2>1, <2>2, <2>3
<1>4. ASSUME NEW j \in 1..n + 1
      PROVE  Shape(Append(c, r)[j])
  BY <1>1, <1>2 DEF List
<1>5. List(Append(c, r), n + 1)
  BY <1>1, <1>2, <1>3, <1>4 DEF List
<1>6. QED
  BY <1>2, <1>5 DEF Grown

(* A new connection belongs to its opener alone.                           *)
LEMMA ConnShape ==
  ASSUME NEW x \in Side
  PROVE  Shape(Conn(x)) /\ Owns(x, Conn(x)) /\ \A y \in Side : y # x => ~Owns(y, Conn(x))
BY DEF Shape, Conn, Owns, Early, Side, Ends, Server, Client

(* A connection is made of its fields.                                     *)
Rec(o, e, u, w, f, b) ==
  [opener |-> o, end |-> e, out |-> u, wire |-> w, fresh |-> f, broken |-> b]

(* What a connection made of such fields is.                               *)
LEMMA RecShape ==
  ASSUME NEW o \in Side, NEW e \in [Side -> Ends], NEW u, NEW w, NEW f, NEW b, NEW r,
         r = Rec(o, e, u, w, f, b)
  PROVE  Shape(r) /\ r.opener = o /\ r.end = e
BY DEF Rec, Shape

(* One end is closed.                                                      *)
LEMMA ClosedShape ==
  ASSUME NEW r, Shape(r), NEW x \in Side
  PROVE  Turned(x, "closed", r, Closed(r, x))
<1>1. PICK o, e, u, w, f, b : o \in Side /\ e \in [Side -> Ends] /\ r = Rec(o, e, u, w, f, b)
  BY DEF Shape, Rec
<1> DEFINE d == [e EXCEPT ![x] = "closed"]
<1>2. d \in [Side -> Ends]
  BY <1>1 DEF Ends
<1>3. ASSUME NEW s, NEW v, NEW y, NEW g, NEW h, s = Rec(o, d, v, y, g, h)
      PROVE  Turned(x, "closed", r, s)
  <2> HIDE DEF d
  <2>1. Shape(s) /\ s.opener = o /\ s.end = d
    BY <1>1, <1>2, <1>3, RecShape
  <2>2. r.opener = o /\ r.end = e
    BY <1>1, RecShape
  <2>3. QED
    BY <2>1, <2>2 DEF Turned, d
<1>4. CASE e[Other(x)] = "closed"
  <2>1. Closed(r, x) = Gone
    BY <1>1, <1>4 DEF Closed, Rec
  <2>2. Gone.end = [e EXCEPT ![x] = "closed"]
    BY <1>1, <1>4 DEF Gone, Side, Other, Server, Client
  <2>3. QED
    BY <1>1, <2>1, <2>2 DEF Turned, Shape, Gone, Side, Ends, Rec
<1>5. CASE e[Other(x)] # "closed" /\ x = Server
  <2>1. Closed(r, x) = Rec(o, d, <<>>, [w EXCEPT ![Client] = <<>>], FALSE, b)
    BY <1>1, <1>5 DEF Closed, Rec
  <2>2. QED
    BY <1>3, <2>1
<1>6. CASE e[Other(x)] # "closed" /\ x # Server
  <2>1. Closed(r, x) = Rec(o, d, u, [w EXCEPT ![Server] = <<>>], f, b)
    BY <1>1, <1>6 DEF Closed, Rec
  <2>2. QED
    BY <1>3, <2>1
<1>7. QED
  BY <1>4, <1>5, <1>6

(* Records and marks change.                                               *)
LEMMA SameData ==
  ASSUME NEW r, Shape(r), NEW z, NEW t, NEW u, NEW f
  PROVE  /\ Same(r, r)
         /\ Same(r, [r EXCEPT !.wire[z] = t])
         /\ Same(r, [r EXCEPT !.wire[z] = t, !.out = u, !.fresh = f])
         /\ Same(r, [r EXCEPT !.out = u])
         /\ Same(r, [r EXCEPT !.broken = f, !.wire = t])
<1>1. PICK o, e, v, w, g, b : o \in Side /\ e \in [Side -> Ends] /\ r = Rec(o, e, v, w, g, b)
  BY DEF Shape, Rec
<1>2. ASSUME NEW s, NEW v1, NEW w1, NEW g1, NEW b1, s = Rec(o, e, v1, w1, g1, b1)
      PROVE  Same(r, s)
  BY <1>1, <1>2, RecShape DEF Same
<1>3. [r EXCEPT !.wire[z] = t] = Rec(o, e, v, [w EXCEPT ![z] = t], g, b)
  BY <1>1 DEF Rec
<1>4. [r EXCEPT !.wire[z] = t, !.out = u, !.fresh = f]
        = Rec(o, e, u, [w EXCEPT ![z] = t], f, b)
  <2> DEFINE r1 == [r EXCEPT !.wire[z] = t]
             r2 == [r1 EXCEPT !.out = u]
  <2> HIDE DEF r1, r2
  <2>1. r1 = Rec(o, e, v, [w EXCEPT ![z] = t], g, b)
    BY <1>3 DEF r1
  <2>2. r2 = Rec(o, e, u, [w EXCEPT ![z] = t], g, b)
    BY <2>1 DEF Rec, r2
  <2>3. [r2 EXCEPT !.fresh = f] = Rec(o, e, u, [w EXCEPT ![z] = t], f, b)
    BY <2>2 DEF Rec
  <2>4. QED
    BY <2>3 DEF r1, r2
<1>5. [r EXCEPT !.out = u] = Rec(o, e, u, w, g, b)
  BY <1>1 DEF Rec
<1>6. [r EXCEPT !.broken = f, !.wire = t] = Rec(o, e, v, t, g, f)
  <2> DEFINE r1 == [r EXCEPT !.broken = f]
  <2> HIDE DEF r1
  <2>1. r1 = Rec(o, e, v, w, g, f)
    BY <1>1 DEF Rec, r1
  <2>2. [r1 EXCEPT !.wire = t] = Rec(o, e, v, t, g, f)
    BY <2>1 DEF Rec
  <2>3. QED
    BY <2>2 DEF r1
<1>7. QED
  BY <1>1, <1>2, <1>3, <1>4, <1>5, <1>6

(* One end goes on to the next handler.                                    *)
LEMMA TurnedData ==
  ASSUME NEW r, Shape(r), NEW x \in Side, NEW e \in Ends, NEW z, NEW t, NEW u, NEW f
  PROVE  /\ Turned(x, e, r, [r EXCEPT !.end[x] = e])
         /\ Turned(x, e, r, [r EXCEPT !.end[x] = e, !.wire[z] = t])
         /\ Turned(x, e, r, [r EXCEPT !.end[x] = e, !.out = u, !.wire[z] = t])
         /\ Turned(x, e, r, [r EXCEPT !.end[x] = e, !.fresh = f])
<1>1. PICK o, d, v, w, g, b : o \in Side /\ d \in [Side -> Ends] /\ r = Rec(o, d, v, w, g, b)
  BY DEF Shape, Rec
<1> DEFINE d1 == [d EXCEPT ![x] = e]
           r1 == [r EXCEPT !.end[x] = e]
<1>2. d1 \in [Side -> Ends]
  BY <1>1
<1>3. r1 = Rec(o, d1, v, w, g, b)
  BY <1>1 DEF Rec
<1> HIDE DEF d1, r1
<1>4. ASSUME NEW s, NEW v1, NEW w1, NEW g1, NEW b1, s = Rec(o, d1, v1, w1, g1, b1)
      PROVE  Turned(x, e, r, s)
  <2>1. Shape(s) /\ s.opener = o /\ s.end = d1
    BY <1>1, <1>2, <1>4, RecShape
  <2>2. r.opener = o /\ r.end = d
    BY <1>1, RecShape
  <2>3. QED
    BY <2>1, <2>2 DEF Turned, d1
<1>5. [r1 EXCEPT !.wire[z] = t] = Rec(o, d1, v, [w EXCEPT ![z] = t], g, b)
  BY <1>3 DEF Rec
<1>6. [r1 EXCEPT !.fresh = f] = Rec(o, d1, v, w, f, b)
  BY <1>3 DEF Rec
<1> DEFINE r2 == [r1 EXCEPT !.out = u]
<1>7. r2 = Rec(o, d1, u, w, g, b)
  BY <1>3 DEF Rec
<1> HIDE DEF r2
<1>8. [r2 EXCEPT !.wire[z] = t] = Rec(o, d1, u, [w EXCEPT ![z] = t], g, b)
  BY <1>7 DEF Rec
<1>9. /\ Turned(x, e, r, r1)
      /\ Turned(x, e, r, [r1 EXCEPT !.wire[z] = t])
      /\ Turned(x, e, r, [r1 EXCEPT !.fresh = f])
      /\ Turned(x, e, r, [r2 EXCEPT !.wire[z] = t])
  BY <1>3, <1>4, <1>5, <1>6, <1>8
<1>10. QED
  BY <1>9 DEF r1, r2

(* What the handlers make of an end: records are taken from the wire, the  *)
(* hello leads on to the state.                                            *)
LEMMA TurnedSame ==
  ASSUME NEW x \in Side, NEW e, NEW r, NEW s, NEW t, Same(r, s), Turned(x, e, s, t)
  PROVE  Turned(x, e, r, t)
BY DEF Same, Turned

(* A change of x's end does not touch the other one.                       *)
LEMMA OthersKeep ==
  ASSUME NEW x \in Side, NEW y \in Side, x # y, NEW e \in Ends, NEW r, Shape(r), NEW s,
         Turned(x, e, r, s)
  PROVE  Owns(y, r) <=> Owns(y, s)
<1>1. s.end[y] = r.end[y]
  BY DEF Turned, Shape
<1>2. QED
  BY <1>1 DEF Turned, Owns

(* Who owns the connection after a change of its own end.                  *)
LEMMA TurnedOwns ==
  ASSUME NEW x \in Side, NEW e \in Ends, NEW r, Shape(r), NEW s, Turned(x, e, r, s)
  PROVE  /\ e = "closed" => ~Owns(x, s)
         /\ e \in {"state", "run"} => Owns(x, s)
         /\ e # "closed" /\ r.opener = x => Owns(x, s)
         /\ e \in {"hello", "greet"} /\ r.opener # x => ~Owns(x, s)
<1>1. s.end[x] = e
  BY DEF Turned, Shape
<1>2. QED
  BY <1>1 DEF Turned, Owns

-----------------------------------------------------------------------------
(* What happens to the list and the nodes.                                 *)

(* A connection changes and everybody owns what he owned.                  *)
LEMMA PutKeeps ==
  ASSUME NEW c, NEW n, NEW v, Matched(c, n, v), NEW k \in 1..n, NEW r, Shape(r),
         \A x \in Side : Owns(x, c[k]) <=> Owns(x, r)
  PROVE  Matched([c EXCEPT ![k] = r], n, v)
<1> DEFINE d == [c EXCEPT ![k] = r]
<1>1. List(d, n) /\ d[k] = r /\ \A j \in 1..n : j # k => d[j] = c[j]
  BY ListPut DEF Matched
<1> HIDE DEF d
<1>2. \A x \in Side : Holds(x, d, n, v[x])
  BY <1>1 DEF Matched, Holds
<1>3. QED
  BY <1>1, <1>2 DEF Matched, d

(* The same, where records and marks change.                               *)
LEMMA PutSame ==
  ASSUME NEW c, NEW n, NEW v, Matched(c, n, v), NEW k \in 1..n, NEW r, Same(c[k], r)
  PROVE  Matched([c EXCEPT ![k] = r], n, v)
<1>1. Shape(r) /\ \A x \in Side : Owns(x, c[k]) <=> Owns(x, r)
  BY DEF Same, Owns
<1>2. QED
  BY <1>1, PutKeeps

(* x's end of a connection changes to e, and its node to w.                *)
LEMMA PutTurned ==
  ASSUME NEW c, NEW n, NEW v, Matched(c, n, v), NEW k \in 1..n,
         NEW x \in Side, NEW e \in Ends, NEW r, Turned(x, e, c[k], r), NEW w \in NodeIn(n),
         Owns(x, r) <=> w.state # "disconnected" /\ w.peer = k,
         \A j \in 1..n : j # k => (Owns(x, c[j]) <=> w.state # "disconnected" /\ w.peer = j)
  PROVE  Matched([c EXCEPT ![k] = r], n, [v EXCEPT ![x] = w])
<1> DEFINE d == [c EXCEPT ![k] = r]
           u == [v EXCEPT ![x] = w]
<1>1. Shape(c[k]) /\ Shape(r)
  BY DEF Matched, List, Turned
<1>2. List(d, n) /\ d[k] = r /\ \A j \in 1..n : j # k => d[j] = c[j]
  BY <1>1, ListPut DEF Matched
<1>3. u \in [Side -> NodeIn(n)] /\ u[x] = w /\ \A y \in Side : y # x => u[y] = v[y]
  BY DEF Matched, NodeIn
<1> HIDE DEF d, u
<1>4. Holds(x, d, n, w)
  BY <1>2 DEF Holds
<1>5. ASSUME NEW y \in Side, y # x
      PROVE  Holds(y, d, n, v[y])
  <2>1. Owns(y, c[k]) <=> Owns(y, r)
    BY <1>1, <1>5, OthersKeep
  <2>2. QED
    BY <1>2, <2>1 DEF Matched, Holds
<1>6. QED
  BY <1>2, <1>3, <1>4, <1>5 DEF Matched, NodeIn, d, u

(* x loses a connection that is its node's.                                *)
LEMMA ShutsItsOwn ==
  ASSUME NEW c, NEW n, NEW v, Matched(c, n, v), NEW k \in 1..n, NEW x \in Side,
         Owns(x, c[k])
  PROVE  Matched([c EXCEPT ![k] = Closed(@, x)], n, [v EXCEPT ![x] = Disconnected(@)])
<1>1. PICK w \in NodeIn(n) : w = Disconnected(v[x])
  BY DEF Matched, NodeIn, Disconnected, NodeStates
<1>2. w.state = "disconnected"
  BY <1>1 DEF Matched, NodeIn, Disconnected
<1>3. Shape(c[k]) /\ v[x].peer = k /\ Holds(x, c, n, v[x])
  BY DEF Matched, List, Holds
<1>4. PICK r : r = Closed(c[k], x)
  OBVIOUS
<1>5. Turned(x, "closed", c[k], r) /\ ~Owns(x, r)
  BY <1>3, <1>4, ClosedShape, TurnedOwns DEF Ends
<1>6. \A j \in 1..n : j # k => ~Owns(x, c[j])
  BY <1>3 DEF Holds
<1>7. Matched([c EXCEPT ![k] = r], n, [v EXCEPT ![x] = w])
  BY <1>2, <1>5, <1>6, PutTurned DEF Ends
<1>8. QED
  BY <1>1, <1>4, <1>7

(* x loses one that was not told yet whose it is.                          *)
LEMMA ShutsAnother ==
  ASSUME NEW c, NEW n, NEW v, Matched(c, n, v), NEW k \in 1..n, NEW x \in Side,
         ~Owns(x, c[k])
  PROVE  Matched([c EXCEPT ![k] = Closed(@, x)], n, v)
<1>1. Shape(c[k])
  BY DEF Matched, List
<1>2. PICK r : r = Closed(c[k], x)
  OBVIOUS
<1>3. Turned(x, "closed", c[k], r) /\ ~Owns(x, r)
  BY <1>1, <1>2, ClosedShape, TurnedOwns DEF Ends
<1>4. \A y \in Side : Owns(y, c[k]) <=> Owns(y, r)
  BY <1>1, <1>3, OthersKeep DEF Ends
<1>5. Matched([c EXCEPT ![k] = r], n, v)
  BY <1>3, <1>4, PutKeeps DEF Turned
<1>6. QED
  BY <1>2, <1>5

(* x's own connection goes on to the next handler.                         *)
LEMMA GoesOn ==
  ASSUME NEW c, NEW n, NEW v, Matched(c, n, v), NEW k \in 1..n, NEW x \in Side,
         Owns(x, c[k]), NEW e \in {"state", "run"}, NEW r, Turned(x, e, c[k], r),
         NEW s \in NodeStates, s # "disconnected"
  PROVE  Matched([c EXCEPT ![k] = r], n, [v EXCEPT ![x].state = s])
<1>1. PICK w \in NodeIn(n) : w = [v[x] EXCEPT !.state = s]
  BY DEF Matched, NodeIn
<1>2. w.state = s /\ w.peer = v[x].peer
  BY <1>1 DEF Matched, NodeIn
<1>3. Shape(c[k]) /\ v[x].peer = k /\ v[x].state # "disconnected" /\ Holds(x, c, n, v[x])
  BY DEF Matched, List, Holds
<1>4. Owns(x, r)
  BY <1>3, TurnedOwns DEF Ends
<1>5. \A j \in 1..n : j # k => ~Owns(x, c[j])
  BY <1>3 DEF Holds
<1>6. Matched([c EXCEPT ![k] = r], n, [v EXCEPT ![x] = w])
  BY <1>2, <1>3, <1>4, <1>5, PutTurned DEF Ends
<1>7. QED
  BY <1>1, <1>6

(* Both fields of a node change.                                           *)
LEMMA NodeRecord ==
  ASSUME NEW n, NEW w \in NodeIn(n), NEW s, NEW p
  PROVE  [w EXCEPT !.state = s, !.peer = p] = [state |-> s, peer |-> p]
<1>1. PICK a, b : w = [state |-> a, peer |-> b]
  BY DEF NodeIn
<1> DEFINE w1 == [w EXCEPT !.state = s]
<1>2. w1 = [state |-> s, peer |-> b]
  BY <1>1
<1> HIDE DEF w1
<1>3. [w1 EXCEPT !.peer = p] = [state |-> s, peer |-> p]
  BY <1>2
<1>4. QED
  BY <1>3 DEF w1

(* The node of x has the connection k from now on, and no other one may    *)
(* be its.                                                                 *)
LEMMA Adopts ==
  ASSUME NEW c, NEW n, NEW v, Matched(c, n, v), NEW k \in 1..n, NEW x \in Side,
         v[x].state = "disconnected",
         NEW e \in {"state", "run"}, NEW r, Turned(x, e, c[k], r),
         NEW s \in NodeStates, s # "disconnected"
  PROVE  Matched([c EXCEPT ![k] = r], n, [v EXCEPT ![x] = [@ EXCEPT !.state = s, !.peer = k]])
<1>1. PICK w \in NodeIn(n) : w = [state |-> s, peer |-> k]
  <2>1. k \in 0..n
    BY DEF Matched, List
  <2>2. [state |-> s, peer |-> k] \in NodeIn(n)
    BY <2>1 DEF NodeIn
  <2>3. QED
    BY <2>2
<1>2. w.state = s /\ w.peer = k
  BY <1>1
<1>3. w = [v[x] EXCEPT !.state = s, !.peer = k]
  <2>1. v[x] \in NodeIn(n)
    BY DEF Matched
  <2>2. QED
    BY ZenonT(40), <1>1, <2>1, NodeRecord
<1>4. Shape(c[k]) /\ Holds(x, c, n, v[x])
  BY DEF Matched, List
<1>5. Owns(x, r)
  BY <1>4, TurnedOwns DEF Ends
<1>6. \A j \in 1..n : ~Owns(x, c[j])
  BY <1>4 DEF Holds
<1>7. Matched([c EXCEPT ![k] = r], n, [v EXCEPT ![x] = w])
  BY <1>2, <1>5, <1>6, PutTurned DEF Ends
<1>8. QED
  BY <1>7, <1>3

(* The node of x has no connection and is told that it has none.           *)
LEMMA Drops ==
  ASSUME NEW c, NEW n, NEW v, Matched(c, n, v), NEW x \in Side,
         \A k \in 1..n : ~Owns(x, c[k]),
         NEW w \in NodeIn(n), w.state = "disconnected"
  PROVE  Matched(c, n, [v EXCEPT ![x] = w])
<1> DEFINE u == [v EXCEPT ![x] = w]
<1>1. u \in [Side -> NodeIn(n)] /\ u[x] = w /\ \A y \in Side : y # x => u[y] = v[y]
  BY DEF Matched
<1> HIDE DEF u
<1>2. Matched(c, n, u)
  BY <1>1 DEF Matched, Holds
<1>3. QED
  BY <1>2 DEF u

(* What an accepted connection replaces.                                   *)
Replacing(x, k, r, c, v, d) ==
  d = IF v[x].state # "disconnected" /\ v[x].peer # k
      THEN [[c EXCEPT ![k] = r] EXCEPT ![v[x].peer] = Closed(@, x)]
      ELSE [c EXCEPT ![k] = r]

(* A node that takes an accepted connection, closing the one it had, still *)
(* agrees with the connections.                                            *)
LEMMA Accepts ==
  ASSUME NEW c, NEW n, NEW v, Matched(c, n, v), NEW k \in 1..n, NEW x \in Side,
         ~Owns(x, c[k]), NEW e \in {"state", "run"}, NEW r, Turned(x, e, c[k], r),
         NEW s \in NodeStates, s # "disconnected",
         NEW d, Replacing(x, k, r, c, v, d)
  PROVE  Matched(d, n, [v EXCEPT ![x] = [@ EXCEPT !.state = s, !.peer = k]])
<1>1. CASE v[x].state = "disconnected"
  <2>1. d = [c EXCEPT ![k] = r]
    BY <1>1 DEF Replacing
  <2>2. QED
    BY ZenonT(40), <1>1, <2>1, Adopts
<1>2. CASE v[x].state # "disconnected"
  <2>1. PICK old \in 0..n : old = v[x].peer
    BY DEF Matched, NodeIn
  <2>2. Holds(x, c, n, v[x])
    BY DEF Matched
  <2>3. old # k /\ d = [[c EXCEPT ![k] = r] EXCEPT ![old] = Closed(@, x)]
    BY <1>2, <2>1, <2>2 DEF Holds, Replacing
  <2> DEFINE c1 == [c EXCEPT ![old] = Closed(@, x)]
             v1 == [v EXCEPT ![x] = Disconnected(@)]
  <2>4. c = [j \in 1..n |-> c[j]]
    BY DEF Matched, List
  <2>5. Matched(c1, n, v1)
    <3>1. CASE old = 0
      <4>1. \A j \in 1..n : ~Owns(x, c[j])
        BY <2>1, <2>2, <3>1 DEF Holds
      <4>2. c1 = c
        <5>1. n \in Nat /\ old \notin 1..n
          BY <3>1 DEF Matched, List
        <5>2. QED
          BY <2>4, <5>1
      <4>3. PICK w : w = Disconnected(v[x])
        OBVIOUS
      <4>4. w \in NodeIn(n) /\ w.state = "disconnected"
        BY <4>3 DEF Matched, NodeIn, Disconnected, NodeStates
      <4>5. Matched(c, n, [v EXCEPT ![x] = w])
        BY <4>1, <4>4, Drops
      <4>6. QED
        BY <4>2, <4>3, <4>5
    <3>2. CASE old # 0
      <4>1. old \in 1..n
        BY <3>2 DEF Matched, List
      <4>2. Owns(x, c[old])
        BY <1>2, <2>1, <2>2, <4>1 DEF Holds
      <4>3. QED
        BY <4>1, <4>2, ShutsItsOwn
    <3>3. QED
      BY <3>1, <3>2
  <2>6. c1[k] = c[k]
    BY <2>3, <2>4
  <2>7. v1[x].state = "disconnected"
    BY DEF Matched, NodeIn, Disconnected
  <2>8. d = [c1 EXCEPT ![k] = r]
    BY <2>3, <2>4
  <2>9. [v EXCEPT ![x] = [@ EXCEPT !.state = s, !.peer = k]]
          = [v1 EXCEPT ![x] = [@ EXCEPT !.state = s, !.peer = k]]
    <3>1. v[x] \in NodeIn(n) /\ v1[x] \in NodeIn(n)
      BY <2>5 DEF Matched
    <3>2. /\ [v[x] EXCEPT !.state = s, !.peer = k] = [state |-> s, peer |-> k]
          /\ [v1[x] EXCEPT !.state = s, !.peer = k] = [state |-> s, peer |-> k]
      BY <3>1, NodeRecord
    <3>3. DOMAIN v = Side
      BY DEF Matched
    <3>4. QED
      BY <3>2, <3>3
  <2> HIDE DEF c1, v1
  <2>10. Matched([c1 EXCEPT ![k] = r], n, [v1 EXCEPT ![x] = [@ EXCEPT !.state = s, !.peer = k]])
    BY <2>5, <2>6, <2>7, Adopts
  <2>11. QED
    BY <2>8, <2>9, <2>10
<1>3. QED
  BY <1>1, <1>2

(* A new connection of x.                                                  *)
LEMMA Connects ==
  ASSUME NEW c, NEW n, NEW v, Matched(c, n, v), NEW x \in Side, v[x].state = "disconnected"
  PROVE  Matched(Append(c, Conn(x)), n + 1,
                 [v EXCEPT ![x] = [@ EXCEPT !.state = "connecting", !.peer = n + 1]])
<1>1. PICK d : d = Append(c, Conn(x))
  OBVIOUS
<1>2. List(d, n + 1) /\ d[n + 1] = Conn(x) /\ \A j \in 1..n : d[j] = c[j]
  <2>1. PICK r : r = Conn(x) /\ Shape(r)
    BY ConnShape
  <2>2. List(c, n) /\ Grown(c, r, d)
    BY <1>1, <2>1 DEF Matched, Grown
  <2>3. List(d, n + 1) /\ d[n + 1] = r /\ \A j \in 1..n : d[j] = c[j]
    BY <2>1, <2>2, ListAppend
  <2>4. QED
    BY <2>1, <2>3
<1> DEFINE w == [state |-> "connecting", peer |-> n + 1]
           u == [v EXCEPT ![x] = w]
<1>3. n \in Nat /\ n + 1 \in 1..n + 1 /\ \A j \in 1..n + 1 : j \in 1..n \/ j = n + 1
  BY DEF Matched, List
<1>4. w = [v[x] EXCEPT !.state = "connecting", !.peer = n + 1]
  <2>1. v[x] \in NodeIn(n)
    BY DEF Matched
  <2>2. QED
    BY ZenonT(40), <2>1, NodeRecord
<1>5. w \in NodeIn(n + 1) /\ NodeIn(n) \subseteq NodeIn(n + 1)
  BY <1>3 DEF NodeIn, NodeStates
<1>6. w.state # "disconnected" /\ w.peer = n + 1
  OBVIOUS
<1> HIDE DEF w
<1>7. u \in [Side -> NodeIn(n + 1)] /\ u[x] = w /\ \A y \in Side : y # x => u[y] = v[y]
  BY <1>5 DEF Matched
<1> HIDE DEF u
<1>8. Holds(x, d, n + 1, w)
  <2>1. \A j \in 1..n : ~Owns(x, d[j]) /\ j # n + 1
    BY <1>3, <1>2 DEF Matched, Holds
  <2>2. Owns(x, d[n + 1])
    BY <1>2, ConnShape
  <2>3. QED
    BY <1>3, <1>6, <2>1, <2>2 DEF Holds
<1>9. ASSUME NEW y \in Side, y # x
      PROVE  Holds(y, d, n + 1, v[y])
  <2>1. Holds(y, c, n, v[y]) /\ v[y].peer \in 0..n
    BY DEF Matched, NodeIn
  <2>2. ~Owns(y, d[n + 1])
    BY <1>2, <1>9, ConnShape
  <2>3. v[y].peer # n + 1
    BY <1>3, <2>1
  <2>4. QED
    BY <1>3, <1>2, <2>1, <2>2, <2>3 DEF Holds
<1>10. Matched(d, n + 1, u)
  BY <1>7, <1>2, <1>8, <1>9 DEF Matched
<1>11. QED
  BY <1>4, <1>1, <1>10 DEF u

(* The program x ends: it closes all its connections.                      *)
LEMMA EndsAll ==
  ASSUME NEW c, NEW n, NEW v, Matched(c, n, v), NEW x \in Side,
         NEW d, d = [k \in 1..n |-> IF c[k].end[x] # "closed" THEN Closed(c[k], x) ELSE c[k]]
  PROVE  Matched(d, n, [v EXCEPT ![x] = Down])
<1> DEFINE u == [v EXCEPT ![x] = Down]
<1>1. Down \in NodeIn(n) /\ Down.state = "disconnected"
  BY DEF Down, NodeIn, NodeStates, Matched, List
<1>2. u \in [Side -> NodeIn(n)] /\ u[x] = Down /\ \A y \in Side : y # x => u[y] = v[y]
  BY <1>1 DEF Matched
<1> HIDE DEF u
<1>3. ASSUME NEW k \in 1..n
      PROVE  /\ Shape(d[k])
             /\ ~Owns(x, d[k])
             /\ \A y \in Side : y # x => (Owns(y, c[k]) <=> Owns(y, d[k]))
  <2>1. Shape(c[k])
    BY DEF Matched, List
  <2>2. CASE c[k].end[x] # "closed"
    <3>1. PICK r : r = Closed(c[k], x) /\ d[k] = r
      BY <2>2
    <3>2. Turned(x, "closed", c[k], r)
      BY <2>1, <3>1, ClosedShape
    <3>3. Shape(r) /\ ~Owns(x, r) /\ \A y \in Side : y # x => (Owns(y, c[k]) <=> Owns(y, r))
      BY <2>1, <3>2, TurnedOwns, OthersKeep DEF Turned, Ends
    <3>4. QED
      BY <3>1, <3>3
  <2>3. CASE c[k].end[x] = "closed"
    BY <2>1, <2>3 DEF Owns
  <2>4. QED
    BY <2>2, <2>3
<1>4. List(d, n)
  BY <1>3 DEF Matched, List
<1>5. ASSUME NEW y \in Side
      PROVE  Holds(y, d, n, u[y])
  BY <1>1, <1>2, <1>3 DEF Matched, Holds
<1>6. QED
  BY <1>2, <1>4, <1>5 DEF Matched, u

-----------------------------------------------------------------------------
(* The actions.                                                            *)

(* Who owns a connection, in the words of the model.                       *)
LEMMA OwnsIs ==
  ASSUME NEW x, NEW k
  PROVE  Owns(x, conns[k]) <=> Live(x, k) /\ Identified(x, k)
BY DEF Owns, Live, Identified, IsOpener

(* The numbers of the connections.                                         *)
LEMMA ConnectionsAre ==
  ASSUME NEW n, Matched(conns, n, node)
  PROVE  Connections = 1..n /\ Len(conns) = n /\ conns = [k \in 1..n |-> conns[k]]
<1>1. List(conns, n)
  BY DEF Matched
<1>2. Len(conns) = n
  BY <1>1, ListLength
<1>3. QED
  BY <1>1, <1>2 DEF Connections, List

(* nbPeerShutdown.                                                         *)
LEMMA ShutdownStep ==
  ASSUME NEW n, Matched(conns, n, node), NEW x \in Side, NEW k \in 1..n,
         Live(x, k), Shutdown(x, k)
  PROVE  Matched(conns', n, node')
<1>1. conns' = [conns EXCEPT ![k] = Closed(@, x)]
  BY DEF Shutdown
<1>2. CASE Identified(x, k)
  <2>1. Owns(x, conns[k])
    BY <1>2, OwnsIs
  <2>2. node' = [node EXCEPT ![x] = Disconnected(@)]
    BY <1>2 DEF Shutdown
  <2>3. QED
    BY <1>1, <2>1, <2>2, ShutsItsOwn
<1>3. CASE ~Identified(x, k)
  <2>1. ~Owns(x, conns[k])
    BY <1>3, OwnsIs
  <2>2. node' = node
    BY <1>3 DEF Shutdown
  <2>3. QED
    BY <1>1, <2>1, <2>2, ShutsAnother
<1>4. QED
  BY <1>2, <1>3

(* The program of x ends.                                                  *)
LEMMA EndedStep ==
  ASSUME NEW n, Matched(conns, n, node), NEW x \in Side, Ended(x)
  PROVE  Matched(conns', n, node')
<1>1. PICK d : d = conns'
  OBVIOUS
<1>2. d = [k \in 1..n |-> IF conns[k].end[x] # "closed" THEN Closed(conns[k], x) ELSE conns[k]]
  BY <1>1, ConnectionsAre DEF Ended, Live
<1>3. Matched(d, n, [node EXCEPT ![x] = Down])
  BY <1>2, EndsAll
<1>4. QED
  BY <1>1, <1>3 DEF Ended

(* nbMsgCabalRetry.                                                        *)
LEMMA EnableStep ==
  ASSUME NEW n, Matched(conns, n, node), NEW x \in Side, Enable(x)
  PROVE  \E m : Matched(conns', m, node')
<1>1. CASE node[x].state # "disconnected"
  <2>1. conns' = conns /\ node' = node
    BY <1>1 DEF Enable
  <2>2. QED
    BY <2>1
<1>2. CASE node[x].state = "disconnected"
  <2>1. \A k \in 1..n : ~Owns(x, conns[k])
    BY <1>2 DEF Matched, Holds
  <2>2. node[x] \in NodeIn(n) /\ n \in Nat
    BY DEF Matched, List
  <2>3. CASE Connect(x)
    <3>1. /\ conns' = Append(conns, Conn(x))
          /\ node' = [node EXCEPT ![x] = [@ EXCEPT !.state = "connecting", !.peer = n + 1]]
      BY <2>3, ConnectionsAre DEF Connect
    <3>2. QED
      BY <1>2, <3>1, Connects
  <2>4. CASE ConnectRefused(x)
    <3>1. PICK w : w = Disconnected(node[x])
      OBVIOUS
    <3>2. w \in NodeIn(n) /\ w.state = "disconnected"
      BY <2>2, <3>1 DEF NodeIn, Disconnected, NodeStates
    <3>3. conns' = conns /\ node' = [node EXCEPT ![x] = w]
      BY <2>4, <3>1 DEF ConnectRefused
    <3>4. QED
      BY <2>1, <3>2, <3>3, Drops
  <2>5. CASE ConnectNowhere(x)
    <3>1. PICK w : w = [node[x] EXCEPT !.peer = 0]
      OBVIOUS
    <3>2. w \in NodeIn(n) /\ w.state = "disconnected"
      BY <1>2, <2>2, <3>1 DEF NodeIn
    <3>3. conns' = conns /\ node' = [node EXCEPT ![x] = w]
      BY <2>5, <3>1 DEF ConnectNowhere
    <3>4. QED
      BY <2>1, <3>2, <3>3, Drops
  <2>6. QED
    BY <1>2, <2>3, <2>4, <2>5 DEF Enable
<1>3. QED
  BY <1>1, <1>2

(* nbPeerConnecter.                                                        *)
LEMMA SendHelloStep ==
  ASSUME NEW n, Matched(conns, n, node), NEW k \in 1..n, SendHello(k)
  PROVE  Matched(conns', n, node')
<1>1. PICK r : r = [conns[k] EXCEPT !.end[Server] = "greet", !.out = <<>>,
                                    !.wire[Server] = conns[k].out \o <<Hello>>]
  OBVIOUS
<1>2. Shape(conns[k]) /\ Server \in Side /\ "greet" \in Ends
  BY DEF Matched, List, Side, Ends
<1>3. Turned(Server, "greet", conns[k], r)
  BY <1>1, <1>2, TurnedData
<1>4. \A y \in Side : Owns(y, conns[k]) <=> Owns(y, r)
  <2>1. Owns(Server, conns[k]) <=> Owns(Server, r)
    <3>1. conns[k].end[Server] = "hello"
      BY DEF SendHello
    <3>2. Owns(Server, conns[k]) <=> conns[k].opener = Server
      BY <3>1 DEF Owns
    <3>3. QED
      BY <1>2, <1>3, <3>2, TurnedOwns
  <2>2. QED
    BY <1>2, <1>3, <2>1, OthersKeep
<1>5. conns' = [conns EXCEPT ![k] = r] /\ node' = node
  BY ZenonT(40), <1>1, ConnectionsAre DEF SendHello, nodes
<1>6. QED
  BY <1>3, <1>4, <1>5, PutKeeps DEF Turned

(* What an end makes of a hello.                                           *)
LEMMA GreetedTurned ==
  ASSUME NEW n, Matched(conns, n, node), NEW x \in Side, NEW k \in 1..n
  PROVE  \E e \in {"state", "run"} : Turned(x, e, conns[k], Greeted(Taken(k, x), x))
<1>1. Shape(conns[k])
  BY DEF Matched, List
<1>2. PICK t : t = Taken(k, x)
  OBVIOUS
<1>3. Same(conns[k], t)
  BY <1>1, <1>2, SameData DEF Taken
<1>4. Shape(t)
  BY <1>3 DEF Same
<1>5. "state" \in Ends /\ "run" \in Ends
  BY DEF Ends
<1>6. CASE x = Client
  <2>1. PICK q : q = Append(t.wire[x], State(got))
    OBVIOUS
  <2>2. Greeted(t, x) = [t EXCEPT !.end[x] = "run", !.wire[x] = q]
    BY <1>6, <2>1 DEF Greeted
  <2>3. Turned(x, "run", t, [t EXCEPT !.end[x] = "run", !.wire[x] = q])
    BY <1>4, <1>5, TurnedData
  <2>4. Turned(x, "run", t, Greeted(t, x))
    BY <2>2, <2>3
  <2>5. QED
    BY <1>2, <1>3, <2>4, TurnedSame
<1>7. CASE x # Client
  <2>1. Greeted(t, x) = [t EXCEPT !.end[x] = "state"]
    BY SMTT(60), <1>7 DEF Greeted
  <2>2. Turned(x, "state", t, [t EXCEPT !.end[x] = "state"])
    BY <1>4, <1>5, TurnedData
  <2>3. Turned(x, "state", t, Greeted(t, x))
    BY <2>1, <2>2
  <2>4. QED
    BY <1>2, <1>3, <2>3, TurnedSame
<1>8. QED
  BY <1>6, <1>7

(* nbMsgPeerHelloConsumer.                                                 *)
LEMMA HelloToOpenerStep ==
  ASSUME NEW n, Matched(conns, n, node), NEW x \in Side, NEW k \in 1..n, HelloToOpener(x, k)
  PROVE  Matched(conns', n, node')
<1>1. PICK e \in {"state", "run"} : Turned(x, e, conns[k], Greeted(Taken(k, x), x))
  BY GreetedTurned
<1>2. PICK r : r = Greeted(Taken(k, x), x) /\ Turned(x, e, conns[k], r)
  BY <1>1
<1>3. Owns(x, conns[k])
  BY DEF HelloToOpener, IsOpener, Owns
<1>4. node[x] \in NodeIn(n) /\ node[x].state # "disconnected"
  BY <1>3 DEF Matched, Holds
<1>5. PICK s \in NodeStates : s = IF x = Client THEN "connected" ELSE node[x].state
  BY <1>4 DEF NodeIn, NodeStates
<1>6. s # "disconnected"
  BY <1>4, <1>5
<1>7. conns' = [conns EXCEPT ![k] = r] /\ node' = [node EXCEPT ![x].state = s]
  BY <1>2, <1>5 DEF HelloToOpener
<1>8. QED
  BY <1>2, <1>3, <1>6, <1>7, GoesOn

(* nbMsgCabalAcceptHelloConsumer.                                          *)
LEMMA HelloToAcceptorStep ==
  ASSUME NEW n, Matched(conns, n, node), NEW x \in Side, NEW k \in 1..n, HelloToAcceptor(x, k)
  PROVE  Matched(conns', n, node')
<1>1. PICK e \in {"state", "run"} : Turned(x, e, conns[k], Greeted(Taken(k, x), x))
  BY GreetedTurned
<1>2. PICK r : r = Greeted(Taken(k, x), x) /\ Turned(x, e, conns[k], r)
  BY <1>1
<1>3. ~Owns(x, conns[k])
  BY DEF HelloToAcceptor, IsOpener, Owns
<1>4. PICK s \in NodeStates : s = StateGreeted(x)
  BY DEF StateGreeted, NodeStates
<1>5. s # "disconnected"
  BY <1>4 DEF StateGreeted
<1>6. PICK d : d = conns'
  OBVIOUS
<1>7. Replacing(x, k, r, conns, node, d)
  BY <1>2, <1>6 DEF HelloToAcceptor, Replaced, Replacing
<1>8. node' = [node EXCEPT ![x] = [@ EXCEPT !.state = s, !.peer = k]]
  BY <1>4 DEF HelloToAcceptor
<1>9. Matched(d, n, [node EXCEPT ![x] = [@ EXCEPT !.state = s, !.peer = k]])
  BY ZenonT(40), <1>2, <1>3, <1>5, <1>7, Accepts
<1>10. QED
  BY <1>6, <1>8, <1>9

(* nbMsgPeerStateConsumer.                                                 *)
LEMMA SubscribeStep ==
  ASSUME NEW n, Matched(conns, n, node), NEW k \in 1..n, Subscribe(k)
  PROVE  Matched(conns', n, node')
<1>1. PICK t : t = Taken(k, Server)
  OBVIOUS
<1>2. PICK r : r = [t EXCEPT !.end[Server] = "run", !.fresh = TRUE]
  OBVIOUS
<1>3. Shape(conns[k]) /\ Server \in Side
  BY DEF Matched, List, Side
<1>4. Same(conns[k], t)
  BY <1>1, <1>3, SameData DEF Taken
<1>5. Turned(Server, "run", t, r)
  BY ZenonT(40), <1>2, <1>3, <1>4, TurnedData DEF Same, Ends
<1>6. Turned(Server, "run", conns[k], r)
  BY <1>3, <1>4, <1>5, TurnedSame
<1>7. Owns(Server, conns[k])
  BY DEF Subscribe, Owns
<1>8. conns' = [conns EXCEPT ![k] = r] /\ node' = [node EXCEPT ![Server].state = "connected"]
  BY <1>1, <1>2 DEF Subscribe
<1>9. "connected" \in NodeStates
  BY DEF NodeStates
<1>10. QED
  BY <1>3, <1>6, <1>7, <1>8, <1>9, GoesOn

(* nbMsgPeerConsumer.                                                      *)
LEMMA TakeStep ==
  ASSUME NEW n, Matched(conns, n, node), NEW k \in 1..n, Take(k)
  PROVE  Matched(conns', n, node')
<1>1. PICK t : t = Taken(k, Client)
  OBVIOUS
<1>2. Same(conns[k], t)
  BY <1>1, SameData DEF Taken, Matched, List
<1>3. conns' = [conns EXCEPT ![k] = t] /\ node' = node
  BY <1>1 DEF Take, nodes
<1>4. QED
  BY <1>2, <1>3, PutSame

(* nbMsgCacheInsert.                                                       *)
LEMMA InsertStep ==
  ASSUME NEW n, Matched(conns, n, node), Insert
  PROVE  Matched(conns', n, node')
<1> SUFFICES ASSUME ~Crash
             PROVE  Matched(conns', n, node')
  BY EndedStep DEF Crash, Side
<1>1. PICK s, k, subscribers :
        /\ Sent(s, k, subscribers)
        /\ k = IF s.sent = <<>> THEN conns ELSE [conns EXCEPT ![Peer] = WithRecords(@, s.sent)]
  BY DEF Insert, Deliver
<1>2. CASE s.exit
  BY <1>1, <1>2, EndedStep DEF Sent, Side
<1>3. CASE ~s.exit
  <2>1. conns' = k /\ node' = node
    BY <1>1, <1>3 DEF Sent
  <2>2. Matched(k, n, node)
    <3>1. CASE s.sent = <<>> \/ Peer \notin 1..n
      <4>1. k = conns
        BY <1>1, <3>1, ConnectionsAre
      <4>2. QED
        BY <4>1
    <3>2. CASE s.sent # <<>> /\ Peer \in 1..n
      <4>1. PICK p \in 1..n : p = Peer
        BY <3>2
      <4>2. PICK r : r = WithRecords(conns[p], s.sent)
        OBVIOUS
      <4>3. Same(conns[p], r)
        BY <4>2, SameData DEF WithRecords, Matched, List
      <4>4. k = [conns EXCEPT ![p] = r]
        BY <1>1, <3>2, <4>1, <4>2
      <4>5. QED
        BY <4>3, <4>4, PutSame
    <3>3. QED
      BY <3>1, <3>2
  <2>3. QED
    BY <2>1, <2>2
<1>4. QED
  BY <1>2, <1>3

(* nbPeerWriter.                                                           *)
LEMMA WriteStep ==
  ASSUME NEW n, Matched(conns, n, node), NEW k \in 1..n, Write(k)
  PROVE  Matched(conns', n, node')
<1>1. PICK f : f = [conns[k] EXCEPT !.wire[Server] = conns[k].out, !.out = <<>>, !.fresh = FALSE]
  BY SMTT(60)
<1>2. Same(conns[k], f)
  BY <1>1, SameData DEF Matched, List
<1>3. CASE conns[k].end[Server] = "run"
  <2>1. PICK s, c, subscribers :
          Sent(s, c, subscribers) /\ c = [conns EXCEPT ![k] = WithRecords(f, s.sent)]
    BY <1>1, <1>3 DEF Write
  <2>2. CASE s.exit
    BY <2>1, <2>2, EndedStep DEF Sent, Side
  <2>3. CASE ~s.exit
    <3>1. conns' = c /\ node' = node
      BY <2>1, <2>3 DEF Sent
    <3>2. PICK r : r = WithRecords(f, s.sent)
      OBVIOUS
    <3>3. Same(f, r)
      BY ZenonT(40), <1>2, <3>2, SameData DEF WithRecords, Same
    <3>4. Same(conns[k], r)
      BY <1>2, <3>3 DEF Same
    <3>5. QED
      BY <2>1, <3>1, <3>2, <3>4, PutSame
  <2>4. QED
    BY <2>2, <2>3
<1>4. CASE conns[k].end[Server] # "run"
  <2>1. conns' = [conns EXCEPT ![k] = f] /\ node' = node
    BY <1>1, <1>4 DEF Write
  <2>2. QED
    BY <1>2, <2>1, PutSame
<1>5. QED
  BY <1>3, <1>4

(* A connection breaks.                                                    *)
LEMMA BreakStep ==
  ASSUME NEW n, Matched(conns, n, node), NEW k \in 1..n, Break(k)
  PROVE  Matched(conns', n, node')
<1>1. PICK r : r = [conns[k] EXCEPT !.broken = TRUE, !.wire = [x \in Side |-> <<>>]]
  BY SMTT(60)
<1>2. Same(conns[k], r)
  BY <1>1, SameData DEF Matched, List
<1>3. conns' = [conns EXCEPT ![k] = r] /\ node' = node
  BY <1>1, ConnectionsAre DEF Break, nodes
<1>4. QED
  BY <1>2, <1>3, PutSame

-----------------------------------------------------------------------------
(* The invariant holds of every state.                                     *)

(* At the start there is no connection.                                    *)
LEMMA CabalInit == Init => CabalInv
<1> SUFFICES ASSUME Init
             PROVE  Matched(conns, 0, node)
  BY DEF CabalInv
<1>1. List(conns, 0)
  BY DEF Init, List
<1>2. node \in [Side -> NodeIn(0)]
  BY DEF Init, Down, NodeIn, NodeStates
<1>3. \A x \in Side : Holds(x, conns, 0, node[x])
  BY DEF Holds
<1>4. QED
  BY <1>1, <1>2, <1>3 DEF Matched

(* Every step preserves it.                                                *)
LEMMA CabalNext == CabalInv /\ [Next]_vars => CabalInv'
<1> SUFFICES ASSUME CabalInv, [Next]_vars
             PROVE  \E m : Matched(conns', m, node')
  <2>1. ASSUME NEW m, Matched(conns', m, node')
        PROVE  m \in Nat
    BY <2>1 DEF Matched, List
  <2>2. QED
    BY <2>1 DEF CabalInv
<1>1. PICK n : Matched(conns, n, node)
  BY DEF CabalInv
<1>2. CASE conns' = conns /\ node' = node
  BY <1>1, <1>2
<1>3. CASE \E x \in Side : Enable(x)
  BY <1>1, <1>3, EnableStep
<1>4. CASE \E x \in Side : Stop(x)
  BY <1>1, <1>4, EndedStep DEF Stop
<1>5. CASE \E x \in Side : Start(x)
  BY <1>2, <1>5 DEF Start
<1>6. CASE \E k \in Connections : Serve(k)
  <2>1. PICK k \in 1..n : Serve(k)
    BY <1>1, <1>6, ConnectionsAre
  <2>2. QED
    BY <1>1, <2>1, SendHelloStep, SubscribeStep, TakeStep, WriteStep DEF Serve
<1>7. CASE \E k \in Connections : Break(k)
  <2>1. PICK k \in 1..n : Break(k)
    BY <1>1, <1>7, ConnectionsAre
  <2>2. QED
    BY <1>1, <2>1, BreakStep
<1>8. CASE \E k \in Connections : \E x \in Side : Consume(x, k) \/ Notice(x, k)
  <2>1. PICK k \in 1..n, x \in Side : Consume(x, k) \/ Notice(x, k)
    BY <1>1, <1>8, ConnectionsAre
  <2>2. CASE HelloToOpener(x, k)
    BY <1>1, <2>2, HelloToOpenerStep
  <2>3. CASE HelloToAcceptor(x, k)
    BY <1>1, <2>3, HelloToAcceptorStep
  <2>4. CASE Refuse(x, k) \/ EndOfFile(x, k) \/ Notice(x, k)
    BY <1>1, <2>4, ShutdownStep DEF Refuse, EndOfFile, Notice
  <2>5. QED
    BY <2>1, <2>2, <2>3, <2>4 DEF Consume
<1>9. CASE Produce
  BY <1>2, <1>9 DEF Produce, nodes
<1>10. CASE Insert
  BY <1>1, <1>10, InsertStep
<1>11. CASE UNCHANGED vars
  BY <1>2, <1>11 DEF vars, nodes
<1>12. QED
  BY <1>3, <1>4, <1>5, <1>6, <1>7, <1>8, <1>9, <1>10, <1>11 DEF Next

(* It says of each node that it has its connection.                        *)
LEMMA CabalInvIs == CabalInv => OneConnection
<1> SUFFICES ASSUME CabalInv
             PROVE  OneConnection
  OBVIOUS
<1>1. PICK n : Matched(conns, n, node)
  BY DEF CabalInv
<1>2. Connections = 1..n
  BY <1>1, ConnectionsAre
<1>3. QED
  BY <1>1, <1>2, OwnsIs DEF OneConnection, Matched, Holds

(* Whatever either side is configured to do, however connections break and *)
(* programs stop: a node that is not disconnected has one connection, and  *)
(* no end of an earlier one can change its state.                          *)
THEOREM NodeHasOneConnection == Spec => []OneConnection
<1>1. Init => CabalInv
  BY CabalInit
<1>2. CabalInv /\ [Next]_vars => CabalInv'
  BY CabalNext
<1>3. CabalInv => OneConnection
  BY CabalInvIs
<1>4. QED
  BY <1>1, <1>2, <1>3, PTL DEF Spec

-----------------------------------------------------------------------------
(* The message cache: what a subscriber is sent follows what it was sent.  *)

(* The fields of a subscriber, and their types.                            *)
Sub == [mode : {"log", "cache"}, next : 1..(2 * MaxRecords + 1), count : 0..MaxRecords,
        inbuf : BOOLEAN, again : BOOLEAN, paused : BOOLEAN]

(* The ring c of a log of w records that held l when it was opened: it is  *)
(* empty only as long as the log is, and the file position it keeps is     *)
(* ahead of its first record by those l.                                   *)
Ring(c, w, l) ==
  /\ w \in 0..MaxRecords /\ l \in 0..w
  /\ c \in [start : Nat \ {0}, end : 0..w, base : Nat]
  /\ c.start <= c.end + 1 /\ c.end - c.start < CacheSize
  /\ c.end = 0 \/ c.start <= c.end
  /\ c.base = c.start + l

(* A subscriber of that ring.  Where the log was empty when it was opened, *)
(* no subscriber is ahead of the record it needs.                          *)
Fit(s, c, w, l) ==
  /\ s \in Sub /\ s.count <= w
  /\ s.inbuf => s.mode = "log" /\ s.count > 0
  /\ s.again => c.end > 0 /\ (s.mode = "cache" => s.next <= c.end)
  /\ l = 0 => s.next <= s.count + 1 /\ (s.again /\ s.mode = "cache" => s.next <= s.count)

(* A refused record is offered again where it was left.                    *)
Steady(s) == s.again => s.mode = "cache" /\ s.next = s.count
(* The last record sent.                                                   *)
LastSent(s) == IF s.inbuf \/ s.again THEN s.count - 1 ELSE s.count

(* Records of the log that a handler with this room accepts.               *)
Sends(q, room) == q \in Seq(1..written) /\ Len(q) <= room
(* They follow the last one sent, and the subscriber knows.                *)
Follows(s, t, q) ==
  Steady(s) => /\ Steady(t) /\ LastSent(t) = LastSent(s) + Len(q)
               /\ \A i \in 1..Len(q) : q[i] = LastSent(s) + i
(* The result r of serving s.                                              *)
Serves(s, r, c, room) ==
  /\ r.exit \in BOOLEAN /\ (r.exit => loaded > 0)
  /\ Fit(r.sub, c, written, loaded)
  /\ Sends(r.sent, room)
  /\ Follows(s, r.sub, r.sent)

(* The numbers that follow n.                                              *)
LEMMA AfterIs ==
  ASSUME NEW n \in Nat, NEW k \in Nat, n + k <= written, written \in Nat
  PROVE  /\ After(n, k) \in Seq(1..written) /\ Len(After(n, k)) = k
         /\ \A i \in 1..k : After(n, k)[i] = n + i
BY DEF After

(* The parts of a result.                                                  *)
LEMMA ResultIs ==
  ASSUME NEW s, NEW q, NEW e
  PROVE  Result(s, q, e).sub = s /\ Result(s, q, e).sent = q /\ Result(s, q, e).exit = e
BY DEF Result

(* Nothing is sent.                                                        *)
LEMMA SendsNone == \A room \in Nat : Sends(<<>>, room)
<1>1. <<>> \in Seq(1..written) /\ Len(<<>>) = 0
  OBVIOUS
<1>2. QED
  BY <1>1 DEF Sends

(* A result of these parts serves s.                                       *)
LEMMA ServesIs ==
  ASSUME NEW s, NEW c, NEW room, NEW t, NEW q, NEW e \in BOOLEAN, e => loaded > 0,
         Fit(t, c, written, loaded), Sends(q, room), Follows(s, t, q)
  PROVE  Serves(s, Result(t, q, e), c, room)
BY ResultIs DEF Serves

(* The records of the ring that follow the last one in sequence.           *)
LEMMA InSequenceServes ==
  ASSUME NEW c, Ring(c, written, loaded), NEW s \in Sub, s.count <= written,
         s.mode = "cache", ~s.inbuf, ~s.again, loaded = 0 => s.next <= s.count + 1,
         NEW room \in Nat
  PROVE  Serves(s, InSequence(s, c, room), c, room)
<1>1. PICK p \in 1..(2 * MaxRecords + 1), n \in 0..MaxRecords : p = s.next /\ n = s.count
  BY DEF Sub
<1>2. PICK e : e = c.end
  OBVIOUS
<1>3. /\ written \in Nat /\ loaded \in Nat /\ MaxRecords \in Nat /\ written <= MaxRecords
      /\ e \in Nat /\ e <= written /\ c.start \in Nat /\ 1 <= c.start
      /\ c.start <= e + 1 /\ (e = 0 \/ c.start <= e)
  BY <1>2, CacheAssumption DEF Ring
<1>4. LastSent(s) = n /\ Steady(s)
  BY <1>1 DEF LastSent, Steady
<1>5. n \in Nat /\ p \in Nat /\ 1 <= p /\ n <= written /\ (loaded = 0 => p <= n + 1)
  BY <1>1, <1>3
<1>6. CASE e - n <= 0 \/ p > e
  <2>1. PICK y \in 1..(2 * MaxRecords + 1) : y = e + 1
    BY <1>3
  <2>2. PICK t : t = [s EXCEPT !.next = y]
    OBVIOUS
  <2>3. InSequence(s, c, room) = Result(t, <<>>, FALSE)
    <3>1. ~(e - n > 0 /\ p \in (n + 2)..e) /\ ~(e - n > 0 /\ p <= n + 1 /\ e - n <= room)
      BY <1>3, <1>5, <1>6
    <3>2. QED
      BY <1>1, <1>2, <1>6, <2>1, <2>2, <3>1 DEF InSequence
  <2>4. /\ t \in Sub /\ t.mode = "cache" /\ t.next = y /\ t.count = n
        /\ ~t.inbuf /\ ~t.again
    BY <1>1, <2>2 DEF Sub
  <2>5. Fit(t, c, written, loaded)
    <3>1. loaded = 0 => y <= n + 1
      BY <1>3, <1>5, <1>6, <2>1
    <3>2. QED
      BY <1>5, <2>4, <3>1 DEF Fit
  <2>6. Follows(s, t, <<>>)
    BY <1>4, <1>5, <2>4 DEF Follows, Steady, LastSent
  <2>7. QED
    BY <2>3, <2>5, <2>6, SendsNone, ServesIs
<1>7. CASE p \in (n + 2)..e
  <2>1. InSequence(s, c, room) = Result(s, <<>>, TRUE)
    <3>1. /\ ~(e - n <= 0 \/ p > e) /\ e - n > 0
          /\ ~(e - n > 0 /\ p <= n + 1 /\ e - n <= room)
      BY <1>3, <1>5, <1>7
    <3>2. QED
      BY <1>1, <1>2, <1>7, <3>1 DEF InSequence
  <2>2. Fit(s, c, written, loaded)
    BY <1>1 DEF Fit
  <2>3. loaded > 0
    BY <1>3, <1>5, <1>7
  <2>4. Follows(s, s, <<>>)
    BY <1>4, <1>5 DEF Follows
  <2>5. QED
    BY <2>1, <2>2, <2>3, <2>4, SendsNone, ServesIs
<1>8. CASE e - n > 0 /\ p <= n + 1 /\ e - n <= room
  <2>1. PICK x \in 0..MaxRecords, y \in 1..(2 * MaxRecords + 1) : x = e /\ y = e + 1
    BY <1>3
  <2>2. PICK t : t = [s EXCEPT !.count = x, !.next = y]
    OBVIOUS
  <2>3. InSequence(s, c, room) = Result(t, After(n, e - n), FALSE)
    <3>1. ~(e - n <= 0 \/ p > e) /\ ~(e - n > 0 /\ p \in (n + 2)..e)
      BY <1>3, <1>5, <1>8
    <3>2. QED
      BY <1>1, <1>2, <1>8, <2>1, <2>2, <3>1 DEF InSequence
  <2>4. /\ t \in Sub /\ t.mode = "cache" /\ t.next = y /\ t.count = x
        /\ ~t.inbuf /\ ~t.again
    BY <2>2 DEF Sub
  <2>5. Fit(t, c, written, loaded)
    <3>1. x <= written /\ y <= x + 1
      BY <1>3, <2>1
    <3>2. QED
      BY <2>4, <3>1 DEF Fit
  <2>6. e - n \in Nat /\ n + (e - n) = e
    BY <1>3, <1>5, <1>8
  <2>7. /\ After(n, e - n) \in Seq(1..written) /\ Len(After(n, e - n)) = e - n
        /\ \A i \in 1..(e - n) : After(n, e - n)[i] = n + i
    BY <1>3, <1>5, <2>6, AfterIs
  <2>8. Sends(After(n, e - n), room)
    BY <1>8, <2>7 DEF Sends
  <2>9. LastSent(t) = e /\ Steady(t)
    BY <2>1, <2>4 DEF LastSent, Steady
  <2>10. Follows(s, t, After(n, e - n))
    BY <1>4, <2>6, <2>7, <2>9 DEF Follows
  <2>11. QED
    BY <2>3, <2>5, <2>8, <2>10, ServesIs
<1>9. CASE e - n > 0 /\ p <= n + 1 /\ e - n > room
  <2>1. PICK x \in 0..MaxRecords : x = n + room + 1 /\ x \in 1..(2 * MaxRecords + 1) /\ x <= e
    BY <1>3, <1>5, <1>9
  <2>2. PICK t : t = [s EXCEPT !.count = x, !.next = x, !.paused = TRUE, !.again = TRUE]
    OBVIOUS
  <2>3. InSequence(s, c, room) = Result(t, After(n, room), FALSE)
    <3>1. /\ ~(e - n <= 0 \/ p > e) /\ ~(e - n > 0 /\ p \in (n + 2)..e)
          /\ ~(e - n > 0 /\ p <= n + 1 /\ e - n <= room)
      BY <1>3, <1>5, <1>9
    <3>2. QED
      BY <1>1, <1>2, <2>1, <2>2, <3>1 DEF InSequence
  <2>4. /\ t \in Sub /\ t.mode = "cache" /\ t.next = x /\ t.count = x
        /\ ~t.inbuf /\ t.again
    BY <2>1, <2>2 DEF Sub
  <2>5. Fit(t, c, written, loaded)
    BY <1>2, <1>3, <1>5, <2>1, <2>4 DEF Fit
  <2>6. n + room <= written
    BY <1>3, <1>5, <1>9
  <2>7. /\ After(n, room) \in Seq(1..written) /\ Len(After(n, room)) = room
        /\ \A i \in 1..room : After(n, room)[i] = n + i
    BY <1>3, <1>5, <2>6, AfterIs
  <2>8. Sends(After(n, room), room)
    BY <2>7 DEF Sends
  <2>9. LastSent(t) = n + room /\ Steady(t)
    <3>1. x - 1 = n + room
      BY <1>5, <2>1
    <3>2. QED
      BY <2>4, <3>1 DEF LastSent, Steady
  <2>10. Follows(s, t, After(n, room))
    BY <1>4, <2>7, <2>9 DEF Follows
  <2>11. QED
    BY <2>3, <2>5, <2>8, <2>10, ServesIs
<1>10. QED
  BY <1>3, <1>5, <1>6, <1>7, <1>8, <1>9

(* What reading the log files leads to: the ring, unless the subscriber is *)
(* paused or the server ends.                                              *)
Turns(r) == r.exit \/ r.sub.paused \/ (r.sub.mode = "cache" /\ ~r.sub.inbuf)

(* A result that is one of these.                                          *)
LEMMA TurnsIs ==
  ASSUME NEW t, NEW q, NEW e \in BOOLEAN, e \/ t.paused \/ (t.mode = "cache" /\ ~t.inbuf)
  PROVE  Turns(Result(t, q, e))
BY DEF Turns, Result

(* The log files serve a subscriber.                                       *)
LEMMA FromLogServes ==
  ASSUME NEW c, Ring(c, written, loaded), NEW s, Fit(s, c, written, loaded),
         ~s.inbuf, NEW room \in Nat
  PROVE  Serves(s, FromLog(s, c, room), c, room) /\ Turns(FromLog(s, c, room))
<1>1. PICK p \in 1..(2 * MaxRecords + 1), n \in 0..MaxRecords : p = s.next /\ n = s.count
  BY DEF Sub, Fit
<1>2. PICK b : b = c.start
  OBVIOUS
<1>3. /\ written \in Nat /\ loaded \in Nat /\ MaxRecords \in Nat /\ written <= MaxRecords
      /\ c.end \in Nat /\ c.end <= written /\ b \in Nat /\ 1 <= b
      /\ b <= c.end + 1 /\ (c.end = 0 \/ b <= c.end)
  BY <1>2, CacheAssumption DEF Ring
<1>4. /\ n \in Nat /\ p \in Nat /\ n <= written /\ (loaded = 0 => p <= n + 1)
      /\ s \in Sub /\ (s.mode = "log" \/ s.mode = "cache")
  BY <1>1, <1>3 DEF Fit, Sub
<1>5. PICK news \in Nat : /\ p <= n + 1 => news = written - n
                          /\ ~(p <= n + 1) => news = 0
  <2>1. CASE p <= n + 1
    BY <1>3, <1>4, <2>1
  <2>2. CASE ~(p <= n + 1)
    BY <2>2
  <2>3. QED
    BY <2>1, <2>2
<1>6. n + news <= written
  BY <1>3, <1>4, <1>5
<1>7. ASSUME s.mode = "log"
      PROVE  Steady(s) => LastSent(s) = n /\ ~s.again
  BY <1>1, <1>7 DEF LastSent, Steady
<1>8. CASE s.mode = "cache"
  <2>1. FromLog(s, c, room) = Result(s, <<>>, FALSE)
    BY <1>8 DEF FromLog
  <2>2. Follows(s, s, <<>>)
    <3>1. LastSent(s) \in Int
      BY <1>1, <1>4 DEF LastSent
    <3>2. QED
      BY <3>1 DEF Follows
  <2>3. Serves(s, Result(s, <<>>, FALSE), c, room)
    BY <2>2, SendsNone, ServesIs
  <2>4. Turns(Result(s, <<>>, FALSE))
    BY <1>8, TurnsIs
  <2>5. QED
    BY <2>1, <2>3, <2>4
<1>9. CASE s.mode = "log" /\ p > written + 1
  <2>1. FromLog(s, c, room) = Result(s, <<>>, TRUE)
    <3>1. s.mode # "cache" /\ ~(p <= written + 1)
      BY <1>3, <1>4, <1>9
    <3>2. QED
      BY <1>1, <1>9, <3>1 DEF FromLog
  <2>2. Follows(s, s, <<>>)
    BY <1>4, <1>7, <1>9 DEF Follows
  <2>3. loaded > 0
    BY <1>3, <1>4, <1>9
  <2>4. Serves(s, Result(s, <<>>, TRUE), c, room)
    BY <2>2, <2>3, SendsNone, ServesIs
  <2>5. Turns(Result(s, <<>>, TRUE))
    BY TurnsIs
  <2>6. QED
    BY <2>1, <2>4, <2>5
<1>10. CASE s.mode = "log" /\ p <= written + 1 /\ news <= room
  <2>1. PICK x \in 0..MaxRecords, y \in 1..(2 * MaxRecords + 1) : x = n + news /\ y = b
    BY <1>3, <1>4, <1>6
  <2>2. PICK t : t = [s EXCEPT !.count = x, !.mode = "cache", !.next = y]
    OBVIOUS
  <2>3. FromLog(s, c, room) = Result(t, After(n, news), FALSE)
    <3>1. s.mode # "cache" /\ ~(p > written + 1)
      BY <1>3, <1>4, <1>10
    <3>2. QED
      BY <1>1, <1>2, <1>5, <1>10, <2>1, <2>2, <3>1 DEF FromLog
  <2>4. /\ t \in Sub /\ t.mode = "cache" /\ t.next = y /\ t.count = x
        /\ ~t.inbuf /\ t.again = s.again
    BY <1>4, <2>2 DEF Sub
  <2>5. Fit(t, c, written, loaded)
    <3>1. x <= written
      BY <1>3, <1>6, <2>1
    <3>2. t.again => c.end > 0 /\ t.next <= c.end
      BY <1>3, <2>1, <2>4 DEF Fit
    <3>3. loaded = 0 => p <= n + 1
      BY <1>4
    <3>4. loaded = 0 => x = written
      BY <1>3, <1>4, <1>5, <2>1, <3>3
    <3>5. loaded = 0 => y <= x + 1 /\ (t.again => y <= x)
      BY <1>3, <2>1, <2>4, <3>2, <3>4
    <3>6. QED
      BY <2>4, <3>1, <3>2, <3>5 DEF Fit
  <2>6. /\ After(n, news) \in Seq(1..written) /\ Len(After(n, news)) = news
        /\ \A i \in 1..news : After(n, news)[i] = n + i
    BY <1>3, <1>4, <1>6, AfterIs
  <2>7. Sends(After(n, news), room)
    BY <1>10, <2>6 DEF Sends
  <2>8. Follows(s, t, After(n, news))
    <3>1. SUFFICES ASSUME Steady(s)
                   PROVE  /\ Steady(t) /\ LastSent(t) = LastSent(s) + news
                          /\ \A i \in 1..news : After(n, news)[i] = LastSent(s) + i
      BY <2>6 DEF Follows
    <3>2. LastSent(s) = n /\ ~t.again
      BY <1>7, <1>10, <2>4, <3>1
    <3>3. Steady(t) /\ LastSent(t) = x
      BY <2>4, <3>2 DEF Steady, LastSent
    <3>4. QED
      BY <2>1, <2>6, <3>2, <3>3
  <2>9. Serves(s, Result(t, After(n, news), FALSE), c, room)
    BY <2>5, <2>7, <2>8, ServesIs
  <2>10. Turns(Result(t, After(n, news), FALSE))
    BY <2>4, TurnsIs
  <2>11. QED
    BY <2>3, <2>9, <2>10
<1>11. CASE s.mode = "log" /\ p <= written + 1 /\ news > room
  <2>1. p <= n + 1 /\ news = written - n
    BY <1>5, <1>11
  <2>2. PICK x \in 0..MaxRecords, y \in 1..(2 * MaxRecords + 1) :
          x = n + room + 1 /\ y = n + room + 2 /\ x <= written
    BY <1>3, <1>4, <1>11, <2>1
  <2>3. PICK t : t = [s EXCEPT !.count = x, !.next = y, !.inbuf = TRUE, !.paused = TRUE]
    OBVIOUS
  <2>4. FromLog(s, c, room) = Result(t, After(n, room), FALSE)
    <3>1. s.mode # "cache" /\ ~(p > written + 1) /\ ~(news <= room)
      BY <1>3, <1>4, <1>11
    <3>2. Paused(s, room) = t
      BY <1>1, <2>2, <2>3 DEF Paused
    <3>3. QED
      BY <1>1, <1>5, <1>11, <3>1, <3>2 DEF FromLog
  <2>5. /\ t \in Sub /\ t.mode = "log" /\ t.next = y /\ t.count = x
        /\ t.inbuf /\ t.again = s.again /\ t.paused
    BY <1>4, <1>11, <2>3 DEF Sub
  <2>6. Fit(t, c, written, loaded)
    <3>1. t.again => c.end > 0
      BY <2>5 DEF Fit
    <3>2. x > 0 /\ y <= x + 1
      BY <1>4, <2>2
    <3>3. QED
      BY <2>2, <2>5, <3>1, <3>2 DEF Fit
  <2>7. n + room <= written
    BY <1>3, <1>4, <2>2
  <2>8. /\ After(n, room) \in Seq(1..written) /\ Len(After(n, room)) = room
        /\ \A i \in 1..room : After(n, room)[i] = n + i
    BY <1>3, <1>4, <2>7, AfterIs
  <2>9. Sends(After(n, room), room)
    BY <2>8 DEF Sends
  <2>10. Follows(s, t, After(n, room))
    <3>1. SUFFICES ASSUME Steady(s)
                   PROVE  /\ Steady(t) /\ LastSent(t) = LastSent(s) + room
                          /\ \A i \in 1..room : After(n, room)[i] = LastSent(s) + i
      BY <2>8 DEF Follows
    <3>2. LastSent(s) = n /\ ~t.again
      BY <1>7, <1>11, <2>5, <3>1
    <3>3. x - 1 = n + room
      BY <1>4, <2>2
    <3>4. Steady(t) /\ LastSent(t) = n + room
      BY <2>5, <3>2, <3>3 DEF Steady, LastSent
    <3>5. QED
      BY <2>8, <3>2, <3>4
  <2>11. Serves(s, Result(t, After(n, room), FALSE), c, room)
    BY <2>6, <2>9, <2>10, ServesIs
  <2>12. Turns(Result(t, After(n, room), FALSE))
    BY <2>5, TurnsIs
  <2>13. QED
    BY <2>4, <2>11, <2>12
<1>12. QED
  BY <1>3, <1>4, <1>5, <1>8, <1>9, <1>10, <1>11

(* A sequence before another: its length and elements.                     *)
LEMMA Joining ==
  ASSUME NEW S, NEW a \in Seq(S), NEW b \in Seq(S)
  PROVE  /\ a \o b \in Seq(S) /\ Len(a \o b) = Len(a) + Len(b)
         /\ \A i \in 1..(Len(a) + Len(b)) :
              (a \o b)[i] = IF i <= Len(a) THEN a[i] ELSE b[i - Len(a)]
OBVIOUS

(* What is sent first and what is sent after it.                           *)
LEMMA SendsJoined ==
  ASSUME NEW a, NEW b, NEW room \in Nat, Sends(a, room), Sends(b, room - Len(a))
  PROVE  Sends(a \o b, room)
<1>1. /\ a \in Seq(1..written) /\ b \in Seq(1..written)
      /\ Len(a) <= room /\ Len(b) <= room - Len(a)
  BY DEF Sends
<1>2. a \o b \in Seq(1..written) /\ Len(a \o b) = Len(a) + Len(b)
  BY <1>1, Joining
<1>3. Len(a) \in Nat /\ Len(b) \in Nat
  BY <1>1
<1>4. QED
  BY <1>1, <1>2, <1>3 DEF Sends

(* The last record sent is a number.                                       *)
LEMMA LastSentIs ==
  ASSUME NEW s \in Sub
  PROVE  LastSent(s) \in Int
<1>1. s.count \in Int
  BY CacheAssumption DEF Sub
<1>2. QED
  BY <1>1 DEF LastSent

(* What follows, and what follows that.                                    *)
LEMMA FollowsJoined ==
  ASSUME NEW s \in Sub, NEW t \in Sub, NEW u \in Sub,
         NEW a \in Seq(1..written), NEW b \in Seq(1..written),
         Follows(s, t, a), Follows(t, u, b)
  PROVE  Follows(s, u, a \o b)
<1>1. SUFFICES ASSUME Steady(s)
               PROVE  /\ Steady(u) /\ LastSent(u) = LastSent(s) + Len(a \o b)
                      /\ \A i \in 1..Len(a \o b) : (a \o b)[i] = LastSent(s) + i
  BY DEF Follows
<1>2. /\ Steady(t) /\ LastSent(t) = LastSent(s) + Len(a)
      /\ \A i \in 1..Len(a) : a[i] = LastSent(s) + i
  BY <1>1 DEF Follows
<1>3. /\ Steady(u) /\ LastSent(u) = LastSent(t) + Len(b)
      /\ \A i \in 1..Len(b) : b[i] = LastSent(t) + i
  BY <1>2 DEF Follows
<1>4. PICK m \in Nat, n \in Nat : m = Len(a) /\ n = Len(b)
  OBVIOUS
<1>5. PICK l \in Int : l = LastSent(s)
  BY LastSentIs
<1>6. /\ Len(a \o b) = m + n
      /\ \A i \in 1..(m + n) : (a \o b)[i] = IF i <= m THEN a[i] ELSE b[i - m]
  BY <1>4, Joining
<1>7. LastSent(u) = l + (m + n)
  BY SMTT(60), <1>2, <1>3, <1>4, <1>5
<1>8. ASSUME NEW i \in 1..(m + n)
      PROVE  (a \o b)[i] = l + i
  <2>1. CASE i <= m
    BY <1>2, <1>4, <1>5, <1>6, <2>1
  <2>2. CASE i > m
    <3>1. PICK j \in 1..n : j = i - m
      BY <2>2
    <3>2. b[j] = (l + m) + j
      BY <1>2, <1>3, <1>4, <1>5
    <3>3. (a \o b)[i] = b[j]
      BY <1>6, <2>2, <3>1
    <3>4. QED
      BY <3>1, <3>2, <3>3
  <2>3. i <= m \/ i > m
    BY <1>4
  <2>4. QED
    BY <2>1, <2>2, <2>3
<1>9. QED
  BY <1>3, <1>5, <1>6, <1>7, <1>8

(* The ring, the record refused before first.                              *)
LEMMA FromCacheServes ==
  ASSUME NEW c, Ring(c, written, loaded), NEW s, Fit(s, c, written, loaded),
         s.mode = "cache", ~s.inbuf, NEW room \in Nat
  PROVE  Serves(s, FromCache(s, c, room), c, room)
<1>1. PICK p \in 1..(2 * MaxRecords + 1), n \in 0..MaxRecords : p = s.next /\ n = s.count
  BY DEF Sub, Fit
<1>2. /\ written \in Nat /\ loaded \in Nat /\ MaxRecords \in Nat /\ written <= MaxRecords
      /\ c.end \in Nat /\ c.end <= written
  BY CacheAssumption DEF Ring
<1>3. /\ n \in Nat /\ p \in Nat /\ 1 <= p /\ n <= written /\ (loaded = 0 => p <= n + 1)
      /\ s \in Sub /\ (s.again => p <= c.end) /\ (loaded = 0 /\ s.again => p <= n)
  BY <1>1, <1>2 DEF Fit
<1>4. CASE ~s.again
  <2>1. FromCache(s, c, room) = InSequence(s, c, room)
    BY <1>4 DEF FromCache
  <2>2. s.count <= written /\ (loaded = 0 => s.next <= s.count + 1)
    BY <1>1, <1>3
  <2>3. QED
    BY <1>3, <1>4, <2>1, <2>2, InSequenceServes
<1>5. CASE s.again /\ room = 0
  <2>1. PICK t : t = [s EXCEPT !.paused = TRUE]
    OBVIOUS
  <2>2. FromCache(s, c, room) = Result(t, <<>>, FALSE)
    <3>1. ~(~s.again \/ s.next > c.end)
      BY <1>1, <1>2, <1>3, <1>5
    <3>2. QED
      BY <1>5, <2>1, <3>1 DEF FromCache
  <2>3. /\ t \in Sub /\ t.mode = s.mode /\ t.next = s.next /\ t.count = s.count
        /\ t.inbuf = s.inbuf /\ t.again = s.again
    BY <1>3, <2>1 DEF Sub
  <2>4. Fit(t, c, written, loaded)
    BY <2>3 DEF Fit
  <2>5. Follows(s, t, <<>>)
    <3>1. LastSent(s) \in Int /\ LastSent(t) = LastSent(s) /\ (Steady(s) => Steady(t))
      BY <1>3, <2>3, LastSentIs DEF LastSent, Steady
    <3>2. QED
      BY <3>1 DEF Follows
  <2>6. QED
    BY <2>2, <2>4, <2>5, SendsNone, ServesIs
<1>6. CASE s.again /\ room > 0
  <2>1. PICK y \in 1..(2 * MaxRecords + 1) : y = p + 1
    BY <1>2, <1>3, <1>6
  <2>2. PICK u : u = [s EXCEPT !.again = FALSE, !.next = y]
    OBVIOUS
  <2>3. /\ u \in Sub /\ u.mode = "cache" /\ u.next = y /\ u.count = n
        /\ ~u.inbuf /\ ~u.again
    BY <1>1, <1>3, <2>2 DEF Sub
  <2>4. PICK less \in Nat : less = room - 1
    BY <1>6
  <2>5. PICK r : r = InSequence(u, c, less)
    OBVIOUS
  <2>6. Serves(u, r, c, less)
    <3>1. u.count <= written /\ (loaded = 0 => u.next <= u.count + 1)
      BY <1>3, <1>6, <2>1, <2>3
    <3>2. QED
      BY <2>3, <2>5, <3>1, InSequenceServes
  <2>7. /\ r.exit \in BOOLEAN /\ (r.exit => loaded > 0)
        /\ Fit(r.sub, c, written, loaded)
        /\ Sends(r.sent, less) /\ Follows(u, r.sub, r.sent)
    BY <2>6 DEF Serves
  <2>8. PICK q : q = <<p>> \o r.sent
    OBVIOUS
  <2>9. FromCache(s, c, room) = [r EXCEPT !.sent = q]
    <3>1. ~(~s.again \/ s.next > c.end) /\ room # 0
      BY <1>1, <1>2, <1>3, <1>6
    <3>2. [s EXCEPT !.again = FALSE, !.next = @ + 1] = u
      BY <1>1, <2>1, <2>2
    <3>3. InSequence([s EXCEPT !.again = FALSE, !.next = @ + 1], c, room - 1) = r
      BY <2>4, <2>5, <3>2
    <3>4. QED
      BY <1>1, <2>8, <3>1, <3>3 DEF FromCache
  <2>10. PICK t : t = [r EXCEPT !.sent = q]
    OBVIOUS
  <2>11. t.sub = r.sub /\ t.sent = q /\ t.exit = r.exit
    BY <2>5, <2>10 DEF InSequence, Result
  <2>12. <<p>> \in Seq(1..written) /\ Len(<<p>>) = 1 /\ <<p>>[1] = p
    BY <1>2, <1>3, <1>6
  <2>13. Sends(<<p>>, room) /\ r.sent \in Seq(1..written)
    BY <1>6, <2>7, <2>12 DEF Sends
  <2>14. Sends(q, room)
    <3>1. Sends(r.sent, room - Len(<<p>>))
      BY <2>4, <2>7, <2>12
    <3>2. QED
      BY <2>8, <2>13, <3>1, SendsJoined
  <2>15. Follows(s, u, <<p>>)
    <3>1. SUFFICES ASSUME Steady(s)
                   PROVE  /\ Steady(u) /\ LastSent(u) = LastSent(s) + 1
                          /\ \A i \in 1..1 : <<p>>[i] = LastSent(s) + i
      BY <2>12 DEF Follows
    <3>2. p = n /\ LastSent(s) = n - 1 /\ LastSent(u) = n /\ Steady(u)
      BY <1>1, <1>6, <2>3, <3>1 DEF Steady, LastSent
    <3>3. QED
      BY <1>3, <2>12, <3>2
  <2>16. Follows(s, r.sub, q)
    <3>1. r.sub \in Sub
      BY <2>7 DEF Fit
    <3>2. QED
      BY <1>3, <2>3, <2>7, <2>8, <2>12, <2>13, <2>15, <3>1, FollowsJoined
  <2>17. Serves(s, t, c, room)
    BY <2>7, <2>11, <2>14, <2>16 DEF Serves
  <2>18. QED
    BY <2>9, <2>10, <2>17
<1>7. QED
  BY <1>4, <1>5, <1>6

(* A result whose records come after those of an earlier one.              *)
LEMMA ServesJoined ==
  ASSUME NEW s \in Sub, NEW t \in Sub, NEW c, NEW room \in Nat, NEW less \in Nat,
         NEW a, Sends(a, room), Follows(s, t, a), less = room - Len(a),
         NEW r, Serves(t, r, c, less), NEW z, z.sub = r.sub, z.exit = r.exit, z.sent = a \o r.sent
  PROVE  Serves(s, z, c, room)
<1>1. /\ r.exit \in BOOLEAN /\ (r.exit => loaded > 0) /\ Fit(r.sub, c, written, loaded)
      /\ Sends(r.sent, less) /\ Follows(t, r.sub, r.sent)
  BY DEF Serves
<1>2. a \in Seq(1..written) /\ r.sent \in Seq(1..written) /\ r.sub \in Sub
  BY <1>1 DEF Sends, Fit
<1>3. Sends(a \o r.sent, room)
  <2>1. Sends(r.sent, room - Len(a))
    BY <1>1
  <2>2. QED
    BY <2>1, SendsJoined
<1>4. Follows(s, r.sub, a \o r.sent)
  BY <1>1, <1>2, FollowsJoined
<1>5. QED
  BY <1>1, <1>3, <1>4 DEF Serves

(* nbMsgCachePublish.                                                      *)
LEMMA PublishServes ==
  ASSUME NEW c, Ring(c, written, loaded), NEW s, Fit(s, c, written, loaded),
         NEW room \in Nat
  PROVE  Serves(s, Publish(s, c, room), c, room)
<1>1. PICK n \in 0..MaxRecords : n = s.count
  BY DEF Sub, Fit
<1>2. /\ written \in Nat /\ MaxRecords \in Nat /\ n \in Nat /\ n <= written /\ s \in Sub
      /\ (s.inbuf => n > 0 /\ s.mode = "log")
  BY <1>1, CacheAssumption DEF Ring, Fit
<1>3. CASE s.inbuf /\ room = 0
  <2>1. Publish(s, c, room) = Result(s, <<>>, FALSE)
    BY <1>3 DEF Publish
  <2>2. Follows(s, s, <<>>)
    <3>1. LastSent(s) \in Int
      BY <1>2, LastSentIs
    <3>2. QED
      BY <3>1 DEF Follows
  <2>3. QED
    BY <2>1, <2>2, SendsNone, ServesIs
<1>4. CASE ~(s.inbuf /\ room = 0)
  <2>1. PICK u : u = [s EXCEPT !.inbuf = FALSE, !.paused = FALSE]
    OBVIOUS
  <2>2. /\ u \in Sub /\ u.mode = s.mode /\ u.next = s.next /\ u.count = s.count
        /\ ~u.inbuf /\ u.again = s.again
    BY <1>2, <2>1 DEF Sub
  <2>3. Fit(u, c, written, loaded)
    BY <2>2 DEF Fit
  <2>4. PICK held : held = IF s.inbuf THEN <<s.count>> ELSE <<>>
    OBVIOUS
  <2>5. Sends(held, room) /\ Follows(s, u, held)
    <3>1. CASE s.inbuf
      <4>1. held = <<n>> /\ <<n>> \in Seq(1..written) /\ Len(<<n>>) = 1 /\ <<n>>[1] = n
        BY <1>1, <1>2, <2>4, <3>1
      <4>2. Sends(held, room)
        BY <1>4, <3>1, <4>1 DEF Sends
      <4>3. ASSUME Steady(s)
            PROVE  Steady(u) /\ LastSent(s) = n - 1 /\ LastSent(u) = n
        BY <1>1, <1>2, <2>2, <3>1, <4>3 DEF Steady, LastSent
      <4>4. Follows(s, u, held)
        BY <1>2, <4>1, <4>3 DEF Follows
      <4>5. QED
        BY <4>2, <4>4
    <3>2. CASE ~s.inbuf
      <4>1. held = <<>>
        BY <2>4, <3>2
      <4>2. LastSent(s) \in Int /\ LastSent(u) = LastSent(s) /\ (Steady(s) => Steady(u))
        BY <1>2, <2>2, <3>2, LastSentIs DEF LastSent, Steady
      <4>3. Follows(s, u, <<>>)
        BY <4>2 DEF Follows
      <4>4. QED
        BY <4>1, <4>3, SendsNone
    <3>3. QED
      BY <3>1, <3>2
  <2>6. PICK m \in Nat : m = room - Len(held)
    BY <2>5 DEF Sends
  <2>7. PICK log : log = FromLog(u, c, m)
    OBVIOUS
  <2>8. Serves(u, log, c, m) /\ Turns(log)
    BY <2>2, <2>3, <2>7, FromLogServes
  <2>9. /\ Sends(log.sent, m) /\ Fit(log.sub, c, written, loaded) /\ log.sub \in Sub
        /\ Follows(u, log.sub, log.sent) /\ log.sent \in Seq(1..written)
        /\ held \in Seq(1..written)
    BY <2>5, <2>8 DEF Serves, Sends, Fit
  <2>10. PICK k \in Nat : k = m - Len(log.sent)
    BY SMTT(60), <2>9 DEF Sends
  <2>11. PICK ring : ring = FromCache(log.sub, c, k)
    OBVIOUS
  <2>12. Publish(s, c, room) =
           IF log.sub.paused \/ log.exit THEN [log EXCEPT !.sent = held \o @]
           ELSE [ring EXCEPT !.sent = held \o log.sent \o @]
    <3>1. k = room - Len(held) - Len(log.sent)
      BY <2>6, <2>10
    <3>2. QED
      BY <1>4, <2>1, <2>4, <2>6, <2>7, <2>11, <3>1 DEF Publish
  <2>13. CASE log.sub.paused \/ log.exit
    <3>1. PICK q : q = held \o log.sent
      OBVIOUS
    <3>2. PICK z : z = [log EXCEPT !.sent = q]
      OBVIOUS
    <3>3. z.sub = log.sub /\ z.exit = log.exit /\ z.sent = held \o log.sent
      BY <2>7, <3>1, <3>2 DEF FromLog, Result
    <3>4. Serves(s, z, c, room)
      BY <1>2, <2>2, <2>5, <2>6, <2>8, <3>3, ServesJoined
    <3>5. Publish(s, c, room) = z
      BY <2>12, <2>13, <3>1, <3>2
    <3>6. QED
      BY <3>4, <3>5
  <2>14. CASE ~(log.sub.paused \/ log.exit)
    <3>1. log.sub.mode = "cache" /\ ~log.sub.inbuf
      BY <2>8, <2>14 DEF Turns
    <3>2. Serves(log.sub, ring, c, k)
      BY <2>9, <2>11, <3>1, FromCacheServes
    <3>3. PICK q : q = held \o log.sent
      OBVIOUS
    <3>4. Sends(q, room) /\ k = room - Len(q)
      <4>1. Sends(log.sent, room - Len(held))
        BY <2>6, <2>9
      <4>2. Sends(q, room)
        BY <2>5, <3>3, <4>1, SendsJoined
      <4>3. Len(q) = Len(held) + Len(log.sent)
        BY <2>9, <3>3, Joining
      <4>4. QED
        BY <2>6, <2>9, <2>10, <4>2, <4>3
    <3>5. Follows(s, log.sub, q)
      BY SMTT(60), <1>2, <2>2, <2>5, <2>9, <3>3, FollowsJoined
    <3>6. PICK p : p = q \o ring.sent
      OBVIOUS
    <3>7. PICK z : z = [ring EXCEPT !.sent = p]
      OBVIOUS
    <3>8. z.sub = ring.sub /\ z.exit = ring.exit /\ z.sent = q \o ring.sent
      BY ZenonT(40), <2>11, <3>6, <3>7 DEF FromCache, InSequence, Result
    <3>9. Serves(s, z, c, room)
      BY <1>2, <2>9, <3>2, <3>4, <3>5, <3>8, ServesJoined
    <3>10. Publish(s, c, room) = z
      <4>1. held \o log.sent \o ring.sent = p
        BY <3>3, <3>6
      <4>2. QED
        BY <2>12, <2>14, <3>7, <4>1
    <3>11. QED
      BY <3>9, <3>10
  <2>15. QED
    BY <2>13, <2>14
<1>5. QED
  BY <1>3, <1>4

(* nbMsgCacheInsert moves the ring on.                                     *)
LEMMA InsertedRing ==
  ASSUME NEW c, NEW w, NEW l, Ring(c, w, l), c.end < w
  PROVE  /\ Ring(Inserted(c), w, l) /\ Inserted(c).end = c.end + 1
         /\ Inserted(c).start \in {c.start, c.start + 1}
<1>1. PICK a \in Nat \ {0}, e \in 0..w, b \in Nat : c = [start |-> a, end |-> e, base |-> b]
  BY DEF Ring
<1>2. /\ CacheSize \in Nat \ {0} /\ w \in Nat /\ l \in 0..w /\ e < w
      /\ a <= e + 1 /\ e - a < CacheSize /\ (e = 0 \/ a <= e) /\ b = a + l /\ w \in 0..MaxRecords
  BY <1>1, CacheAssumption DEF Ring
<1>3. CASE e - a + 1 >= CacheSize
  <2>1. Inserted(c) = [start |-> a + 1, end |-> e + 1, base |-> b + 1]
    BY <1>1, <1>3 DEF Inserted, IsFull
  <2>2. a + 1 \in Nat \ {0} /\ e + 1 \in 0..w /\ b + 1 \in Nat /\ b + 1 = (a + 1) + l
        /\ a + 1 <= (e + 1) + 1 /\ (e + 1) - (a + 1) < CacheSize /\ a + 1 <= e + 1
    BY <1>1, <1>2, <1>3
  <2>3. QED
    BY <1>1, <1>2, <2>1, <2>2 DEF Ring
<1>4. CASE ~(e - a + 1 >= CacheSize)
  <2>1. Inserted(c) = [start |-> a, end |-> e + 1, base |-> b]
    BY <1>1, <1>4 DEF Inserted, IsFull
  <2>2. e + 1 \in 0..w /\ a <= (e + 1) + 1 /\ (e + 1) - a < CacheSize /\ a <= e + 1
    BY <1>1, <1>2, <1>4
  <2>3. QED
    BY <1>1, <1>2, <2>1, <2>2 DEF Ring
<1>5. QED
  BY <1>3, <1>4

(* nbMsgCacheAlloc: the ring of a log when it is opened.                   *)
LEMMA OpenedRing ==
  ASSUME NEW w \in 0..MaxRecords
  PROVE  Ring(Opened(w), w, w)
<1>1. CacheSize \in Nat \ {0} /\ MaxRecords \in Nat /\ w \in Nat
  BY CacheAssumption
<1>2. PICK a \in Nat \ {0} : /\ w > CacheSize => a = w - CacheSize + 1
                             /\ ~(w > CacheSize) => a = 1
  <2>1. CASE w > CacheSize
    BY <1>1, <2>1
  <2>2. CASE ~(w > CacheSize)
    BY <2>2
  <2>3. QED
    BY <2>1, <2>2
<1>3. Opened(w) = [start |-> a, end |-> w, base |-> a + w]
  BY <1>2 DEF Opened
<1>4. a <= w + 1 /\ w - a < CacheSize /\ (w = 0 \/ a <= w)
  BY <1>1, <1>2
<1>5. QED
  BY <1>1, <1>3, <1>4 DEF Ring

(* The log grows behind the ring.                                          *)
LEMMA WrittenMore ==
  ASSUME NEW c, NEW w, NEW l, Ring(c, w, l), w + 1 <= MaxRecords
  PROVE  /\ Ring(c, w + 1, l)
         /\ \A s : Fit(s, c, w, l) => Fit(s, c, w + 1, l)
<1>1. MaxRecords \in Nat /\ w \in Nat
  BY CacheAssumption DEF Ring
<1>2. Ring(c, w + 1, l)
  BY <1>1 DEF Ring
<1>3. ASSUME NEW s, Fit(s, c, w, l)
      PROVE  Fit(s, c, w + 1, l)
  <2>1. s.count \in Int
    BY <1>1, <1>3 DEF Fit, Sub
  <2>2. QED
    BY <1>1, <1>3, <2>1 DEF Fit
<1>4. QED
  BY <1>2, <1>3

(* nbMsgCacheSubscribe, from a state of the log on.                        *)
LEMMA SubscriberFit ==
  ASSUME NEW c, NEW w, NEW l, Ring(c, w, l), NEW n \in 0..w
  PROVE  /\ Fit(Subscriber(n), c, w, l) /\ Steady(Subscriber(n))
         /\ LastSent(Subscriber(n)) = n
<1>1. MaxRecords \in Nat /\ w \in 0..MaxRecords /\ n + 1 \in 1..(2 * MaxRecords + 1)
      /\ n \in 0..MaxRecords
  BY CacheAssumption DEF Ring
<1>2. Subscriber(n) \in Sub
  BY <1>1 DEF Subscriber, Sub
<1>3. QED
  BY <1>1, <1>2 DEF Fit, Subscriber, Steady, LastSent

(* nbMsgCacheStomp: a subscriber of the ring goes on with the ring or goes *)
(* back to the log files.                                                  *)
LEMMA StompedFit ==
  ASSUME NEW c, NEW w, NEW l, Ring(c, w, l), c.end < w, NEW s, Fit(s, c, w, l)
  PROVE  /\ Fit(AfterStomp(s, c), Inserted(c), w, l)
         /\ Steady(s) /\ ~(Stomped(s, c) /\ s.again) =>
              Steady(AfterStomp(s, c)) /\ LastSent(AfterStomp(s, c)) = LastSent(s)
<1>1. PICK d : d = Inserted(c)
  OBVIOUS
<1>2. Ring(d, w, l) /\ d.end = c.end + 1
  BY <1>1, InsertedRing
<1>3. /\ MaxRecords \in Nat /\ w \in 0..MaxRecords /\ l \in 0..w /\ c.end \in 0..w
      /\ c.start \in Nat \ {0} /\ c.start <= c.end + 1 /\ c.base = c.start + l
  BY CacheAssumption DEF Ring
<1>4. PICK p \in 1..(2 * MaxRecords + 1), n \in 0..MaxRecords : p = s.next /\ n = s.count
  BY DEF Sub, Fit
<1>5. CASE Stomped(s, c)
  <2>1. s.mode = "cache" /\ p = c.start
    BY <1>4, <1>5 DEF Stomped
  <2>2. PICK y \in 1..(2 * MaxRecords + 1) : y = c.base
    BY <1>3
  <2>3. PICK t : t = [s EXCEPT !.mode = "log", !.next = y]
    OBVIOUS
  <2>4. AfterStomp(s, c) = t
    BY <1>5, <2>2, <2>3 DEF AfterStomp
  <2>5. /\ t \in Sub /\ t.mode = "log" /\ t.next = y /\ t.count = n
        /\ t.inbuf = s.inbuf /\ t.again = s.again
    BY <1>4, <2>3 DEF Sub, Fit
  <2>6. Fit(t, d, w, l)
    <3>1. d.end > 0
      BY <1>2, <1>3
    <3>2. l = 0 => y <= n + 1
      <4>1. l = 0 => p <= n + 1
        BY <1>4 DEF Fit
      <4>2. l = 0 => y = p
        BY <1>3, <2>1, <2>2
      <4>3. QED
        BY <4>1, <4>2
    <3>3. n <= w /\ ~s.inbuf
      BY <1>4, <2>1 DEF Fit
    <3>4. QED
      BY <2>5, <3>1, <3>2, <3>3 DEF Fit
  <2>7. ~s.again => Steady(t) /\ LastSent(t) = LastSent(s)
    BY <1>4, <2>5 DEF Steady, LastSent
  <2>8. QED
    BY <1>1, <1>5, <2>4, <2>6, <2>7
<1>6. CASE ~Stomped(s, c)
  <2>1. AfterStomp(s, c) = s
    BY <1>6 DEF AfterStomp
  <2>2. Fit(s, d, w, l)
    <3>1. d.end > 0 /\ (s.next <= c.end => s.next <= d.end)
      BY <1>2, <1>3, <1>4
    <3>2. QED
      BY <3>1 DEF Fit
  <2>3. QED
    BY <1>1, <2>1, <2>2
<1>7. QED
  BY <1>5, <1>6

-----------------------------------------------------------------------------
(* nbMsgCacheInsert serves the subscribers one after the other.            *)

(* The result v for the k newest of them, s being the newest: all sent     *)
(* fits into the room there is, and unless an older one has sent something *)
(* it is what the newest has sent.                                         *)
Serving(v, k, s, c, room) ==
  /\ v.subs \in Seq(Sub) /\ Len(v.subs) = k
  /\ \A i \in 1..k : Fit(v.subs[i], c, written, loaded)
  /\ Sends(v.sent, room)
  /\ v.exit \in BOOLEAN /\ (v.exit => loaded > 0)
  /\ v.stale \in BOOLEAN
  /\ k = 0 => v.sent = <<>>
  /\ k > 0 /\ ~v.stale => Follows(s, v.subs[k], v.sent)

(* Nobody is served yet.                                                   *)
LEMMA NobodyServing ==
  ASSUME NEW s, NEW c, NEW room \in Nat
  PROVE  Serving(Nobody, 0, s, c, room)
<1>1. <<>> \in Seq(Sub) /\ Len(<<>>) = 0 /\ Sends(<<>>, room)
  BY SendsNone
<1>2. Nobody.subs = <<>> /\ Nobody.sent = <<>> /\ Nobody.stale = FALSE /\ Nobody.exit = FALSE
  BY DEF Nobody
<1>3. PICK v : v.subs = <<>> /\ v.sent = <<>> /\ v.stale = FALSE /\ v.exit = FALSE /\ v = Nobody
  BY <1>2
<1>4. /\ v.subs \in Seq(Sub) /\ Len(v.subs) = 0 /\ Sends(v.sent, room) /\ v.sent = <<>>
      /\ v.exit \in BOOLEAN /\ ~v.exit /\ v.stale \in BOOLEAN /\ ~(0 > 0)
  <2>1. v.subs \in Seq(Sub) /\ Len(v.subs) = 0
    BY <1>1, <1>3
  <2>2. Sends(v.sent, room) /\ v.sent = <<>>
    BY <1>1, <1>3
  <2>3. v.exit \in BOOLEAN /\ ~v.exit /\ v.stale \in BOOLEAN
    BY <1>3
  <2>4. ~(0 > 0)
    OBVIOUS
  <2>5. QED
    BY <2>1, <2>2, <2>3, <2>4
<1>5. \A i \in 1..0 : Fit(v.subs[i], c, written, loaded)
  OBVIOUS
<1>6. Serving(v, 0, s, c, room)
  BY <1>4, <1>5 DEF Serving
<1>7. QED
  BY <1>3, <1>6

(* One more is served.                                                     *)
LEMMA JoinedServing ==
  ASSUME NEW c, NEW room \in Nat, NEW k \in Nat, NEW v, NEW s, Serving(v, k, s, c, room),
         NEW t \in Sub, k = 0 => t = s, NEW less \in Nat, less = room - Len(v.sent),
         NEW r, Serves(t, r, c, less)
  PROVE  Serving(Joined(t, r, v), k + 1, s, c, room)
<1>1. /\ v.subs \in Seq(Sub) /\ Len(v.subs) = k
      /\ \A i \in 1..k : Fit(v.subs[i], c, written, loaded)
      /\ Sends(v.sent, room)
      /\ v.exit \in BOOLEAN /\ (v.exit => loaded > 0)
      /\ v.stale \in BOOLEAN
  BY DEF Serving
<1>2. /\ r.exit \in BOOLEAN /\ (r.exit => loaded > 0)
      /\ Fit(r.sub, c, written, loaded) /\ r.sub \in Sub
      /\ Sends(r.sent, less)
      /\ Follows(t, r.sub, r.sent)
  BY DEF Serves, Fit
<1>3. PICK b \in BOOLEAN : b = (r.sub.paused /\ (t.paused \/ r.sent = <<>>))
  OBVIOUS
<1>4. PICK u : u = [r.sub EXCEPT !.paused = b]
  OBVIOUS
<1>5. /\ u \in Sub /\ u.mode = r.sub.mode /\ u.next = r.sub.next /\ u.count = r.sub.count
      /\ u.inbuf = r.sub.inbuf /\ u.again = r.sub.again
  BY <1>2, <1>4 DEF Sub
<1>6. Fit(u, c, written, loaded)
  BY <1>2, <1>5 DEF Fit
<1>7. Follows(t, u, r.sent)
  BY <1>2, <1>5 DEF Follows, Steady, LastSent
<1>8. PICK list : list = <<u>> \o v.subs
  OBVIOUS
<1>9. PICK q : q = v.sent \o r.sent
  OBVIOUS
<1>10. PICK z : z = Joined(t, r, v)
  OBVIOUS
<1>11. /\ z.subs = list /\ z.sent = q
       /\ z.stale = (v.stale \/ (v.subs # <<>> /\ r.sent # <<>>))
       /\ z.exit = (v.exit \/ r.exit)
  <2>1. [r.sub EXCEPT !.paused = @ /\ (t.paused \/ r.sent = <<>>)] = u
    BY <1>3, <1>4
  <2>2. QED
    BY <1>8, <1>9, <1>10, <2>1 DEF Joined
<1>12. /\ list \in Seq(Sub) /\ Len(list) = k + 1
       /\ \A i \in 1..(k + 1) : list[i] = IF i <= 1 THEN u ELSE v.subs[i - 1]
  <2>1. <<u>> \in Seq(Sub) /\ Len(<<u>>) = 1 /\ <<u>>[1] = u
    BY <1>5
  <2>2. /\ list \in Seq(Sub) /\ Len(list) = 1 + k
        /\ \A i \in 1..(1 + k) : list[i] = IF i <= 1 THEN <<u>>[i] ELSE v.subs[i - 1]
    BY <1>1, <1>8, <2>1, Joining
  <2>3. QED
    BY <2>1, <2>2
<1>13. \A i \in 1..(k + 1) : Fit(list[i], c, written, loaded)
  <2> TAKE i \in 1..(k + 1)
  <2>1. CASE i <= 1
    BY <1>6, <1>12, <2>1
  <2>2. CASE ~(i <= 1)
    <3>1. i - 1 \in 1..k /\ list[i] = v.subs[i - 1]
      BY <1>12, <2>2
    <3>2. QED
      BY <1>1, <3>1
  <2>3. QED
    BY <2>1, <2>2
<1>14. Sends(q, room)
  <2>1. Sends(r.sent, room - Len(v.sent))
    BY <1>2
  <2>2. QED
    BY <1>1, <1>9, <2>1, SendsJoined
<1>15. ASSUME ~z.stale
       PROVE  Follows(s, list[k + 1], q)
  <2>1. CASE k = 0
    <3>1. v.sent \in Seq(1..written) /\ list[k + 1] = u /\ t = s /\ v.subs = <<>>
      BY <1>1, <1>12, <2>1 DEF Sends
    <3>2. v.sent = <<>> /\ q = r.sent
      <4>1. v.sent = <<>>
        BY <2>1 DEF Serving
      <4>2. r.sent \in Seq(1..written)
        BY <1>2 DEF Sends
      <4>3. QED
        BY <1>9, <4>1, <4>2
    <3>3. QED
      BY <1>7, <3>1, <3>2
  <2>2. CASE k > 0
    <3>1. ~v.stale /\ r.sent = <<>> /\ list[k + 1] = v.subs[k]
      <4>1. v.subs # <<>>
        BY <1>1, <2>2
      <4>2. ~(k + 1 <= 1) /\ k + 1 \in 1..(k + 1) /\ (k + 1) - 1 = k
        BY <2>2
      <4>3. list[k + 1] = v.subs[k]
        BY <1>12, <4>2
      <4>4. QED
        BY <1>11, <1>15, <4>1, <4>3
    <3>2. q = v.sent
      BY <1>1, <1>9, <3>1 DEF Sends
    <3>3. Follows(s, v.subs[k], v.sent)
      BY <2>2, <3>1 DEF Serving
    <3>4. QED
      BY <3>1, <3>2, <3>3
  <2>3. QED
    BY <2>1, <2>2
<1>16. Serving(z, k + 1, s, c, room)
  BY <1>1, <1>2, <1>11, <1>12, <1>13, <1>14, <1>15 DEF Serving
<1>17. QED
  BY <1>10, <1>16

(* One subscriber is served, or passed over.                               *)
LEMMA ServedOneServing ==
  ASSUME NEW c, Ring(c, written, loaded), NEW room \in Nat, NEW k \in Nat,
         NEW v, NEW s, Serving(v, k, s, c, room),
         NEW t, Fit(t, c, written, loaded), k = 0 => t = s
  PROVE  Serving(ServedOne(t, c, room, v), k + 1, s, c, room)
<1>1. PICK less \in Nat : less = room - Len(v.sent)
  BY DEF Serving, Sends
<1>2. t \in Sub
  BY DEF Fit
<1>3. CASE t.paused \/ t.mode = "log"
  <2>1. PICK r : r = Result(t, <<>>, FALSE)
    OBVIOUS
  <2>2. Follows(t, t, <<>>)
    <3>1. LastSent(t) \in Int
      BY <1>2, LastSentIs
    <3>2. QED
      BY <3>1 DEF Follows
  <2>3. Serves(t, r, c, less)
    BY <2>1, <2>2, SendsNone, ServesIs
  <2>4. ServedOne(t, c, room, v) = Joined(t, r, v)
    BY <1>3, <2>1 DEF ServedOne
  <2>5. Serving(Joined(t, r, v), k + 1, s, c, room)
    BY <1>1, <1>2, <2>3, JoinedServing
  <2>6. QED
    BY <2>4, <2>5
<1>4. CASE ~(t.paused \/ t.mode = "log")
  <2>1. PICK r : r = Publish(t, c, less)
    OBVIOUS
  <2>2. Serves(t, r, c, less)
    BY <2>1, PublishServes
  <2>3. ServedOne(t, c, room, v) = Joined(t, r, v)
    BY <1>1, <1>4, <2>1 DEF ServedOne
  <2>4. Serving(Joined(t, r, v), k + 1, s, c, room)
    BY <1>1, <1>2, <2>2, JoinedServing
  <2>5. QED
    BY <2>3, <2>4
<1>5. QED
  BY <1>3, <1>4

(* The function of the model, and what it is at each place.                *)
LEMMA ServedUnfolds ==
  ASSUME NEW n \in Nat, n = Len(subs), NEW room
  PROVE  \E f : /\ Served(room) = f[n]
                /\ f[0] = Nobody
                /\ \A k \in 1..n : f[k] = ServedOne(AfterStomp(subs[n + 1 - k], cache),
                                                    Inserted(cache), room, f[k - 1])
<1> DEFINE Step(i, x) == ServedOne(AfterStomp(subs[n + 1 - i], cache), Inserted(cache), room, x)
           Upto(g, m) == /\ g = [i \in 0..m |-> g[i]] /\ g[0] = Nobody
                         /\ \A i \in 1..m : g[i] = Step(i, g[i - 1])
           Whole(g) == g = [i \in 0..n |-> IF i = 0 THEN Nobody ELSE Step(i, g[i - 1])]
<1>1. \A m \in Nat : \E g : Upto(g, m)
  <2> DEFINE Bad == {m \in Nat : ~\E g : Upto(g, m)}
  <2>1. SUFFICES ASSUME Bad # {}
                 PROVE  FALSE
    OBVIOUS
  <2>2. PICK m \in Nat : m = Min(Bad) /\ m \in Bad /\ \A k \in Bad : m <= k
    <3>1. Bad \in SUBSET Nat
      OBVIOUS
    <3> HIDE DEF Bad
    <3>2. QED
      BY <2>1, <3>1, MinOfNaturals
  <2> HIDE DEF Step
  <2>3. CASE m = 0
    <3>1. PICK g : g = [i \in 0..0 |-> Nobody]
      OBVIOUS
    <3>2. Upto(g, 0)
      BY <3>1
    <3>3. QED
      BY <2>2, <2>3, <3>2
  <2>4. CASE m > 0
    <3>1. PICK l \in Nat : l = m - 1
      BY <2>4
    <3>2. l \notin Bad
      <4>1. ~(m <= l)
        BY <3>1
      <4>2. QED
        BY <2>2, <4>1
    <3>3. PICK g : Upto(g, l)
      BY <3>2
    <3>4. PICK last : last = Step(m, g[l])
      OBVIOUS
    <3>5. PICK h : h = [i \in 0..m |-> IF i = m THEN last ELSE g[i]]
      OBVIOUS
    <3>6. h = [i \in 0..m |-> h[i]] /\ h[0] = Nobody /\ h[m] = last /\ \A i \in 0..l : h[i] = g[i]
      BY <2>4, <3>1, <3>3, <3>5
    <3>7. ASSUME NEW i \in 1..m
          PROVE  h[i] = Step(i, h[i - 1])
      <4>1. i - 1 \in 0..l /\ h[i - 1] = g[i - 1]
        <5>1. i - 1 \in 0..l
          BY <3>1
        <5>2. QED
          BY <3>6, <5>1
      <4>2. CASE i = m
        BY <3>1, <3>4, <3>6, <4>1, <4>2
      <4>3. CASE i # m
        <5>1. i \in 1..l /\ i \in 0..l
          BY <3>1, <4>3
        <5>2. g[i] = Step(i, g[i - 1])
          BY <3>3, <5>1
        <5>3. QED
          BY <3>6, <4>1, <5>1, <5>2
      <4>4. QED
        BY <4>2, <4>3
    <3>8. Upto(h, m)
      BY <3>6, <3>7
    <3>9. QED
      BY <2>2, <3>8
  <2>5. QED
    BY <2>2, <2>3, <2>4
<1>2. PICK g : Upto(g, n)
  BY <1>1
<1>3. Whole(g)
  <2> HIDE DEF Step
  <2>1. \A i \in 0..n : g[i] = IF i = 0 THEN Nobody ELSE Step(i, g[i - 1])
    <3> TAKE i \in 0..n
    <3>1. CASE i = 0
      BY <1>2, <3>1
    <3>2. CASE i # 0
      <4>1. i \in 1..n
        BY <3>2
      <4>2. QED
        BY <1>2, <3>2, <4>1
    <3>3. QED
      BY <3>1, <3>2
  <2>2. g = [i \in 0..n |-> g[i]]
    BY <1>2
  <2>3. [i \in 0..n |-> g[i]] = [i \in 0..n |-> IF i = 0 THEN Nobody ELSE Step(i, g[i - 1])]
    BY <2>1
  <2>4. QED
    BY <2>2, <2>3
<1>4. PICK f : f = CHOOSE h : Whole(h)
  OBVIOUS
<1>5. Whole(f)
  BY <1>3, <1>4
<1>6. Served(room) = f[n]
  BY <1>4 DEF Served
<1>7. f[0] = Nobody /\ \A k \in 1..n : f[k] = Step(k, f[k - 1])
  <2> HIDE DEF Step
  <2>1. \A i \in 0..n : f[i] = IF i = 0 THEN Nobody ELSE Step(i, f[i - 1])
    BY <1>5
  <2>2. QED
    BY <2>1
<1>8. QED
  BY <1>6, <1>7

(* All of them are served; the newest is the last of the list.             *)
LEMMA ServedServing ==
  ASSUME NEW n \in Nat, n = Len(subs), subs \in Seq(Sub), NEW room \in Nat,
         Ring(cache, written, loaded), cache.end < written,
         \A i \in 1..n : Fit(subs[i], cache, written, loaded)
  PROVE  Serving(Served(room), n, AfterStomp(subs[n], cache), Inserted(cache), room)
<1>1. PICK f : /\ Served(room) = f[n]
               /\ f[0] = Nobody
               /\ \A k \in 1..n : f[k] = ServedOne(AfterStomp(subs[n + 1 - k], cache),
                                                   Inserted(cache), room, f[k - 1])
  BY SMTT(60), ServedUnfolds
<1>2. PICK c : c = Inserted(cache)
  OBVIOUS
<1>3. Ring(c, written, loaded)
  BY <1>2, InsertedRing
<1>4. PICK t : t = [i \in 1..n |-> AfterStomp(subs[i], cache)]
  OBVIOUS
<1>5. \A i \in 1..n : Fit(t[i], c, written, loaded)
  BY <1>2, <1>4, StompedFit
<1>6. PICK s : s = AfterStomp(subs[n], cache)
  OBVIOUS
<1> DEFINE Bad == {k \in 0..n : ~Serving(f[k], k, s, c, room)}
<1>7. Bad = {}
  <2>1. SUFFICES ASSUME Bad # {}
                 PROVE  FALSE
    OBVIOUS
  <2>2. PICK m \in 0..n : m = Min(Bad) /\ m \in Bad /\ \A k \in Bad : m <= k
    <3>1. Bad \in SUBSET Nat /\ Bad \in SUBSET (0..n)
      OBVIOUS
    <3> HIDE DEF Bad
    <3>2. QED
      BY <2>1, <3>1, MinOfNaturals
  <2>3. CASE m = 0
    BY <1>1, <2>2, <2>3, NobodyServing
  <2>4. CASE m > 0
    <3>1. PICK l \in 0..n : l = m - 1 /\ m = l + 1 /\ l \in Nat
      BY <2>4
    <3>2. Serving(f[l], l, s, c, room)
      <4>1. ~(m <= l)
        BY <3>1
      <4>2. QED
        BY <2>2, <4>1
    <3>3. PICK j \in 1..n : j = n + 1 - m
      <4> HIDE DEF Bad
      <4>1. n \in Nat /\ m \in Nat /\ m <= n /\ m > 0
        BY <2>4
      <4>2. n + 1 - m \in 1..n
        BY <4>1
      <4>3. QED
        BY <4>2
    <3>4. f[m] = ServedOne(t[j], c, room, f[l])
      <4>1. m \in 1..n
        BY <2>4
      <4>2. f[m] = ServedOne(AfterStomp(subs[j], cache), c, room, f[l])
        BY <1>1, <1>2, <3>1, <3>3, <4>1
      <4>3. QED
        BY <1>4, <4>2
    <3>5. l = 0 => t[j] = s
      <4>1. l = 0 => j = n
        BY <3>1, <3>3
      <4>2. QED
        BY <1>4, <1>6, <4>1
    <3>6. Fit(t[j], c, written, loaded)
      BY <1>5
    <3>7. Serving(ServedOne(t[j], c, room, f[l]), l + 1, s, c, room)
      BY <1>3, <3>1, <3>2, <3>5, <3>6, ServedOneServing
    <3>8. QED
      BY <2>2, <3>1, <3>4, <3>7
  <2>5. QED
    BY <2>3, <2>4
<1>8. n \in 0..n
  OBVIOUS
<1>9. Serving(f[n], n, s, c, room)
  BY <1>7, <1>8
<1>10. QED
  BY <1>1, <1>2, <1>6, <1>9

-----------------------------------------------------------------------------
(* The records of one connection.                                          *)

(* The records of a connection, when the log has w.                        *)
Msg(w) == [type : {"hello", "state", "message"}, n : 0..w]
Wired(w) == [opener : Side, end : [Side -> Ends], out : Seq(Msg(w)),
             wire : [Side -> Seq(Msg(w))], fresh : BOOLEAN, broken : BOOLEAN]
Typed(r, w) ==
  /\ r \in Wired(w) /\ Len(r.out) <= BufMax
  /\ r.end[Client] \in {"greet", "run", "closed"}
  /\ r.end[Server] = "hello" => r.wire[Server] = <<>> /\ r.end[Client] # "run"
  /\ r.broken => r.wire[Server] = <<>> /\ r.wire[Client] = <<>>

(* Before the client has read the server's hello, nothing but hellos is    *)
(* under way.                                                              *)
Greeting(r) ==
  /\ r.out = <<>> /\ r.end[Server] # "run" /\ Len(r.wire[Server]) <= 1
  /\ \A x \in Side : \A i \in 1..Len(r.wire[x]) : r.wire[x][i] = Hello

(* After that the records on the way to a client whose state is g follow   *)
(* each other, up to the last one the server has sent, which is l.         *)
Running(r, g, l) ==
  /\ \A i \in 1..Len(r.wire[Server]) : r.wire[Server][i] = Message(g + i)
  /\ r.end[Server] = "run" =>
       /\ l = g + Len(r.wire[Server]) + Len(r.out)
       /\ \A i \in 1..Len(r.out) : r.out[i] = Message(g + Len(r.wire[Server]) + i)
  /\ r.end[Server] # "run" => r.out = <<>>
  /\ r.end[Server] \in {"greet", "state"} =>
       /\ r.wire[Server] = <<>>
       /\ \A i \in 1..Len(r.wire[Client]) :
            r.wire[Client][i].type = "state" => r.wire[Client][i].n = g

(* A connection of programs of which u are up, with a subscription (b),    *)
(* unless one of the known ways to lose a record was taken (~q).           *)
Flows(r, g, l, q) ==
  q /\ ~r.broken => /\ r.end[Client] = "greet" => Greeting(r)
                    /\ r.end[Client] = "run" => Running(r, g, l)
Manned(r, u, b) ==
  /\ \A x \in Side : r.end[x] # "closed" => u[x]
  /\ r.end[Server] = "run" => b
Sound(r, w, g, l, q, u, b) == Typed(r, w) /\ Flows(r, g, l, q) /\ Manned(r, u, b)

(* The two sides.                                                          *)
LEMMA Sides == /\ Server \in Side /\ Client \in Side /\ Server # Client
               /\ Other(Server) = Client /\ Other(Client) = Server
               /\ \A x \in Side : x = Server \/ x = Client
BY DEF Side, Server, Client, Other

(* What is around a connection changes.                                    *)
LEMMA SoundAround ==
  ASSUME NEW r, NEW w \in Nat, NEW g, NEW l, NEW q, NEW u, NEW b, Sound(r, w, g, l, q, u, b),
         NEW w2 \in Nat, w <= w2, NEW q2, q2 => q,
         NEW g2, q2 /\ r.end[Client] = "run" => g2 = g,
         NEW l2, q2 /\ r.end[Server] = "run" => l2 = l,
         NEW u2, \A x \in Side : u[x] => u2[x], NEW b2, b => b2
  PROVE  Sound(r, w2, g2, l2, q2, u2, b2)
<1>1. Msg(w) \subseteq Msg(w2)
  BY DEF Msg
<1>2. Seq(Msg(w)) \subseteq Seq(Msg(w2))
  BY <1>1
<1>3. r \in Wired(w2)
  <2>1. r \in Wired(w)
    BY DEF Sound, Typed
  <2>2. QED
    BY <1>2, <2>1 DEF Wired
<1>4. Typed(r, w2)
  BY <1>3 DEF Sound, Typed
<1>5. Flows(r, g2, l2, q2)
  BY DEF Sound, Flows, Running
<1>6. Manned(r, u2, b2)
  BY DEF Sound, Manned
<1>7. QED
  BY <1>4, <1>5, <1>6 DEF Sound

(* A new connection.                                                       *)
LEMMA ConnSound ==
  ASSUME NEW w \in Nat, NEW g, NEW l, NEW q, NEW u, NEW b, NEW x \in Side,
         \A y \in Side : u[y]
  PROVE  Sound(Conn(x), w, g, l, q, u, b)
<1>1. PICK e : e = [y \in Side |-> IF Early(x, y) THEN "hello" ELSE "greet"]
  OBVIOUS
<1>2. PICK v : v = [y \in Side |-> IF Early(x, y) THEN <<>> ELSE <<Hello>>]
  OBVIOUS
<1>3. PICK r : r = Conn(x) /\ r = [opener |-> x, end |-> e, out |-> <<>>, wire |-> v,
                                   fresh |-> FALSE, broken |-> FALSE]
  BY <1>1, <1>2 DEF Conn
<1>4. <<>> \in Seq(Msg(w)) /\ <<Hello>> \in Seq(Msg(w)) /\ Len(<<>>) = 0
      /\ Len(<<Hello>>) = 1 /\ <<Hello>>[1] = Hello
  <2>1. Hello \in Msg(w)
    BY DEF Hello, Msg
  <2>2. QED
    BY <2>1
<1>5. /\ e \in [Side -> Ends] /\ e[Client] = "greet" /\ e[Server] \in {"hello", "greet"}
      /\ v \in [Side -> Seq(Msg(w))] /\ (e[Server] = "hello" => v[Server] = <<>>)
      /\ \A y \in Side : v[y] = <<>> \/ v[y] = <<Hello>>
  <2>1. \A y \in Side : v[y] = <<>> \/ v[y] = <<Hello>>
    BY <1>2
  <2>2. v \in [Side -> Seq(Msg(w))]
    BY <1>2, <1>4
  <2>3. QED
    BY <1>1, <1>2, <2>1, <2>2, Sides DEF Early, Ends
<1>6. BufMax \in Nat
  BY CabalAssumption
<1>7. Typed(r, w)
  <2>1. r \in Wired(w)
    BY <1>3, <1>4, <1>5 DEF Wired
  <2>2. QED
    BY <1>3, <1>4, <1>5, <1>6, <2>1 DEF Typed
<1>8. Greeting(r)
  <2>1. r.out = <<>> /\ r.end[Server] # "run"
    BY <1>3, <1>5
  <2>2. \A y \in Side : Len(v[y]) <= 1 /\ \A i \in 1..Len(v[y]) : v[y][i] = Hello
    <3> TAKE y \in Side
    <3>1. CASE v[y] = <<>>
      BY <1>4, <3>1
    <3>2. CASE v[y] = <<Hello>>
      BY <1>4, <3>2
    <3>3. QED
      BY <1>5, <3>1, <3>2
  <2>3. QED
    BY <1>3, <2>1, <2>2, Sides DEF Greeting
<1>9. Flows(r, g, l, q) /\ Manned(r, u, b)
  BY <1>3, <1>5, <1>8 DEF Flows, Manned
<1>10. QED
  BY <1>3, <1>7, <1>9 DEF Sound

(* The records on the way are records of the log, or of a greeting.        *)
LEMMA WiredIs ==
  ASSUME NEW r, NEW w \in Nat, Typed(r, w)
  PROVE  /\ r \in Wired(w) /\ r.end \in [Side -> Ends] /\ r.wire \in [Side -> Seq(Msg(w))]
         /\ r.out \in Seq(Msg(w)) /\ r.broken \in BOOLEAN /\ <<>> \in Seq(Msg(w))
         /\ r.wire[Server] \in Seq(Msg(w)) /\ r.wire[Client] \in Seq(Msg(w))
         /\ Len(r.out) \in Nat /\ Len(r.wire[Server]) \in Nat /\ Len(r.wire[Client]) \in Nat
<1>1. r \in Wired(w) /\ r.wire \in [Side -> Seq(Msg(w))] /\ r.out \in Seq(Msg(w))
  BY DEF Typed, Wired
<1>2. r.wire[Server] \in Seq(Msg(w)) /\ r.wire[Client] \in Seq(Msg(w))
  BY <1>1, Sides
<1>3. QED
  BY <1>1, <1>2 DEF Wired

(* x's end of a connection is closed.                                      *)
LEMMA ClosedSound ==
  ASSUME NEW r, NEW w \in Nat, NEW g, NEW l, NEW q, NEW u, NEW b, Sound(r, w, g, l, q, u, b),
         NEW x \in Side, NEW u2, \A y \in Side : y # x /\ u[y] => u2[y],
         NEW b2, x # Server /\ b => b2
  PROVE  Sound(Closed(r, x), w, g, l, q, u2, b2)
<1>1. /\ r \in Wired(w) /\ r.end \in [Side -> Ends] /\ r.wire \in [Side -> Seq(Msg(w))]
      /\ r.out \in Seq(Msg(w)) /\ r.broken \in BOOLEAN /\ <<>> \in Seq(Msg(w))
  BY WiredIs DEF Sound
<1>2. BufMax \in Nat /\ Len(<<>>) = 0
  BY CabalAssumption
<1>3. CASE r.end[Other(x)] = "closed"
  <2>1. Closed(r, x) = Gone
    BY <1>3 DEF Closed
  <2>2. /\ Gone \in Wired(w) /\ Gone.end[Client] = "closed" /\ Gone.end[Server] = "closed"
        /\ Gone.out = <<>> /\ Gone.broken = FALSE /\ \A y \in Side : Gone.end[y] = "closed"
    BY <1>1, Sides DEF Gone, Wired, Ends
  <2>3. Typed(Gone, w)
    BY <1>2, <2>2 DEF Typed
  <2>4. Flows(Gone, g, l, q) /\ Manned(Gone, u2, b2)
    BY <2>2 DEF Flows, Manned
  <2>5. QED
    BY <2>1, <2>3, <2>4 DEF Sound
<1>4. CASE r.end[Other(x)] # "closed" /\ x = Server
  <2>1. PICK e \in [Side -> Ends] : e = [r.end EXCEPT ![x] = "closed"]
    BY <1>1 DEF Ends
  <2>2. PICK v \in [Side -> Seq(Msg(w))] : v = [r.wire EXCEPT ![Client] = <<>>]
    BY <1>1
  <2>3. PICK s : s = [r EXCEPT !.end = e, !.wire = v, !.out = <<>>, !.fresh = FALSE]
    OBVIOUS
  <2>4. Closed(r, x) = s
    BY <1>4, <2>1, <2>2, <2>3 DEF Closed
  <2>5. /\ s \in Wired(w) /\ s.end = e /\ s.wire = v /\ s.out = <<>> /\ s.broken = r.broken
    BY <1>1, <2>3 DEF Wired
  <2>6. /\ e[Server] = "closed" /\ e[Client] = r.end[Client] /\ v[Client] = <<>>
        /\ v[Server] = r.wire[Server]
    BY <1>1, <1>4, <2>1, <2>2, Sides
  <2>7. Typed(s, w)
    BY <1>2, <2>5, <2>6 DEF Sound, Typed
  <2>8. Flows(s, g, l, q)
    <3>1. Greeting(r) => Greeting(s)
      <4>1. \A i \in 1..Len(v[Client]) : v[Client][i] = Hello
        BY <1>2, <2>6
      <4>2. QED
        BY SMTT(60), <2>5, <2>6, <4>1, Sides DEF Greeting
    <3>2. Running(r, g, l) => Running(s, g, l)
      BY <2>5, <2>6 DEF Running
    <3>3. QED
      BY <2>5, <2>6, <3>1, <3>2 DEF Sound, Flows
  <2>9. Manned(s, u2, b2)
    BY <1>4, <2>5, <2>6, Sides DEF Sound, Manned
  <2>10. QED
    BY <2>4, <2>7, <2>8, <2>9 DEF Sound
<1>5. CASE r.end[Other(x)] # "closed" /\ x = Client
  <2>1. PICK e \in [Side -> Ends] : e = [r.end EXCEPT ![x] = "closed"]
    BY <1>1 DEF Ends
  <2>2. PICK v \in [Side -> Seq(Msg(w))] : v = [r.wire EXCEPT ![Server] = <<>>]
    BY <1>1
  <2>3. PICK s : s = [r EXCEPT !.end = e, !.wire = v]
    OBVIOUS
  <2>4. Closed(r, x) = s
    BY <1>5, <2>1, <2>2, <2>3, Sides DEF Closed
  <2>5. /\ s \in Wired(w) /\ s.end = e /\ s.wire = v /\ s.out = r.out /\ s.broken = r.broken
    BY <1>1, <2>3 DEF Wired
  <2>6. /\ e[Client] = "closed" /\ e[Server] = r.end[Server] /\ v[Server] = <<>>
        /\ v[Client] = r.wire[Client]
    BY <1>1, <1>5, <2>1, <2>2, Sides
  <2>7. Typed(s, w)
    BY <2>5, <2>6 DEF Sound, Typed
  <2>8. Flows(s, g, l, q)
    BY <2>5, <2>6 DEF Flows
  <2>9. Manned(s, u2, b2)
    BY <1>5, <2>5, <2>6, Sides DEF Sound, Manned
  <2>10. QED
    BY <2>4, <2>7, <2>8, <2>9 DEF Sound
<1>6. QED
  BY <1>3, <1>4, <1>5, Sides

(* A connection breaks.                                                    *)
LEMMA BreakSound ==
  ASSUME NEW r, NEW w \in Nat, NEW g, NEW l, NEW q, NEW u, NEW b, Sound(r, w, g, l, q, u, b),
         NEW s, s = [r EXCEPT !.broken = TRUE, !.wire = [x \in Side |-> <<>>]]
  PROVE  Sound(s, w, g, l, q, u, b)
<1>1. r \in Wired(w) /\ <<>> \in Seq(Msg(w))
  BY WiredIs DEF Sound
<1>2. PICK v \in [Side -> Seq(Msg(w))] : v = [x \in Side |-> <<>>]
  BY <1>1
<1>3. PICK t : t = [r EXCEPT !.broken = TRUE, !.wire = v]
  OBVIOUS
<1>4. s = t
  BY <1>2, <1>3
<1>5. /\ s \in Wired(w) /\ s.end = r.end /\ s.wire = v /\ s.out = r.out /\ s.broken = TRUE
  BY <1>1, <1>3, <1>4 DEF Wired
<1>6. v[Server] = <<>> /\ v[Client] = <<>>
  BY <1>2, Sides
<1>7. Typed(s, w)
  BY <1>5, <1>6 DEF Sound, Typed
<1>8. Flows(s, g, l, q) /\ Manned(s, u, b)
  BY <1>5 DEF Flows, Sound, Manned
<1>9. QED
  BY <1>7, <1>8 DEF Sound

(* nbPeerConnecter sends its hello.                                        *)
LEMMA SendHelloSound ==
  ASSUME NEW r, NEW w \in Nat, NEW g, NEW l, NEW q, NEW u, NEW b, Sound(r, w, g, l, q, u, b),
         r.end[Server] = "hello", ~r.broken,
         NEW s, s = [r EXCEPT !.end[Server] = "greet", !.out = <<>>,
                              !.wire[Server] = r.out \o <<Hello>>]
  PROVE  Sound(s, w, g, l, q, u, b)
<1>1. /\ r \in Wired(w) /\ r.end \in [Side -> Ends] /\ r.wire \in [Side -> Seq(Msg(w))]
      /\ r.out \in Seq(Msg(w)) /\ r.broken \in BOOLEAN /\ <<>> \in Seq(Msg(w))
  BY WiredIs DEF Sound
<1>2. <<Hello>> \in Seq(Msg(w)) /\ Len(<<Hello>>) = 1 /\ <<Hello>>[1] = Hello
  <2>1. Hello \in Msg(w)
    BY DEF Hello, Msg
  <2>2. QED
    BY <2>1
<1>3. PICK m \in Seq(Msg(w)) : m = r.out \o <<Hello>>
  <2>1. r.out \o <<Hello>> \in Seq(Msg(w))
    BY <1>1, <1>2, Joining
  <2>2. QED
    BY <2>1
<1>4. BufMax \in Nat /\ Len(<<>>) = 0
  BY CabalAssumption
<1>5. PICK e \in [Side -> Ends] : e = [r.end EXCEPT ![Server] = "greet"]
  BY <1>1 DEF Ends
<1>6. PICK v \in [Side -> Seq(Msg(w))] : v = [r.wire EXCEPT ![Server] = m]
  BY <1>1
<1>7. PICK t : t = [r EXCEPT !.end = e, !.out = <<>>, !.wire = v]
  OBVIOUS
<1>8. s = t
  BY <1>3, <1>5, <1>6, <1>7
<1>9. /\ s \in Wired(w) /\ s.end = e /\ s.wire = v /\ s.out = <<>> /\ s.broken = r.broken
  BY <1>1, <1>7, <1>8 DEF Wired
<1>10. /\ e[Client] = r.end[Client] /\ e[Server] = "greet" /\ v[Server] = m
       /\ v[Client] = r.wire[Client]
  BY <1>1, <1>5, <1>6, Sides
<1>11. Typed(s, w)
  <2>1. r.end[Client] # "run"
    BY DEF Sound, Typed
  <2>2. QED
    BY <1>4, <1>9, <1>10, <2>1 DEF Sound, Typed
<1>12. Flows(s, g, l, q)
  <2>1. r.end[Client] # "run"
    BY DEF Sound, Typed
  <2>2. Greeting(r) => Greeting(s)
    <3>1. Greeting(r) => v[Server] = <<Hello>>
      BY <1>2, <1>3, <1>10 DEF Greeting
    <3>2. Greeting(r) => \A i \in 1..Len(v[Client]) : v[Client][i] = Hello
      BY <1>10, Sides DEF Greeting
    <3>3. v[Server] = <<Hello>> => Len(v[Server]) <= 1 /\ \A i \in 1..Len(v[Server]) : v[Server][i] = Hello
      BY <1>2
    <3>4. QED
      BY <1>9, <1>10, <3>1, <3>2, <3>3, Sides DEF Greeting
  <2>3. QED
    BY <1>9, <1>10, <2>1, <2>2 DEF Sound, Flows
<1>13. Manned(s, u, b)
  BY <1>9, <1>10, Sides DEF Sound, Manned
<1>14. QED
  BY <1>11, <1>12, <1>13 DEF Sound

(* A record is read.                                                       *)
LEMMA TailIs ==
  ASSUME NEW S, NEW a \in Seq(S), a # <<>>
  PROVE  /\ Tail(a) \in Seq(S) /\ Len(Tail(a)) = Len(a) - 1 /\ Head(a) = a[1] /\ a[1] \in S
         /\ \A i \in 1..(Len(a) - 1) : Tail(a)[i] = a[i + 1]
         /\ Len(a) \in Nat \ {0}
OBVIOUS

(* The client has read the server's hello and sends its state.             *)
LEMMA HelloToClientSound ==
  ASSUME NEW r, NEW w \in Nat, NEW l, NEW q, NEW u, NEW b, got \in 0..w,
         Sound(r, w, got, l, q, u, b), r.end[Client] = "greet", r.wire[Server] # <<>>,
         NEW s, s = Greeted([r EXCEPT !.wire[Server] = Tail(@)], Client)
  PROVE  Sound(s, w, got, l, q, u, b)
<1>1. /\ r \in Wired(w) /\ r.end \in [Side -> Ends] /\ r.wire \in [Side -> Seq(Msg(w))]
      /\ r.out \in Seq(Msg(w)) /\ r.broken \in BOOLEAN /\ <<>> \in Seq(Msg(w))
      /\ r.wire[Server] \in Seq(Msg(w)) /\ r.wire[Client] \in Seq(Msg(w))
      /\ Len(r.wire[Client]) \in Nat
  BY WiredIs DEF Sound
<1>2. State(got) \in Msg(w) /\ State(got).type = "state" /\ State(got).n = got
  BY DEF State, Msg
<1>3. PICK a : a = r.wire[Server] /\ a \in Seq(Msg(w)) /\ a # <<>>
  BY <1>1
<1>4. PICK rest \in Seq(Msg(w)) : rest = Tail(a) /\ Len(rest) = Len(a) - 1
  BY <1>3, TailIs
<1>5. PICK m \in Seq(Msg(w)) :
        /\ m = Append(r.wire[Client], State(got))
        /\ Len(m) = Len(r.wire[Client]) + 1
        /\ \A i \in 1..Len(r.wire[Client]) : m[i] = r.wire[Client][i]
        /\ m[Len(r.wire[Client]) + 1] = State(got)
  <2>1. PICK x \in Seq(Msg(w)), y \in Msg(w) : x = r.wire[Client] /\ y = State(got)
    BY <1>1, <1>2
  <2>2. PICK z : z = Append(x, y)
    OBVIOUS
  <2>3. /\ z \in Seq(Msg(w)) /\ Len(z) = Len(x) + 1 /\ z[Len(x) + 1] = y
        /\ \A i \in 1..Len(x) : z[i] = x[i]
    BY <2>2, AppendProperties
  <2>4. QED
    BY <2>1, <2>2, <2>3
<1>6. PICK e \in [Side -> Ends] : e = [r.end EXCEPT ![Client] = "run"]
  BY <1>1 DEF Ends
<1>7. PICK v1 \in [Side -> Seq(Msg(w))] : v1 = [r.wire EXCEPT ![Server] = rest]
  BY <1>1
<1>8. v1[Client] = r.wire[Client] /\ v1[Server] = rest
  BY <1>1, <1>7, Sides
<1>9. PICK v \in [Side -> Seq(Msg(w))] : v = [v1 EXCEPT ![Client] = m]
  BY <1>1
<1>10. v[Client] = m /\ v[Server] = rest
  BY <1>8, <1>9, Sides
<1>11. PICK t : t = [r EXCEPT !.wire = v1]
  OBVIOUS
<1>12. t \in Wired(w) /\ t.end = r.end /\ t.wire = v1 /\ t.out = r.out /\ t.broken = r.broken
  BY <1>1, <1>11 DEF Wired
<1>13. t = [r EXCEPT !.wire[Server] = Tail(@)]
  BY <1>3, <1>4, <1>7, <1>11
<1>14. PICK z : z = [t EXCEPT !.end = e, !.wire = v]
  OBVIOUS
<1>15. z \in Wired(w) /\ z.end = e /\ z.wire = v /\ z.out = r.out /\ z.broken = r.broken
  BY <1>12, <1>14 DEF Wired
<1>16. s = z
  <2>1. s = [t EXCEPT !.end[Client] = "run", !.wire[Client] = Append(@, State(got))]
    BY <1>13 DEF Greeted
  <2>2. QED
    BY ZenonT(40), <1>5, <1>6, <1>8, <1>9, <1>12, <1>14, <2>1
<1>17. e[Client] = "run" /\ e[Server] = r.end[Server]
  BY <1>1, <1>6, Sides
<1>18. r.end[Server] # "hello" /\ ~r.broken
  BY DEF Sound, Typed
<1>19. Typed(z, w)
  BY <1>15, <1>17, <1>18 DEF Sound, Typed
<1>20. Flows(z, got, l, q)
  <2>1. SUFFICES ASSUME Greeting(r)
                 PROVE  Running(z, got, l)
    BY <1>15, <1>17, <1>18 DEF Sound, Flows
  <2>2. rest = <<>>
    <3>1. Len(a) <= 1 /\ Len(a) \in Nat
      BY <1>3, <2>1 DEF Greeting
    <3>2. Len(rest) = 0
      BY <1>4, <3>1
    <3>3. QED
      BY <3>2
  <2>3. \A i \in 1..Len(m) : m[i].type = "state" => m[i].n = got
    <3> TAKE i \in 1..Len(m)
    <3>1. CASE i \in 1..Len(r.wire[Client])
      <4>1. m[i] = Hello
        BY <1>5, <2>1, <3>1, Sides DEF Greeting
      <4>2. QED
        BY <4>1 DEF Hello
    <3>2. CASE i = Len(r.wire[Client]) + 1
      BY <1>2, <1>5, <3>2
    <3>3. QED
      BY <1>1, <1>5, <3>1, <3>2
  <2>4. r.out = <<>> /\ r.end[Server] # "run" /\ Len(<<>>) = 0
    BY <2>1 DEF Greeting
  <2>5. QED
    BY <1>10, <1>15, <1>17, <2>2, <2>3, <2>4 DEF Running
<1>21. Manned(z, u, b)
  BY <1>15, <1>17, Sides DEF Sound, Manned
<1>22. QED
  BY <1>16, <1>19, <1>20, <1>21 DEF Sound

(* The server has read the hello of the client.                            *)
LEMMA HelloToServerSound ==
  ASSUME NEW r, NEW w \in Nat, NEW g, NEW l, NEW q, NEW u, NEW b,
         Sound(r, w, g, l, q, u, b), r.end[Server] = "greet", r.wire[Client] # <<>>,
         NEW s, s = Greeted([r EXCEPT !.wire[Client] = Tail(@)], Server)
  PROVE  Sound(s, w, g, l, q, u, b)
<1>1. /\ r \in Wired(w) /\ r.end \in [Side -> Ends] /\ r.wire \in [Side -> Seq(Msg(w))]
      /\ r.wire[Server] \in Seq(Msg(w)) /\ r.wire[Client] \in Seq(Msg(w))
  BY WiredIs DEF Sound
<1>2. PICK a : a = r.wire[Client] /\ a \in Seq(Msg(w)) /\ a # <<>>
  BY <1>1
<1>3. PICK rest \in Seq(Msg(w)) :
        /\ rest = Tail(a) /\ Len(rest) = Len(a) - 1
        /\ \A i \in 1..(Len(a) - 1) : rest[i] = a[i + 1]
        /\ Len(a) \in Nat \ {0}
  BY <1>2, TailIs
<1>4. PICK e \in [Side -> Ends] : e = [r.end EXCEPT ![Server] = "state"]
  BY <1>1 DEF Ends
<1>5. PICK v \in [Side -> Seq(Msg(w))] : v = [r.wire EXCEPT ![Client] = rest]
  BY <1>1
<1>6. PICK t : t = [r EXCEPT !.wire = v]
  OBVIOUS
<1>7. t \in Wired(w) /\ t.end = r.end /\ t.wire = v /\ t.out = r.out /\ t.broken = r.broken
  BY <1>1, <1>6 DEF Wired
<1>8. t = [r EXCEPT !.wire[Client] = Tail(@)]
  BY <1>2, <1>3, <1>5, <1>6
<1>9. PICK z : z = [t EXCEPT !.end = e]
  OBVIOUS
<1>10. z \in Wired(w) /\ z.end = e /\ z.wire = v /\ z.out = r.out /\ z.broken = r.broken
  BY <1>7, <1>9 DEF Wired
<1>11. s = z
  <2>1. s = [t EXCEPT !.end[Server] = "state"]
    BY <1>8, Sides DEF Greeted
  <2>2. QED
    BY <1>4, <1>7, <1>9, <2>1
<1>12. /\ e[Client] = r.end[Client] /\ e[Server] = "state"
       /\ v[Client] = rest /\ v[Server] = r.wire[Server]
  BY <1>1, <1>4, <1>5, Sides
<1>13. ~r.broken
  BY DEF Sound, Typed
<1>14. Typed(z, w)
  BY <1>10, <1>12, <1>13 DEF Sound, Typed
<1>15. \A i \in 1..Len(rest) : \E j \in 1..Len(a) : rest[i] = a[j]
  <2> TAKE i \in 1..Len(rest)
  <2>1. i \in 1..(Len(a) - 1) /\ i + 1 \in 1..Len(a)
    BY <1>3
  <2>2. QED
    BY <1>3, <2>1
<1>16. Flows(z, g, l, q)
  <2>1. Greeting(r) => Greeting(z)
    <3>1. Greeting(r) => \A i \in 1..Len(rest) : rest[i] = Hello
      BY <1>2, <1>15, Sides DEF Greeting
    <3>2. QED
      BY SMTT(60), <1>10, <1>12, <3>1, Sides DEF Greeting
  <2>2. Running(r, g, l) => Running(z, g, l)
    <3>1. Running(r, g, l) => \A i \in 1..Len(rest) : rest[i].type = "state" => rest[i].n = g
      BY <1>2, <1>15 DEF Running
    <3>2. QED
      BY <1>10, <1>12, <3>1 DEF Running
  <2>3. QED
    BY <1>10, <1>12, <2>1, <2>2 DEF Sound, Flows
<1>17. Manned(z, u, b)
  BY <1>10, <1>12, Sides DEF Sound, Manned
<1>18. QED
  BY <1>11, <1>14, <1>16, <1>17 DEF Sound

(* The server has read the state of the client and subscribes.             *)
Subscribed(r) ==
  [[r EXCEPT !.wire[Client] = Tail(@)] EXCEPT !.end[Server] = "run", !.fresh = TRUE]

(* What it will send follows that state.                                   *)
LEMMA SubscribeSound ==
  ASSUME NEW r, NEW w \in Nat, NEW g \in Nat, NEW l, NEW q, NEW u, NEW b,
         Sound(r, w, g, l, q, u, b), r.end[Server] = "state", r.wire[Client] # <<>>,
         Head(r.wire[Client]).type = "state",
         NEW s, s = Subscribed(r)
  PROVE  /\ Head(r.wire[Client]).n \in 0..w
         /\ Sound(s, w, g, Head(r.wire[Client]).n, q, u, TRUE)
<1>1. /\ r \in Wired(w) /\ r.end \in [Side -> Ends] /\ r.wire \in [Side -> Seq(Msg(w))]
      /\ r.wire[Server] \in Seq(Msg(w)) /\ r.wire[Client] \in Seq(Msg(w))
  BY WiredIs DEF Sound
<1>2. PICK a : a = r.wire[Client] /\ a \in Seq(Msg(w)) /\ a # <<>>
  BY <1>1
<1>3. PICK rest \in Seq(Msg(w)) :
        /\ rest = Tail(a) /\ Head(a) = a[1] /\ a[1] \in Msg(w)
        /\ Len(a) \in Nat \ {0}
  BY <1>2, TailIs
<1>4. PICK e \in [Side -> Ends] : e = [r.end EXCEPT ![Server] = "run"]
  BY <1>1 DEF Ends
<1>5. PICK v \in [Side -> Seq(Msg(w))] : v = [r.wire EXCEPT ![Client] = rest]
  BY <1>1
<1>6. PICK t : t = [r EXCEPT !.wire = v]
  OBVIOUS
<1>7. t \in Wired(w) /\ t.end = r.end /\ t.wire = v /\ t.out = r.out /\ t.broken = r.broken
  BY <1>1, <1>6 DEF Wired
<1>8. t = [r EXCEPT !.wire[Client] = Tail(@)]
  BY <1>2, <1>3, <1>5, <1>6
<1>9. PICK z : z = [t EXCEPT !.end = e, !.fresh = TRUE]
  OBVIOUS
<1>10. z \in Wired(w) /\ z.end = e /\ z.wire = v /\ z.out = r.out /\ z.broken = r.broken
  BY <1>7, <1>9 DEF Wired
<1>11. s = z
  <2>1. s = [t EXCEPT !.end[Server] = "run", !.fresh = TRUE]
    BY <1>8 DEF Subscribed
  <2>2. QED
    BY <1>4, <1>7, <1>9, <2>1
<1>12. /\ e[Client] = r.end[Client] /\ e[Server] = "run"
       /\ v[Client] = rest /\ v[Server] = r.wire[Server]
  BY <1>1, <1>4, <1>5, Sides
<1>13. ~r.broken
  BY DEF Sound, Typed
<1>14. Typed(z, w)
  BY <1>10, <1>12, <1>13 DEF Sound, Typed
<1>15. PICK n : n = a[1].n /\ n \in 0..w /\ a[1].type = "state"
  BY <1>2, <1>3 DEF Msg
<1>16. Flows(z, g, n, q)
  <2>1. 1 \in 1..Len(a)
    BY <1>3
  <2>2. ~Greeting(r)
    <3>1. Greeting(r) => a[1] = Hello
      BY <1>2, <2>1, Sides DEF Greeting
    <3>2. QED
      BY <1>15, <3>1 DEF Hello
  <2>3. Running(r, g, l) => Running(z, g, n)
    <3>1. Running(r, g, l) => n = g /\ r.wire[Server] = <<>> /\ r.out = <<>>
      BY <1>2, <1>15, <2>1 DEF Running
    <3>2. Len(<<>>) = 0 /\ g = g + 0 + 0
      OBVIOUS
    <3>3. z.wire[Server] = r.wire[Server] /\ z.out = r.out /\ z.end[Server] = "run"
      BY <1>10, <1>12
    <3>4. ASSUME z.wire[Server] = <<>>, z.out = <<>>, n = g
          PROVE  Running(z, g, n)
      BY <3>2, <3>3, <3>4 DEF Running
    <3>5. QED
      BY <3>1, <3>3, <3>4
  <2>4. QED
    BY <1>10, <1>12, <2>2, <2>3 DEF Sound, Flows
<1>17. Manned(z, u, TRUE)
  BY <1>10, <1>12, Sides DEF Sound, Manned
<1>18. QED
  BY <1>2, <1>3, <1>11, <1>14, <1>15, <1>16, <1>17 DEF Sound

(* Counting from the next record on.                                       *)
LEMMA CountMoves ==
  ASSUME NEW h \in Nat, NEW d \in Nat, NEW i \in Nat
  PROVE  h + (i + 1) = (h + 1) + i /\ h + (d + 1) + i = (h + 1) + d + i
OBVIOUS

(* A record on its way to a client is one of the log, and the next one if  *)
(* none was lost.                                                          *)
LEMMA TakeCounts ==
  ASSUME NEW r, NEW w \in Nat, NEW g, NEW l, NEW q, NEW u, NEW b,
         Sound(r, w, g, l, q, u, b), r.end[Client] = "run", r.wire[Server] # <<>>
  PROVE  Head(r.wire[Server]).n \in 0..w /\ (q => Head(r.wire[Server]).n = g + 1)
<1>1. r.wire[Server] \in Seq(Msg(w))
  BY WiredIs DEF Sound
<1>2. PICK a : a = r.wire[Server] /\ a \in Seq(Msg(w)) /\ a # <<>>
  BY <1>1
<1>3. Head(a) = a[1] /\ a[1] \in Msg(w) /\ 1 \in 1..Len(a)
  <2>1. Head(a) = a[1] /\ a[1] \in Msg(w) /\ Len(a) \in Nat \ {0}
    BY <1>2, TailIs
  <2>2. QED
    BY <2>1
<1>4. a[1].n \in 0..w
  BY <1>3 DEF Msg
<1>5. q => a[1] = Message(g + 1)
  BY <1>2, <1>3 DEF Sound, Typed, Flows, Running
<1>6. QED
  BY <1>2, <1>3, <1>4, <1>5 DEF Message

(* The client has read a record, and n is its state after that.            *)
LEMMA TakeSound ==
  ASSUME NEW r, NEW w \in Nat, NEW g \in 0..w, NEW l, NEW q, NEW u, NEW b,
         Sound(r, w, g, l, q, u, b), r.end[Client] = "run", r.wire[Server] # <<>>,
         NEW s, s = [r EXCEPT !.wire[Server] = Tail(@)],
         NEW n, n = Head(r.wire[Server]).n, NEW h, h = IF n > g THEN n ELSE g
  PROVE  Sound(s, w, h, l, q, u, b)
<1>1. /\ r \in Wired(w) /\ r.end \in [Side -> Ends] /\ r.wire \in [Side -> Seq(Msg(w))]
      /\ r.wire[Server] \in Seq(Msg(w)) /\ Len(r.out) \in Nat
  BY WiredIs DEF Sound
<1>2. PICK a : a = r.wire[Server] /\ a \in Seq(Msg(w)) /\ a # <<>>
  BY SMTT(60), <1>1
<1>3. PICK rest \in Seq(Msg(w)) :
        /\ rest = Tail(a) /\ Head(a) = a[1] /\ a[1] \in Msg(w)
        /\ Len(a) \in Nat \ {0} /\ Len(rest) = Len(a) - 1
        /\ \A i \in 1..(Len(a) - 1) : rest[i] = a[i + 1]
  <2>1. PICK z : z = Tail(a)
    OBVIOUS
  <2>2. /\ z \in Seq(Msg(w)) /\ Len(z) = Len(a) - 1 /\ Head(a) = a[1] /\ a[1] \in Msg(w)
        /\ \A i \in 1..(Len(a) - 1) : z[i] = a[i + 1]
        /\ Len(a) \in Nat \ {0}
    BY <1>2, <2>1, TailIs
  <2>3. QED
    BY ZenonT(40), <2>1, <2>2
<1>4. n = a[1].n /\ n \in 0..w
  BY <1>2, <1>3 DEF Msg
<1>5. PICK v \in [Side -> Seq(Msg(w))] : v = [r.wire EXCEPT ![Server] = rest]
  BY <1>1
<1>6. PICK t : t = [r EXCEPT !.wire = v]
  OBVIOUS
<1>7. t \in Wired(w) /\ t.end = r.end /\ t.wire = v /\ t.out = r.out /\ t.broken = r.broken
  BY <1>1, <1>6 DEF Wired
<1>8. s = t
  BY <1>2, <1>3, <1>5, <1>6
<1>9. v[Server] = rest /\ v[Client] = r.wire[Client]
  BY <1>1, <1>5, Sides
<1>10. ~r.broken /\ r.end[Server] # "hello"
  BY DEF Sound, Typed
<1>11. Typed(t, w)
  BY <1>7, <1>9, <1>10 DEF Sound, Typed
<1>12. 1 \in 1..Len(a)
  BY <1>3
<1>13. ASSUME q
       PROVE  n = g + 1 /\ Running(t, n, l)
  <2>1. Running(r, g, l)
    BY <1>10, <1>13 DEF Sound, Flows
  <2>2. a[1] = Message(g + 1)
    BY <1>2, <1>12, <2>1 DEF Running
  <2>3. n = g + 1 /\ g \in Nat /\ n \in Nat
    BY <1>4, <2>2 DEF Message
  <2>4. PICK la \in Nat, lr \in Nat : la = Len(a) /\ lr = Len(rest) /\ la = lr + 1
    BY <1>3
  <2>5. PICK m \in Nat : m = Len(r.out)
    BY <1>1
  <2>6. PICK e \in Nat, k \in Nat : e = g /\ k = n /\ k = e + 1
    BY <2>3
  <2>7. e + la + m = k + lr + m /\ \A i \in 1..m : e + la + i = k + lr + i
    <3>1. m \in Nat /\ \A i \in 1..m : i \in Nat
      OBVIOUS
    <3>2. e + (lr + 1) + m = (e + 1) + lr + m
      BY CountMoves
    <3>3. \A i \in 1..m : e + (lr + 1) + i = (e + 1) + lr + i
      BY <3>1, CountMoves
    <3>4. QED
      BY Zenon, <2>4, <2>6, <3>2, <3>3
  <2>8. \A i \in 1..lr : rest[i] = Message(k + i)
    <3> TAKE i \in 1..lr
    <3>1. i \in 1..(Len(a) - 1) /\ i + 1 \in 1..Len(a)
      BY <2>4
    <3>2. a[i + 1] = Message(g + (i + 1))
      BY <1>2, <2>1, <3>1 DEF Running
    <3>3. e + (i + 1) = k + i
      <4>1. i \in Nat
        OBVIOUS
      <4>2. e + (i + 1) = (e + 1) + i
        BY <4>1, CountMoves
      <4>3. QED
        BY Zenon, <2>6, <4>2
    <3>4. QED
      BY <1>3, <2>6, <3>1, <3>2, <3>3
  <2>9. r.end[Server] \notin {"greet", "state"}
    BY <1>2, <2>1 DEF Running
  <2>10. r.end[Server] = "run" =>
           /\ l = k + lr + m
           /\ \A i \in 1..m : r.out[i] = Message(k + lr + i)
    BY SMTT(60), <1>2, <2>1, <2>4, <2>5, <2>6, <2>7 DEF Running
  <2>11. r.end[Server] # "run" => r.out = <<>>
    BY <2>1 DEF Running
  <2>12. Running(t, k, l)
    BY <1>7, <1>9, <2>4, <2>5, <2>8, <2>9, <2>10, <2>11 DEF Running
  <2>13. QED
    BY <2>3, <2>6, <2>12
<1>14. q => h = n
  BY <1>4, <1>13
<1>15. Flows(t, h, l, q)
  BY <1>7, <1>13, <1>14 DEF Flows
<1>16. Manned(t, u, b)
  BY <1>7 DEF Sound, Manned
<1>17. QED
  BY <1>8, <1>11, <1>15, <1>16 DEF Sound

(* Records of the log, as they are sent.                                   *)
LEMMA RecordsAre ==
  ASSUME NEW w \in Nat, NEW ns \in Seq(1..w)
  PROVE  /\ [i \in 1..Len(ns) |-> Message(ns[i])] \in Seq(Msg(w))
         /\ Len([i \in 1..Len(ns) |-> Message(ns[i])]) = Len(ns)
         /\ \A j \in 1..Len(ns) : [i \in 1..Len(ns) |-> Message(ns[i])][j] = Message(ns[j])
<1>1. \A i \in 1..Len(ns) : Message(ns[i]) \in Msg(w)
  <2> TAKE i \in 1..Len(ns)
  <2>1. ns[i] \in 0..w
    OBVIOUS
  <2>2. QED
    BY <2>1 DEF Message, Msg
<1>2. QED
  BY <1>1

(* Counting on from n records on the wire and m in the buffer.             *)
LEMMA CountSplits ==
  ASSUME NEW g \in Nat, NEW n \in Nat, NEW m \in Nat, NEW k \in Nat
  PROVE  /\ (g + n + m) + k = g + n + (m + k)
         /\ \A i \in 1..(m + k) : i > m => (g + n + m) + (i - m) = g + n + i /\ i - m \in 1..k
OBVIOUS

(* Records are put into the buffer.                                        *)
LEMMA SentSound ==
  ASSUME NEW r, NEW w \in Nat, NEW g \in Nat, NEW l, NEW q, NEW u, NEW b,
         Sound(r, w, g, l, q, u, b), NEW ns \in Seq(1..w), Len(r.out) + Len(ns) <= BufMax,
         NEW l2, NEW q2,
         q2 => /\ q /\ r.end[Server] = "run" /\ l2 = l + Len(ns)
               /\ \A i \in 1..Len(ns) : ns[i] = l + i,
         NEW s, s = WithRecords(r, ns)
  PROVE  Sound(s, w, g, l2, q2, u, b) /\ s.wire = r.wire
<1>1. /\ r \in Wired(w) /\ r.out \in Seq(Msg(w))
      /\ Len(r.out) \in Nat /\ Len(r.wire[Server]) \in Nat
  BY WiredIs DEF Sound
<1>2. PICK ms \in Seq(Msg(w)) :
        /\ ms = [i \in 1..Len(ns) |-> Message(ns[i])] /\ Len(ms) = Len(ns)
        /\ \A j \in 1..Len(ns) : ms[j] = Message(ns[j])
  BY RecordsAre
<1>3. PICK old \in Seq(Msg(w)) : old = r.out
  BY <1>1
<1>4. PICK m \in Nat, k \in Nat, n \in Nat : m = Len(old) /\ k = Len(ms) /\ n = Len(r.wire[Server])
  BY <1>1, <1>3
<1>5. PICK o \in Seq(Msg(w)) :
        /\ o = old \o ms /\ Len(o) = m + k
        /\ \A i \in 1..(m + k) : o[i] = IF i <= m THEN old[i] ELSE ms[i - m]
  <2>1. /\ old \o ms \in Seq(Msg(w)) /\ Len(old \o ms) = Len(old) + Len(ms)
        /\ \A i \in 1..(Len(old) + Len(ms)) :
             (old \o ms)[i] = IF i <= Len(old) THEN old[i] ELSE ms[i - Len(old)]
    BY Joining
  <2>2. QED
    BY <1>4, <2>1
<1>6. PICK t : t = [r EXCEPT !.out = o]
  OBVIOUS
<1>7. s = t
  BY <1>2, <1>3, <1>5, <1>6 DEF WithRecords
<1>8. t \in Wired(w) /\ t.out = o /\ t.end = r.end /\ t.wire = r.wire /\ t.broken = r.broken
  BY <1>1, <1>6 DEF Wired
<1>9. Typed(t, w)
  <2>1. Len(o) <= BufMax
    BY <1>2, <1>3, <1>4, <1>5
  <2>2. QED
    BY <1>8, <2>1 DEF Sound, Typed
<1>10. Flows(t, g, l2, q2)
  <2>1. SUFFICES ASSUME q2, ~r.broken
                 PROVE  /\ r.end[Client] = "greet" => Greeting(t)
                        /\ r.end[Client] = "run" => Running(t, g, l2)
    BY <1>8 DEF Flows
  <2>2. /\ q /\ r.end[Server] = "run" /\ l2 = l + k
        /\ \A i \in 1..k : ns[i] = l + i
    BY <1>2, <1>4, <2>1
  <2>3. r.end[Client] # "greet"
    BY <2>1, <2>2 DEF Sound, Flows, Greeting
  <2>4. ASSUME Running(r, g, l)
        PROVE  Running(t, g, l2)
    <3>1. /\ l = g + n + m
          /\ \A i \in 1..m : old[i] = Message(g + n + i)
      BY <1>3, <1>4, <2>2, <2>4 DEF Running
    <3>2. l2 = g + n + (m + k)
      <4>1. (g + n + m) + k = g + n + (m + k)
        BY CountSplits
      <4>2. QED
        BY Zenon, <2>2, <3>1, <4>1
    <3>3. \A i \in 1..(m + k) : o[i] = Message(g + n + i)
      <4> TAKE i \in 1..(m + k)
      <4>1. CASE i <= m
        BY <1>5, <3>1, <4>1
      <4>2. CASE i > m
        <5>1. (g + n + m) + (i - m) = g + n + i /\ i - m \in 1..k
          BY <4>2, CountSplits
        <5>2. o[i] = ms[i - m]
          BY SMTT(60), <1>5, <4>2
        <5>3. ms[i - m] = Message(ns[i - m]) /\ ns[i - m] = l + (i - m)
          BY <1>2, <1>4, <2>2, <5>1
        <5>4. QED
          BY Zenon, <3>1, <5>1, <5>2, <5>3
      <4>3. QED
        BY <4>1, <4>2
    <3>4. QED
      BY ZenonT(40), <1>4, <1>5, <1>8, <2>2, <2>4, <3>2, <3>3 DEF Running
  <2>5. QED
    BY <2>1, <2>2, <2>3, <2>4 DEF Sound, Flows
<1>11. Manned(t, u, b)
  BY <1>8 DEF Sound, Manned
<1>12. QED
  BY <1>7, <1>8, <1>9, <1>10, <1>11 DEF Sound

(* nbPeerWriter writes the buffer.                                         *)
Flushed(r) == [r EXCEPT !.wire[Server] = r.out, !.out = <<>>, !.fresh = FALSE]

(* A connection whose buffer is written stays sound.                       *)
LEMMA FlushedSound ==
  ASSUME NEW r, NEW w \in Nat, NEW g \in Nat, NEW l, NEW q, NEW u, NEW b,
         Sound(r, w, g, l, q, u, b), r.end[Server] # "hello", ~r.broken, r.wire[Server] = <<>>,
         NEW s, s = Flushed(r)
  PROVE  Sound(s, w, g, l, q, u, b) /\ s.out = <<>> /\ s.end = r.end /\ s.broken = r.broken
<1>1. /\ r \in Wired(w) /\ r.wire \in [Side -> Seq(Msg(w))] /\ r.out \in Seq(Msg(w))
      /\ <<>> \in Seq(Msg(w)) /\ Len(r.out) \in Nat
  BY WiredIs DEF Sound
<1>2. PICK old \in Seq(Msg(w)) : old = r.out
  BY <1>1
<1>3. PICK v \in [Side -> Seq(Msg(w))] : v = [r.wire EXCEPT ![Server] = old]
  BY <1>1
<1>4. PICK t : t = [r EXCEPT !.wire = v, !.out = <<>>, !.fresh = FALSE]
  OBVIOUS
<1>5. s = t
  BY <1>2, <1>3, <1>4 DEF Flushed
<1>6. t \in Wired(w) /\ t.out = <<>> /\ t.end = r.end /\ t.wire = v /\ t.broken = r.broken
  BY <1>1, <1>4 DEF Wired
<1>7. v[Server] = old /\ v[Client] = r.wire[Client]
  BY <1>1, <1>3, Sides
<1>8. PICK m \in Nat : m = Len(old)
  BY <1>1, <1>2
<1>9. BufMax \in Nat /\ Len(<<>>) = 0
  BY CabalAssumption
<1>10. Typed(t, w)
  BY <1>6, <1>7, <1>9 DEF Sound, Typed
<1>11. Flows(t, g, l, q)
  <2>1. Greeting(r) => Greeting(t)
    <3>1. Greeting(r) => old = <<>>
      BY <1>2 DEF Greeting
    <3>2. Greeting(r) /\ old = <<>> => Greeting(t)
      BY <1>6, <1>7, <1>9, Sides DEF Greeting
    <3>3. QED
      BY <3>1, <3>2
  <2>2. ASSUME Running(r, g, l)
        PROVE  Running(t, g, l)
    <3>1. g + 0 + m = g + m + 0 /\ \A i \in 1..m : g + 0 + i = g + i
      OBVIOUS
    <3>2. r.end[Server] = "run" =>
            /\ l = g + 0 + m
            /\ \A i \in 1..m : old[i] = Message(g + 0 + i)
      BY <1>2, <1>8, <1>9, <2>2 DEF Running
    <3>3. r.end[Server] # "run" => old = <<>> /\ m = 0
      BY <1>2, <1>8, <1>9, <2>2 DEF Running
    <3>4. \A i \in 1..m : old[i] = Message(g + i)
      <4> TAKE i \in 1..m
      <4>1. m # 0 /\ g + 0 + i = g + i
        BY <3>1
      <4>2. old[i] = Message(g + 0 + i)
        BY <3>2, <3>3, <4>1
      <4>3. QED
        BY Zenon, <4>1, <4>2
    <3>5. r.end[Server] = "run" => l = g + m + 0
      BY <3>1, <3>2
    <3>6. \A i \in 1..0 : <<>>[i] = Message(g + m + i)
      OBVIOUS
    <3>7. QED
      BY <1>6, <1>7, <1>8, <1>9, <2>2, <3>3, <3>4, <3>5, <3>6 DEF Running
  <2>3. QED
    BY <1>6, <2>1, <2>2 DEF Sound, Flows
<1>12. Manned(t, u, b)
  BY <1>6 DEF Sound, Manned
<1>13. QED
  BY <1>5, <1>6, <1>10, <1>11, <1>12 DEF Sound

-----------------------------------------------------------------------------
(* All connections.                                                        *)

(* Every connection is sound.                                              *)
Flow(c, n, w, g, l, q, u, b) == \A k \in 1..n : Sound(c[k], w, g, l, q, u, b)

(* One connection changes, and what is around the others too.              *)
LEMMA FlowPut ==
  ASSUME NEW c, NEW n, List(c, n), NEW w \in Nat, NEW g, NEW l, NEW q, NEW u, NEW b,
         Flow(c, n, w, g, l, q, u, b), NEW k \in 1..n, NEW r,
         NEW g2, NEW l2, NEW q2, NEW b2, q2 => q, b => b2,
         \A j \in 1..n : q2 /\ j # k => /\ c[j].end[Client] = "run" => g2 = g
                                        /\ c[j].end[Server] = "run" => l2 = l,
         Sound(r, w, g2, l2, q2, u, b2)
  PROVE  Flow([c EXCEPT ![k] = r], n, w, g2, l2, q2, u, b2)
<1>1. PICK d : d = [c EXCEPT ![k] = r]
  OBVIOUS
<1>2. d[k] = r /\ \A j \in 1..n : j # k => d[j] = c[j]
  BY <1>1 DEF List
<1>3. w <= w /\ \A x \in Side : u[x] => u[x]
  OBVIOUS
<1>4. ASSUME NEW j \in 1..n, j # k
      PROVE  Sound(c[j], w, g2, l2, q2, u, b2)
  <2>1. Sound(c[j], w, g, l, q, u, b)
    BY DEF Flow
  <2>2. q2 /\ c[j].end[Client] = "run" => g2 = g
    BY <1>4
  <2>3. q2 /\ c[j].end[Server] = "run" => l2 = l
    BY <1>4
  <2>4. PICK z : z = c[j]
    OBVIOUS
  <2>5. /\ Sound(z, w, g, l, q, u, b) /\ (q2 /\ z.end[Client] = "run" => g2 = g)
        /\ (q2 /\ z.end[Server] = "run" => l2 = l)
    BY <2>1, <2>2, <2>3, <2>4
  <2>6. Sound(z, w, g2, l2, q2, u, b2)
    <3>1. PICK w2, u2 : w2 \in Nat /\ w2 = w /\ u2 = u /\ w <= w2 /\ \A x \in Side : u[x] => u2[x]
      BY <1>3
    <3>2. (q2 /\ z.end[Client] = "run" => g2 = g) /\ (q2 /\ z.end[Server] = "run" => l2 = l)
      BY <2>5
    <3>3. Sound(z, w2, g2, l2, q2, u2, b2)
      BY <2>5, <3>1, <3>2, SoundAround
    <3>4. QED
      BY <3>1, <3>3
  <2>7. QED
    BY <2>4, <2>6
<1>5. QED
  BY <1>1, <1>2, <1>4 DEF Flow

(* The same, where nothing is around that changes.                         *)
LEMMA FlowPutSame ==
  ASSUME NEW c, NEW n, List(c, n), NEW w, NEW g, NEW l, NEW q, NEW u, NEW b,
         Flow(c, n, w, g, l, q, u, b), NEW k \in 1..n, NEW r, Sound(r, w, g, l, q, u, b)
  PROVE  Flow([c EXCEPT ![k] = r], n, w, g, l, q, u, b)
<1>1. PICK d : d = [c EXCEPT ![k] = r]
  OBVIOUS
<1>2. d[k] = r /\ \A j \in 1..n : j # k => d[j] = c[j]
  BY <1>1 DEF List
<1>3. QED
  BY <1>1, <1>2 DEF Flow

(* Something is around that changes for none of them.                      *)
LEMMA FlowAround ==
  ASSUME NEW c, NEW n, NEW w \in Nat, NEW g, NEW l, NEW q, NEW u, NEW b,
         Flow(c, n, w, g, l, q, u, b), NEW w2 \in Nat, w <= w2,
         NEW q2, q2 => q, NEW l2, \A k \in 1..n : q2 /\ c[k].end[Server] = "run" => l2 = l,
         NEW u2, \A x \in Side : u[x] => u2[x], NEW b2, b => b2
  PROVE  Flow(c, n, w2, g, l2, q2, u2, b2)
<1>1. ASSUME NEW k \in 1..n
      PROVE  Sound(c[k], w2, g, l2, q2, u2, b2)
  <2>1. Sound(c[k], w, g, l, q, u, b)
    BY DEF Flow
  <2>2. q2 /\ c[k].end[Client] = "run" => g = g
    OBVIOUS
  <2>3. q2 /\ c[k].end[Server] = "run" => l2 = l
    OBVIOUS
  <2>4. QED
    BY <2>1, <2>2, <2>3, SoundAround
<1>2. QED
  BY <1>1 DEF Flow

(* A program ends.                                                         *)
LEMMA FlowEnds ==
  ASSUME NEW c, NEW n, NEW w \in Nat, NEW g, NEW l, NEW q, NEW u, NEW b,
         Flow(c, n, w, g, l, q, u, b), NEW x \in Side,
         NEW d, d = [k \in 1..n |-> IF c[k].end[x] # "closed" THEN Closed(c[k], x) ELSE c[k]],
         NEW u2, \A y \in Side : y # x /\ u[y] => u2[y], NEW b2, x # Server /\ b => b2
  PROVE  Flow(d, n, w, g, l, q, u2, b2)
<1>1. ASSUME NEW k \in 1..n
      PROVE  Sound(d[k], w, g, l, q, u2, b2)
  <2>1. PICK r : r = c[k] /\ Sound(r, w, g, l, q, u, b)
    BY DEF Flow
  <2>2. CASE r.end[x] # "closed"
    <3>1. d[k] = Closed(r, x)
      BY <2>1, <2>2
    <3>2. Sound(Closed(r, x), w, g, l, q, u2, b2)
      BY <2>1, ClosedSound
    <3>3. QED
      BY <3>1, <3>2
  <2>3. CASE r.end[x] = "closed"
    <3>1. d[k] = r
      BY <2>1, <2>3
    <3>2. Manned(r, u2, b2)
      <4>1. \A y \in Side : r.end[y] # "closed" => y # x /\ u[y]
        BY <2>1, <2>3 DEF Sound, Manned
      <4>2. r.end[Server] = "run" => x # Server /\ b
        BY <2>1, <2>3 DEF Sound, Manned
      <4>3. QED
        BY <4>1, <4>2 DEF Manned
    <3>3. QED
      BY <2>1, <3>1, <3>2 DEF Sound
  <2>4. QED
    BY <2>2, <2>3
<1>2. QED
  BY <1>1 DEF Flow

(* A new connection.                                                       *)
LEMMA FlowConnects ==
  ASSUME NEW c, NEW n, List(c, n), NEW w \in Nat, NEW g, NEW l, NEW q, NEW u, NEW b,
         Flow(c, n, w, g, l, q, u, b), NEW x \in Side, \A y \in Side : u[y]
  PROVE  Flow(Append(c, Conn(x)), n + 1, w, g, l, q, u, b)
<1>1. PICK r : r = Conn(x) /\ Shape(r)
  BY ConnShape
<1>2. PICK d : d = Append(c, r)
  OBVIOUS
<1>3. Grown(c, r, d)
  BY <1>2 DEF Grown
<1>4. d[n + 1] = r /\ \A j \in 1..n : d[j] = c[j]
  BY <1>1, <1>3, ListAppend
<1>5. Sound(r, w, g, l, q, u, b)
  BY <1>1, ConnSound
<1>6. \A j \in 1..n + 1 : j \in 1..n \/ j = n + 1
  BY DEF List
<1>7. Flow(d, n + 1, w, g, l, q, u, b)
  BY <1>4, <1>5, <1>6 DEF Flow
<1>8. QED
  BY <1>1, <1>2, <1>7

(* Only one connection is x's.                                             *)
LEMMA OneOwned ==
  ASSUME NEW c, NEW n, NEW v, Matched(c, n, v), NEW x \in Side,
         NEW j \in 1..n, NEW k \in 1..n, Owns(x, c[j]), Owns(x, c[k])
  PROVE  j = k
BY DEF Matched, Holds

(* An end that has read the hello is the only one of its side that has.    *)
LEMMA OneRuns ==
  ASSUME NEW c, NEW n, NEW v, Matched(c, n, v), NEW x \in Side,
         NEW k \in 1..n, c[k].end[x] \in {"state", "run"}
  PROVE  \A j \in 1..n : j # k => c[j].end[x] # "run"
<1>1. ASSUME NEW j \in 1..n, c[j].end[x] = "run"
      PROVE  j = k
  <2>1. Owns(x, c[j]) /\ Owns(x, c[k])
    BY <1>1 DEF Owns
  <2>2. QED
    BY <2>1, OneOwned
<1>2. QED
  BY <1>1

-----------------------------------------------------------------------------
(* The state around them.                                                  *)

(* Neither known way to lose a record was taken.                           *)
Quiet == ~jumped /\ ~skipped

(* The inductive invariant: the log, its ring and its subscribers,         *)
LogOK ==
  /\ Ring(cache, written, loaded) /\ openers \in DOMAIN Limits
  /\ subs \in Seq(Sub) /\ \A i \in 1..Len(subs) : Fit(subs[i], cache, written, loaded)
  /\ ~up[Server] => subs = <<>>
  /\ fatal => loaded > 0 \/ (unbuffered /\ Server \notin openers)
(* the client and the newest subscriber,                                   *)
ClientOK ==
  /\ got \in 0..written /\ lost \subseteq 1..written
  /\ Quiet => lost = {} /\ (subs # <<>> => Steady(subs[Len(subs)]))
FlagsOK ==
  /\ up \in [Side -> BOOLEAN] /\ timer \in [Side -> BOOLEAN]
  /\ jumped \in BOOLEAN /\ skipped \in BOOLEAN
(* and each connection.                                                    *)
Good(r) == Sound(r, written, got, LastSent(subs[Len(subs)]), Quiet, up, subs # <<>>)
LinksOK(n) ==
  Flow(conns, n, written, got, LastSent(subs[Len(subs)]), Quiet, up, subs # <<>>)
Before(n) == Matched(conns, n, node) /\ LinksOK(n) /\ LogOK /\ ClientOK /\ FlagsOK

(* The peer of a server that connects itself is without a buffer only as   *)
(* long as nobody has subscribed.                                          *)
PeerOK == Server \in openers /\ Peer = 0 => subs = <<>>

(* What the lemmas below use of the invariant.                             *)
LEMMA BeforeIs ==
  ASSUME NEW n, Before(n)
  PROVE  /\ written \in Nat /\ MaxRecords \in Nat /\ written <= MaxRecords /\ got \in Nat
         /\ got \in 0..written /\ loaded \in Nat
         /\ List(conns, n) /\ Connections = 1..n /\ Len(conns) = n
         /\ \A k \in 1..n : Good(conns[k])
         /\ Server \in Side /\ Client \in Side
<1>1. /\ written \in Nat /\ MaxRecords \in Nat /\ written <= MaxRecords /\ got \in Nat
      /\ got \in 0..written /\ loaded \in Nat
  BY CacheAssumption DEF Before, LogOK, ClientOK, Ring
<1>2. List(conns, n)
  BY DEF Before, Matched
<1>3. Connections = 1..n /\ Len(conns) = n
  BY ConnectionsAre DEF Before
<1>4. \A k \in 1..n : Good(conns[k])
  BY DEF Before, LinksOK, Flow, Good
<1>5. QED
  BY <1>1, <1>2, <1>3, <1>4, Sides

(* One connection changes.                                                 *)
LEMMA LinksPut ==
  ASSUME NEW n, Before(n), NEW k \in 1..n, NEW r, Good(r),
         conns' = [conns EXCEPT ![k] = r], UNCHANGED <<written, got, subs, jumped, skipped, up>>
  PROVE  LinksOK(n)'
<1>1. PICK l, q, b : l = LastSent(subs[Len(subs)]) /\ q = Quiet /\ b = (subs # <<>>)
  OBVIOUS
<1>2. Flow(conns, n, written, got, l, q, up, b) /\ Sound(r, written, got, l, q, up, b)
  BY <1>1 DEF Before, LinksOK, Good
<1>3. List(conns, n)
  BY BeforeIs
<1>4. Flow(conns', n, written, got, l, q, up, b)
  BY <1>2, <1>3, FlowPutSame
<1>5. QED
  BY <1>1, <1>4 DEF LinksOK, Quiet

(* A step that leaves the log alone.                                       *)
LEMMA LogKept ==
  ASSUME LogOK, UNCHANGED <<cacheVars, openers, up, fatal, unbuffered>>
  PROVE  LogOK'
BY DEF LogOK, cacheVars

(* The same of the client,                                                 *)
LEMMA ClientKept ==
  ASSUME ClientOK, UNCHANGED <<written, subs, got, lost, jumped, skipped>>
  PROVE  ClientOK'
BY DEF ClientOK, Quiet

(* and of the flags.                                                       *)
LEMMA FlagsKept ==
  ASSUME FlagsOK, UNCHANGED <<up, timer, jumped, skipped>>
  PROVE  FlagsOK'
BY DEF FlagsOK

(* nbPeerShutdown.                                                         *)
LEMMA ShutdownLinks ==
  ASSUME NEW n, Before(n), NEW x \in Side, NEW k \in 1..n, Shutdown(x, k),
         UNCHANGED <<written, got, subs, jumped, skipped, up>>
  PROVE  LinksOK(n)'
<1>1. PICK r : r = Closed(conns[k], x)
  OBVIOUS
<1>2. conns' = [conns EXCEPT ![k] = r]
  BY <1>1 DEF Shutdown
<1>3. Good(r)
  <2>1. PICK l, q, b : l = LastSent(subs[Len(subs)]) /\ q = Quiet /\ b = (subs # <<>>)
    OBVIOUS
  <2>2. Sound(conns[k], written, got, l, q, up, b)
    BY <2>1, BeforeIs DEF Good
  <2>3. written \in Nat
    BY BeforeIs
  <2>4. (\A y \in Side : y # x /\ up[y] => up[y]) /\ (x # Server /\ b => b)
    OBVIOUS
  <2>5. PICK d : d = conns[k]
    OBVIOUS
  <2>6. Sound(Closed(d, x), written, got, l, q, up, b)
    BY <2>2, <2>3, <2>4, <2>5, ClosedSound
  <2>7. QED
    BY <1>1, <2>1, <2>5, <2>6 DEF Good
<1>4. QED
  BY <1>2, <1>3, LinksPut

(* nbPeerConnecter.                                                        *)
LEMMA SendHelloLinks ==
  ASSUME NEW n, Before(n), NEW k \in 1..n, SendHello(k)
  PROVE  LinksOK(n)'
<1>1. PICK d : d = conns[k]
  OBVIOUS
<1>2. PICK r : r = [d EXCEPT !.end[Server] = "greet", !.out = <<>>,
                             !.wire[Server] = d.out \o <<Hello>>]
  OBVIOUS
<1>3. conns' = [conns EXCEPT ![k] = r]
  BY ZenonT(40), <1>1, <1>2, BeforeIs DEF SendHello, List
<1>4. Good(r)
  <2>1. Good(d) /\ written \in Nat
    BY <1>1, BeforeIs
  <2>2. d.end[Server] = "hello" /\ ~d.broken
    BY <1>1 DEF SendHello
  <2>3. QED
    BY <1>2, <2>1, <2>2, SendHelloSound DEF Good
<1>5. UNCHANGED <<written, got, subs, jumped, skipped, up>>
  BY DEF SendHello, cacheVars, nodes, clientVars, history
<1>6. QED
  BY <1>3, <1>4, <1>5, LinksPut

(* A connection breaks.                                                    *)
LEMMA BreakLinks ==
  ASSUME NEW n, Before(n), NEW k \in 1..n, Break(k)
  PROVE  LinksOK(n)'
<1>1. PICK d : d = conns[k]
  OBVIOUS
<1>2. PICK r : r = [d EXCEPT !.broken = TRUE, !.wire = [x \in Side |-> <<>>]]
  OBVIOUS
<1>3. conns' = [conns EXCEPT ![k] = r]
  BY <1>1, <1>2, BeforeIs DEF Break, List
<1>4. Good(r)
  <2>1. Good(d) /\ written \in Nat
    BY <1>1, BeforeIs
  <2>2. QED
    BY <1>2, <2>1, BreakSound DEF Good
<1>5. UNCHANGED <<written, got, subs, jumped, skipped, up>>
  BY DEF Break, cacheVars, nodes, clientVars
<1>6. QED
  BY <1>3, <1>4, <1>5, LinksPut

(* What is made of a hello.                                                *)
LEMMA GreetedGood ==
  ASSUME NEW n, Before(n), NEW x \in Side, NEW k \in 1..n, Arrived(x, k, "hello"),
         conns[k].end[x] = "greet"
  PROVE  Good(Greeted(Taken(k, x), x))
<1>1. PICK d : d = conns[k]
  OBVIOUS
<1>2. Good(d) /\ written \in Nat /\ got \in 0..written
  BY <1>1, BeforeIs
<1>3. d.wire[Other(x)] # <<>>
  BY <1>1 DEF Arrived
<1>4. CASE x = Client
  <2>1. PICK s : s = Greeted([d EXCEPT !.wire[Server] = Tail(@)], Client)
    OBVIOUS
  <2>2. d.end[Client] = "greet" /\ d.wire[Server] # <<>>
    BY <1>1, <1>3, <1>4, Sides
  <2>3. Good(s)
    BY <1>2, <2>1, <2>2, HelloToClientSound DEF Good
  <2>4. Greeted(Taken(k, x), x) = s
    BY <1>1, <1>4, <2>1, Sides DEF Taken
  <2>5. QED
    BY <2>3, <2>4
<1>5. CASE x = Server
  <2>1. PICK s : s = Greeted([d EXCEPT !.wire[Client] = Tail(@)], Server)
    OBVIOUS
  <2>2. d.end[Server] = "greet" /\ d.wire[Client] # <<>>
    BY <1>1, <1>3, <1>5, Sides
  <2>3. Good(s)
    BY <1>2, <2>1, <2>2, HelloToServerSound DEF Good
  <2>4. Greeted(Taken(k, x), x) = s
    BY <1>1, <1>5, <2>1, Sides DEF Taken
  <2>5. QED
    BY <2>3, <2>4
<1>6. QED
  BY <1>4, <1>5, Sides

(* nbMsgPeerHelloConsumer.                                                 *)
LEMMA HelloToOpenerLinks ==
  ASSUME NEW n, Before(n), NEW x \in Side, NEW k \in 1..n, HelloToOpener(x, k)
  PROVE  LinksOK(n)'
<1>1. PICK r : r = Greeted(Taken(k, x), x)
  OBVIOUS
<1>2. Good(r)
  BY <1>1, GreetedGood DEF HelloToOpener
<1>3. conns' = [conns EXCEPT ![k] = r]
  BY <1>1 DEF HelloToOpener
<1>4. UNCHANGED <<written, got, subs, jumped, skipped, up>>
  BY DEF HelloToOpener, cacheVars, clientVars, history
<1>5. QED
  BY <1>2, <1>3, <1>4, LinksPut

(* Elements of a list at some of its places are elements of it.            *)
LEMMA SelectedIs ==
  ASSUME NEW S, NEW s \in Seq(S), NEW I \in SUBSET (1..Len(s))
  PROVE  /\ Selected(s, I) \in Seq(S) /\ Len(Selected(s, I)) \in Nat
         /\ \A n \in 1..Len(Selected(s, I)) : \E i \in I : Selected(s, I)[n] = s[i]
<1>1. I \in SUBSET Nat /\ IsFiniteSet(I)
  <2>1. IsFiniteSet(1..Len(s)) /\ \A i \in 1..Len(s) : i \in Nat
    BY FS_Interval
  <2>2. QED
    BY <2>1, FS_Subset
<1>2. PICK m \in Nat : m = Cardinality(I)
  BY <1>1, PlacesInOrder
<1>3. PICK f \in [1..m -> I] :
        f = [n \in 1..m |-> CHOOSE i \in I : Cardinality({j \in I : j < i}) = n - 1]
  BY <1>1, <1>2, PlacesInOrder
<1>4. \A n \in 1..m : f[n] \in I /\ f[n] \in 1..Len(s)
  BY <1>3
<1>5. PICK t : t = Selected(s, I)
  OBVIOUS
<1>6. t = [n \in 1..m |-> s[f[n]]]
  BY <1>2, <1>3, <1>5 DEF Selected
<1>7. t \in Seq(S) /\ Len(t) = m /\ \A n \in 1..m : t[n] = s[f[n]]
  BY <1>4, <1>6
<1>8. QED
  BY <1>4, <1>5, <1>7

(* nbMsgCabalAcceptHelloConsumer.                                          *)
LEMMA HelloToAcceptorLinks ==
  ASSUME NEW n, Before(n), NEW x \in Side, NEW k \in 1..n, HelloToAcceptor(x, k)
  PROVE  LinksOK(n)'
<1>1. PICK r : r = Greeted(Taken(k, x), x)
  OBVIOUS
<1>2. Good(r)
  BY <1>1, GreetedGood DEF HelloToAcceptor
<1>3. Shape(r)
  <2>1. PICK e \in {"state", "run"} : Turned(x, e, conns[k], Greeted(Taken(k, x), x))
    BY GreetedTurned DEF Before
  <2>2. QED
    BY <1>1, <2>1 DEF Turned
<1>4. PICK l, q, b : l = LastSent(subs[Len(subs)]) /\ q = Quiet /\ b = (subs # <<>>)
  OBVIOUS
<1>5. PICK c : c = [conns EXCEPT ![k] = r]
  OBVIOUS
<1>6. List(c, n) /\ Flow(c, n, written, got, l, q, up, b)
  <2>1. List(conns, n)
    BY BeforeIs
  <2>2. Flow(conns, n, written, got, l, q, up, b) /\ Sound(r, written, got, l, q, up, b)
    BY <1>2, <1>4 DEF Before, LinksOK, Good
  <2>3. Flow(c, n, written, got, l, q, up, b)
    BY <1>5, <2>1, <2>2, FlowPutSame
  <2>4. QED
    BY <1>3, <1>5, <2>1, <2>3, ListPut
<1>7. Flow(conns', n, written, got, l, q, up, b)
  <2>1. CASE node[x].state # "disconnected" /\ node[x].peer # k /\ node[x].peer \in 1..n
    <3>1. PICK old \in 1..n : old = node[x].peer
      BY <2>1
    <3>2. PICK z : z = Closed(c[old], x)
      OBVIOUS
    <3>3. PICK d : d = c[old]
      OBVIOUS
    <3>4. Sound(d, written, got, l, q, up, b) /\ written \in Nat
      BY <1>6, <3>3, BeforeIs DEF Flow
    <3>5. (\A y \in Side : y # x /\ up[y] => up[y]) /\ (x # Server /\ b => b)
      OBVIOUS
    <3>6. Sound(Closed(d, x), written, got, l, q, up, b)
      BY <3>4, <3>5, ClosedSound
    <3>7. conns' = [c EXCEPT ![old] = z]
      BY <1>1, <1>5, <2>1, <3>1, <3>2 DEF HelloToAcceptor, Replaced
    <3>8. Flow([c EXCEPT ![old] = z], n, written, got, l, q, up, b)
      BY <1>6, <3>2, <3>3, <3>6, FlowPutSame
    <3>9. QED
      BY <3>7, <3>8
  <2>2. CASE ~(node[x].state # "disconnected" /\ node[x].peer # k /\ node[x].peer \in 1..n)
    <3>1. PICK old : old = node[x].peer
      OBVIOUS
    <3>2. conns' = c \/ (conns' = [c EXCEPT ![old] = Closed(@, x)] /\ old \notin 1..n)
      BY <1>1, <1>5, <2>2, <3>1 DEF HelloToAcceptor, Replaced
    <3>3. c = [j \in 1..n |-> c[j]]
      BY <1>6 DEF List
    <3>4. conns' = c
      BY <3>2, <3>3
    <3>5. QED
      BY <1>6, <3>4
  <2>3. QED
    BY <2>1, <2>2
<1>8. UNCHANGED <<written, got, subs, jumped, skipped, up>>
  BY DEF HelloToAcceptor, cacheVars, clientVars, history
<1>9. QED
  BY <1>4, <1>7, <1>8 DEF LinksOK, Quiet

(* nbMsgCabalRetry.                                                        *)
LEMMA EnableLinks ==
  ASSUME NEW n, Before(n), NEW x \in Side, Enable(x)
  PROVE  \A m : List(conns', m) => LinksOK(m)'
<1>1. PICK l, q, b : l = LastSent(subs[Len(subs)]) /\ q = Quiet /\ b = (subs # <<>>)
  OBVIOUS
<1>2. List(conns, n) /\ Flow(conns, n, written, got, l, q, up, b) /\ written \in Nat
  BY <1>1, BeforeIs DEF Before, LinksOK
<1>3. UNCHANGED <<written, got, subs, jumped, skipped, up>>
  BY DEF Enable, cacheVars, clientVars, history
<1>4. SUFFICES ASSUME NEW m, List(conns', m)
               PROVE  Flow(conns', m, written, got, l, q, up, b)
  BY <1>1, <1>3 DEF LinksOK, Quiet
<1>5. PICK d : d = conns'
  OBVIOUS
<1>6. Len(d) = m /\ Len(conns) = n
  BY <1>2, <1>4, <1>5, ListLength
<1>7. CASE d = conns
  BY <1>2, <1>5, <1>6, <1>7
<1>8. CASE d # conns
  <2>1. d = Append(conns, Conn(x)) /\ up[x] /\ up[Other(x)]
    BY <1>5, <1>8 DEF Enable, Connect, ConnectRefused, ConnectNowhere
  <2>2. \A y \in Side : up[y]
    BY <2>1, Sides
  <2>3. Flow(d, n + 1, written, got, l, q, up, b)
    BY <1>2, <2>1, <2>2, FlowConnects
  <2>4. m = n + 1
    <3>1. PICK r : r = Conn(x) /\ Shape(r)
      BY ConnShape
    <3>2. Grown(conns, r, d)
      BY <2>1, <3>1 DEF Grown
    <3>3. List(d, n + 1)
      BY <1>2, <3>1, <3>2, ListAppend
    <3>4. QED
      BY <1>6, <3>3, ListLength
  <2>5. QED
    BY <1>5, <2>3, <2>4
<1>9. QED
  BY <1>7, <1>8

(* A program ends.                                                         *)
LEMMA EndedLinks ==
  ASSUME NEW n, Before(n), NEW x \in Side, Ended(x), UNCHANGED <<written, got>>,
         ~jumped' /\ ~skipped' => Quiet
  PROVE  LinksOK(n)' /\ up' \in [Side -> BOOLEAN] /\ timer' \in [Side -> BOOLEAN]
         /\ (~up'[Server] => subs' = <<>>)
<1>1. PICK l, q, b : l = LastSent(subs[Len(subs)]) /\ q = Quiet /\ b = (subs # <<>>)
  OBVIOUS
<1>2. Flow(conns, n, written, got, l, q, up, b) /\ written \in Nat
  BY <1>1, BeforeIs DEF Before, LinksOK
<1>3. PICK d : d = conns'
  OBVIOUS
<1>4. d = [k \in 1..n |-> IF conns[k].end[x] # "closed" THEN Closed(conns[k], x) ELSE conns[k]]
  BY <1>3, BeforeIs DEF Ended, Live
<1>5. PICK u : u = up' /\ u = [up EXCEPT ![x] = FALSE]
  BY DEF Ended
<1>6. up \in [Side -> BOOLEAN] /\ timer \in [Side -> BOOLEAN]
  BY DEF Before, FlagsOK
<1>7. u \in [Side -> BOOLEAN] /\ \A y \in Side : y # x => u[y] = up[y]
  BY <1>5, <1>6
<1>8. PICK l2, q2, b2 : /\ l2 = LastSent(subs'[Len(subs')]) /\ b2 = (subs' # <<>>)
                        /\ q2 = (~jumped' /\ ~skipped')
  OBVIOUS
<1>9. (x = Server => ~b2) /\ (x # Server => b2 = b /\ l2 = l)
  BY <1>1, <1>8 DEF Ended
<1>10. Flow(d, n, written, got, l, q, u, b2)
  <2>1. x # Server /\ b => b2
    BY <1>9
  <2>2. \A y \in Side : y # x /\ up[y] => u[y]
    BY <1>7
  <2>3. QED
    BY SMTT(60), <1>2, <1>4, <2>1, <2>2, FlowEnds
<1>11. \A k \in 1..n : q2 /\ d[k].end[Server] = "run" => l2 = l
  <2> TAKE k \in 1..n
  <2>1. d[k].end[Server] = "run" => b2
    BY <1>10 DEF Flow, Sound, Manned
  <2>2. QED
    BY <1>9, <2>1
<1>12. Flow(d, n, written, got, l2, q2, u, b2)
  <2>1. written <= written /\ (\A y \in Side : u[y] => u[y]) /\ (b2 => b2)
    BY <1>2
  <2>2. q2 => q
    BY <1>1, <1>8
  <2>3. QED
    BY <1>2, <1>10, <1>11, <2>1, <2>2, FlowAround
<1>13. LinksOK(n)'
  BY <1>3, <1>5, <1>8, <1>12 DEF LinksOK, Quiet
<1>14. timer' \in [Side -> BOOLEAN]
  BY <1>6 DEF Ended
<1>15. ~up'[Server] => subs' = <<>>
  <2>1. CASE x = Server
    BY <2>1 DEF Ended
  <2>2. CASE x # Server
    <3>1. subs' = subs /\ up'[Server] = up[Server]
      BY <1>5, <1>7, <2>2, Sides DEF Ended
    <3>2. QED
      BY <3>1 DEF Before, LogOK
  <2>3. QED
    BY <2>1, <2>2
<1>16. QED
  BY <1>5, <1>7, <1>13, <1>14, <1>15

-----------------------------------------------------------------------------
(* The handlers.                                                           *)

(* nbMsgPeerStateConsumer: the connections,                                *)
LEMMA SubscribeKeeps ==
  ASSUME NEW n, Before(n), NEW k \in 1..n, Subscribe(k)
  PROVE  LinksOK(n)' /\ LogOK' /\ ClientOK'
<1>1. PICK l, q, b : l = LastSent(subs[Len(subs)]) /\ q = Quiet /\ b = (subs # <<>>)
  OBVIOUS
<1>2. List(conns, n) /\ Flow(conns, n, written, got, l, q, up, b) /\ written \in Nat /\ got \in Nat
  BY <1>1, BeforeIs DEF Before, LinksOK
<1>3. PICK d : d = conns[k]
  OBVIOUS
<1>4. PICK t : t = [d EXCEPT !.wire[Client] = Tail(@)]
  OBVIOUS
<1>5. PICK r : r = Subscribed(d)
  OBVIOUS
<1>6. conns' = [conns EXCEPT ![k] = r]
  <2>1. Taken(k, Server) = t
    BY <1>3, <1>4, Sides DEF Taken
  <2>2. r = [t EXCEPT !.end[Server] = "run", !.fresh = TRUE]
    BY <1>4, <1>5 DEF Subscribed
  <2>3. QED
    BY <2>1, <2>2 DEF Subscribe
<1>7. /\ d.end[Server] = "state" /\ d.wire[Client] # <<>> /\ Head(d.wire[Client]).type = "state"
      /\ d.end[Server] \in {"state", "run"}
  BY <1>3, Sides DEF Subscribe, Arrived
<1>8. PICK state : state = Head(d.wire[Client]).n
  OBVIOUS
<1>9. state \in 0..written /\ Sound(r, written, got, state, q, up, TRUE)
  <2>1. Sound(d, written, got, l, q, up, b)
    BY <1>2, <1>3 DEF Flow
  <2>2. PICK w \in Nat, g \in Nat : w = written /\ g = got
    BY <1>2
  <2>3. PICK u : u = up
    OBVIOUS
  <2>4. Sound(d, w, g, l, q, u, b)
    BY <2>1, <2>2, <2>3
  <2>5. d.end[Server] = "state" /\ d.wire[Client] # <<>> /\ Head(d.wire[Client]).type = "state"
    BY <1>7
  <2>6. /\ Head(d.wire[Client]).n \in 0..w
        /\ Sound(r, w, g, Head(d.wire[Client]).n, q, u, TRUE)
    BY <1>5, <2>4, <2>5, SubscribeSound
  <2>7. QED
    BY <1>8, <2>2, <2>3, <2>6
<1>10. Flow(conns', n, written, got, state, q, up, TRUE)
  <2>1. \A j \in 1..n : j # k => conns[j].end[Server] # "run"
    BY <1>3, <1>7, Sides, OneRuns DEF Before
  <2>2. \A j \in 1..n : q /\ j # k => /\ conns[j].end[Client] = "run" => got = got
                                      /\ conns[j].end[Server] = "run" => state = l
    BY <2>1
  <2>3. (q => q) /\ (b => TRUE)
    OBVIOUS
  <2>4. PICK b2 : b2 = TRUE /\ (b => b2)
    OBVIOUS
  <2>5. PICK c, w, g, u : c = conns /\ w = written /\ g = got /\ u = up /\ w \in Nat
    BY Zenon, <1>2
  <2>6. PICK g2, q2 : g2 = g /\ q2 = q /\ (q2 => q)
    OBVIOUS
  <2>7. List(c, n) /\ Flow(c, n, w, g, l, q, u, b)
    BY <1>2, <2>5
  <2>8. \A j \in 1..n : q2 /\ j # k => /\ c[j].end[Client] = "run" => g2 = g
                                       /\ c[j].end[Server] = "run" => state = l
    BY <2>1, <2>5, <2>6
  <2>9. Sound(r, w, g2, state, q2, u, b2)
    BY <1>9, <2>4, <2>5, <2>6
  <2>10. Flow([c EXCEPT ![k] = r], n, w, g2, state, q2, u, b2)
    BY <2>4, <2>5, <2>6, <2>7, <2>8, <2>9, FlowPut
  <2>11. QED
    BY <1>6, <2>4, <2>5, <2>6, <2>10
<1>11. PICK s : s = Subscriber(state)
  OBVIOUS
<1>12. PICK old : old = Selected(subs, {i \in DOMAIN subs : CanPublish(subs[i])})
  OBVIOUS
<1>13. subs' = Append(old, s) /\ subs \in Seq(Sub)
  BY <1>3, <1>8, <1>11, <1>12 DEF Subscribe, Before, LogOK
<1>14. /\ old \in Seq(Sub) /\ Len(old) \in Nat
       /\ \A i \in 1..Len(old) : \E j \in 1..Len(subs) : old[i] = subs[j]
  <2>1. PICK I : I = {i \in DOMAIN subs : CanPublish(subs[i])}
    OBVIOUS
  <2>2. I \in SUBSET (1..Len(subs)) /\ old = Selected(subs, I)
    BY <1>12, <1>13, <2>1
  <2>3. QED
    BY SMTT(60), <1>13, <2>2, SelectedIs
<1>15. /\ Fit(s, cache, written, loaded) /\ Steady(s) /\ LastSent(s) = state /\ s \in Sub
  <2>1. Ring(cache, written, loaded)
    BY DEF Before, LogOK
  <2>2. QED
    BY <1>9, <1>11, <2>1, SubscriberFit DEF Fit
<1>16. PICK new : new = Append(old, s)
  OBVIOUS
<1>17. /\ new \in Seq(Sub) /\ Len(new) = Len(old) + 1 /\ new[Len(old) + 1] = s
       /\ \A i \in 1..Len(old) : new[i] = old[i]
  BY <1>14, <1>15, <1>16, AppendProperties
<1>18. \A i \in 1..Len(new) : Fit(new[i], cache, written, loaded)
  <2> TAKE i \in 1..Len(new)
  <2>1. CASE i \in 1..Len(old)
    <3>1. PICK j \in 1..Len(subs) : new[i] = subs[j]
      BY <1>14, <1>17, <2>1
    <3>2. QED
      BY <3>1 DEF Before, LogOK
  <2>2. CASE i = Len(old) + 1
    BY <1>15, <1>17, <2>2
  <2>3. QED
    BY <1>14, <1>17, <2>1, <2>2
<1>19. subs' = new /\ new # <<>> /\ new[Len(new)] = s
  <2>1. Len(new) # 0 /\ new[Len(new)] = s
    BY <1>14, <1>17
  <2>2. new # <<>>
    <3>1. Len(<<>>) = 0
      OBVIOUS
    <3>2. QED
      BY <2>1, <3>1
  <2>3. QED
    BY <1>13, <1>16, <2>1, <2>2
<1>20. UNCHANGED <<written, cache, loaded, openers, up, timer, got, lost, jumped, skipped, fatal, unbuffered>>
  BY DEF Subscribe, clientVars, history
<1>21. LinksOK(n)'
  BY <1>1, <1>10, <1>15, <1>19, <1>20 DEF LinksOK, Quiet
<1>22. up[Server]
  <2>1. Manned(d, up, b)
    BY <1>2, <1>3 DEF Flow, Sound
  <2>2. QED
    BY <1>7, <2>1, Sides DEF Manned
<1>23. LogOK'
  BY <1>17, <1>18, <1>19, <1>20, <1>22 DEF Before, LogOK
<1>24. ClientOK'
  BY <1>15, <1>19, <1>20 DEF Before, ClientOK, Quiet
<1>25. QED
  BY <1>21, <1>23, <1>24

(* nbMsgPeerConsumer.                                                      *)
LEMMA TakeKeeps ==
  ASSUME NEW n, Before(n), NEW k \in 1..n, Take(k)
  PROVE  LinksOK(n)' /\ ClientOK'
<1>1. PICK l, q, b : l = LastSent(subs[Len(subs)]) /\ q = Quiet /\ b = (subs # <<>>)
  OBVIOUS
<1>2. /\ List(conns, n) /\ Flow(conns, n, written, got, l, q, up, b)
      /\ written \in Nat /\ got \in 0..written /\ q \in BOOLEAN
  BY <1>1, BeforeIs DEF Before, LinksOK, Quiet
<1>3. PICK d : d = conns[k]
  OBVIOUS
<1>4. PICK r : r = [d EXCEPT !.wire[Server] = Tail(@)]
  OBVIOUS
<1>5. conns' = [conns EXCEPT ![k] = r]
  <2>1. Taken(k, Client) = r
    BY <1>3, <1>4, Sides DEF Taken
  <2>2. QED
    BY <2>1 DEF Take
<1>6. d.end[Client] = "run" /\ d.wire[Server] # <<>> /\ d.end[Client] \in {"state", "run"}
  BY <1>3, Sides DEF Take, Arrived
<1>7. PICK m : m = Head(d.wire[Server]).n
  OBVIOUS
<1>8. PICK g : g = IF m > got THEN m ELSE got
  OBVIOUS
<1>9. /\ m \in 0..written /\ (q => m = got + 1)
      /\ Sound(r, written, g, l, q, up, b)
  <2>1. Sound(d, written, got, l, q, up, b)
    BY <1>2, <1>3 DEF Flow
  <2>2. PICK w, h, u : w = written /\ h = got /\ u = up /\ w \in Nat /\ h \in 0..w
    BY <1>2
  <2>3. Sound(d, w, h, l, q, u, b) /\ d.end[Client] = "run" /\ d.wire[Server] # <<>>
    BY <1>6, <2>1, <2>2
  <2>4. g = IF m > h THEN m ELSE h
    BY <1>8, <2>2
  <2>5. PICK q2 \in BOOLEAN : q2 = q
    BY <1>2
  <2>6. Sound(d, w, h, l, q2, u, b)
    BY <2>3, <2>5
  <2>7. r = [d EXCEPT !.wire[Server] = Tail(@)]
    BY <1>4
  <2>8. m = Head(d.wire[Server]).n
    BY <1>7
  <2>9. m \in 0..w /\ (q2 => m = h + 1) /\ Sound(r, w, g, l, q2, u, b)
    <3>1. w \in Nat
      BY <2>2
    <3>2. h \in 0..w
      BY <2>2
    <3>3. d.end[Client] = "run"
      BY <2>3
    <3>4. d.wire[Server] # <<>>
      BY <2>3
    <3>5. Sound(r, w, g, l, q2, u, b)
      BY Zenon, <3>1, <3>2, <3>3, <3>4, <2>4, <2>6, <2>7, <2>8, TakeSound
    <3>6. Head(d.wire[Server]).n \in 0..w /\ (q2 => Head(d.wire[Server]).n = h + 1)
      BY <3>1, <3>3, <3>4, <2>6, TakeCounts
    <3>7. QED
      BY <2>8, <3>5, <3>6
  <2>10. QED
    BY <2>2, <2>5, <2>9
<1>10. Flow(conns', n, written, g, l, q, up, b)
  <2>1. \A j \in 1..n : j # k => conns[j].end[Client] # "run"
    BY <1>3, <1>6, Sides, OneRuns DEF Before
  <2>2. \A j \in 1..n : q /\ j # k => /\ conns[j].end[Client] = "run" => g = got
                                      /\ conns[j].end[Server] = "run" => l = l
    BY <2>1
  <2>3. (q => q) /\ (b => b)
    OBVIOUS
  <2>4. Flow([conns EXCEPT ![k] = r], n, written, g, l, q, up, b)
    BY <1>2, <1>9, <2>2, <2>3, FlowPut
  <2>5. QED
    BY <1>5, <2>4
<1>11. UNCHANGED <<written, cache, subs, loaded, up, jumped, skipped>>
  BY DEF Take, cacheVars, nodes, history
<1>12. got' = g /\ (m > got => lost' = lost \cup (got + 1)..(m - 1)) /\ (~(m > got) => lost' = lost)
  BY <1>3, <1>7, <1>8 DEF Take, clientVars
<1>13. LinksOK(n)'
  BY <1>1, <1>10, <1>11, <1>12 DEF LinksOK, Quiet
<1>14. g \in 0..written
  BY <1>2, <1>8, <1>9
<1>15. lost' \subseteq 1..written /\ (q => lost' = lost)
  <2>1. lost \subseteq 1..written
    BY DEF Before, ClientOK
  <2>2. CASE m > got
    <3>1. (got + 1)..(m - 1) \subseteq 1..written
      BY <1>2, <1>9
    <3>2. q => (got + 1)..(m - 1) = {}
      BY <1>2, <1>9
    <3>3. QED
      BY <1>12, <2>1, <2>2, <3>1, <3>2
  <2>3. CASE ~(m > got)
    BY <1>12, <2>1, <2>3
  <2>4. QED
    BY <2>2, <2>3
<1>16. ClientOK'
  BY <1>1, <1>11, <1>12, <1>14, <1>15 DEF Before, ClientOK, Quiet
<1>17. QED
  BY <1>13, <1>16

(* A record is written.                                                    *)
LEMMA ProduceKeeps ==
  ASSUME NEW n, Before(n), Produce
  PROVE  LinksOK(n)' /\ LogOK' /\ ClientOK'
<1>1. PICK l, q, b : l = LastSent(subs[Len(subs)]) /\ q = Quiet /\ b = (subs # <<>>)
  OBVIOUS
<1>2. /\ Flow(conns, n, written, got, l, q, up, b)
      /\ written \in Nat /\ got \in 0..written
  BY <1>1, BeforeIs DEF Before, LinksOK
<1>3. PICK w \in Nat : w = written + 1 /\ written <= w
  BY <1>2
<1>4. /\ written' = w
      /\ UNCHANGED <<cache, subs, loaded, conns, got, lost, up, openers, jumped, skipped, fatal, unbuffered>>
  BY <1>3 DEF Produce, nodes, clientVars, history
<1>5. w <= MaxRecords
  <2>1. Limits[openers].records \in 0..MaxRecords /\ written < Limits[openers].records
    BY CabalAssumption DEF Produce, Before, LogOK
  <2>2. QED
    BY <1>2, <1>3, <2>1, CacheAssumption
<1>6. Flow(conns, n, w, got, l, q, up, b)
  <2>1. (q => q) /\ (\A x \in Side : up[x] => up[x]) /\ (b => b)
    OBVIOUS
  <2>2. \A k \in 1..n : q /\ conns[k].end[Server] = "run" => l = l
    OBVIOUS
  <2>3. QED
    BY <1>2, <1>3, <2>1, <2>2, FlowAround
<1>7. LinksOK(n)'
  BY <1>1, <1>4, <1>6 DEF LinksOK, Quiet
<1>8. Ring(cache, w, loaded) /\ \A i \in 1..Len(subs) : Fit(subs[i], cache, w, loaded)
  <2>1. Ring(cache, written, loaded) /\ written + 1 <= MaxRecords
    BY <1>3, <1>5 DEF Before, LogOK
  <2>2. Ring(cache, w, loaded) /\ \A s : Fit(s, cache, written, loaded) => Fit(s, cache, w, loaded)
    BY <1>3, <2>1, WrittenMore
  <2>3. QED
    BY <2>2 DEF Before, LogOK
<1>9. LogOK'
  BY <1>4, <1>8 DEF Before, LogOK
<1>10. got \in 0..w /\ 1..written \subseteq 1..w
  BY <1>2, <1>3
<1>11. ClientOK'
  BY <1>4, <1>10 DEF Before, ClientOK, Quiet
<1>12. QED
  BY <1>7, <1>9, <1>11

(* A program stops.                                                        *)
LEMMA StopKeeps ==
  ASSUME NEW n, Before(n), NEW x \in Side, Stop(x)
  PROVE  LinksOK(n)' /\ LogOK' /\ ClientOK' /\ FlagsOK'
<1>1. /\ Ended(x) /\ UNCHANGED <<written, got>>
      /\ UNCHANGED <<cache, loaded, openers, lost, jumped, skipped, fatal, unbuffered>>
  BY DEF Stop, clientVars
<1>2. ~jumped' /\ ~skipped' => Quiet
  BY <1>1 DEF Quiet
<1>3. LinksOK(n)' /\ up' \in [Side -> BOOLEAN] /\ timer' \in [Side -> BOOLEAN]
      /\ (~up'[Server] => subs' = <<>>)
  BY <1>1, <1>2, EndedLinks
<1>4. subs' = <<>> \/ subs' = subs
  BY <1>1 DEF Ended
<1>5. LogOK'
  <2>1. subs' \in Seq(Sub) /\ \A i \in 1..Len(subs') : Fit(subs'[i], cache, written, loaded)
    <3>1. CASE subs' = <<>>
      <4>1. <<>> \in Seq(Sub) /\ Len(<<>>) = 0
        OBVIOUS
      <4>2. QED
        BY <3>1, <4>1
    <3>2. CASE subs' = subs
      BY <3>2 DEF Before, LogOK
    <3>3. QED
      BY <1>4, <3>1, <3>2
  <2>2. QED
    BY <1>1, <1>3, <2>1 DEF Before, LogOK
<1>6. ClientOK'
  BY <1>1, <1>4 DEF Before, ClientOK, Quiet
<1>7. FlagsOK'
  BY <1>1, <1>3 DEF Before, FlagsOK
<1>8. QED
  BY <1>3, <1>5, <1>6, <1>7

(* It is started again.                                                    *)
LEMMA StartKeeps ==
  ASSUME NEW n, Before(n), NEW x \in Side, Start(x)
  PROVE  LinksOK(n)' /\ LogOK' /\ ClientOK' /\ FlagsOK'
<1>1. PICK l, q, b : l = LastSent(subs[Len(subs)]) /\ q = Quiet /\ b = (subs # <<>>)
  OBVIOUS
<1>2. Flow(conns, n, written, got, l, q, up, b) /\ written \in Nat /\ written \in 0..MaxRecords
  BY <1>1, BeforeIs DEF Before, LinksOK
<1>3. /\ ~up[x] /\ ~fatal
      /\ UNCHANGED <<written, subs, openers, conns, got, lost, jumped, skipped, fatal, unbuffered>>
  BY DEF Start, clientVars, history
<1>4. PICK u : u = up' /\ u = [up EXCEPT ![x] = TRUE]
  BY DEF Start
<1>5. up \in [Side -> BOOLEAN] /\ timer \in [Side -> BOOLEAN]
  BY DEF Before, FlagsOK
<1>6. u \in [Side -> BOOLEAN] /\ u[x] /\ \A y \in Side : y # x => u[y] = up[y]
  BY <1>4, <1>5
<1>7. Flow(conns, n, written, got, l, q, u, b)
  <2>1. (q => q) /\ (b => b) /\ written <= written
    BY <1>2
  <2>2. \A y \in Side : up[y] => u[y]
    BY <1>6
  <2>3. \A k \in 1..n : q /\ conns[k].end[Server] = "run" => l = l
    OBVIOUS
  <2>4. QED
    BY <1>2, <2>1, <2>2, <2>3, FlowAround
<1>8. LinksOK(n)'
  BY <1>1, <1>3, <1>4, <1>7 DEF LinksOK, Quiet
<1>9. ClientOK'
  BY <1>3 DEF Before, ClientOK, Quiet
<1>10. FlagsOK'
  <2>1. timer' \in [Side -> BOOLEAN]
    BY <1>5 DEF Start
  <2>2. QED
    BY <1>3, <1>4, <1>6, <2>1 DEF Before, FlagsOK
<1>11. LogOK'
  <2>1. CASE x = Server
    <3>1. subs = <<>> /\ cache' = Opened(written) /\ loaded' = written
      BY <1>3, <2>1 DEF Start, Before, LogOK
    <3>2. Ring(cache', written', loaded')
      BY <1>2, <1>3, <3>1, OpenedRing
    <3>3. \A i \in 1..Len(subs') : Fit(subs'[i], cache', written', loaded')
      <4>1. Len(<<>>) = 0
        OBVIOUS
      <4>2. QED
        BY <1>3, <3>1, <4>1
    <3>4. QED
      BY <1>3, <3>1, <3>2, <3>3 DEF Before, LogOK
  <2>2. CASE x # Server
    <3>1. UNCHANGED <<cache, loaded>> /\ up'[Server] = up[Server]
      BY <1>4, <1>6, <2>2, Sides DEF Start
    <3>2. QED
      BY <1>3, <3>1 DEF Before, LogOK
  <2>3. QED
    BY <2>1, <2>2
<1>12. QED
  BY <1>8, <1>9, <1>10, <1>11

(* The room of nbPeerSend, for a node that has, or had, a connection.      *)
LEMMA RoomIs ==
  ASSUME NEW n, Before(n)
  PROVE  /\ Room \in Nat
         /\ Peer # 0 /\ Room # 0 => /\ Peer \in 1..n /\ Room = BufMax - Len(conns[Peer].out)
                                    /\ Len(conns[Peer].out) \in Nat
<1>1. PICK p \in 0..n : p = Peer
  BY DEF Before, Matched, NodeIn, Peer, Side
<1>2. BufMax \in Nat /\ n \in Nat
  BY CabalAssumption DEF Before, Matched, List
<1>3. CASE p = 0
  BY <1>1, <1>2, <1>3 DEF Room
<1>4. CASE p # 0
  <2>1. p \in 1..n
    BY <1>2, <1>4
  <2>2. PICK m : m = Len(conns[p].out)
    OBVIOUS
  <2>3. m \in Nat
    <3>1. PICK r : r = conns[p]
      OBVIOUS
    <3>2. Good(r) /\ written \in Nat
      BY <2>1, <3>1, BeforeIs
    <3>3. Typed(r, written)
      BY <3>2 DEF Good, Sound
    <3>4. Len(r.out) \in Nat
      BY <3>2, <3>3, WiredIs
    <3>5. QED
      BY <2>2, <3>1, <3>4
  <2>4. Room = IF ~Live(Server, p) \/ m > BufMax THEN 0 ELSE BufMax - m
    BY <1>1, <1>4, <2>2 DEF Room
  <2>5. PICK x : x = Room
    OBVIOUS
  <2>6. x \in Nat /\ (x # 0 => x = BufMax - m)
    BY <1>2, <2>3, <2>4, <2>5
  <2>7. QED
    BY <1>1, <2>1, <2>2, <2>3, <2>5, <2>6
<1>5. QED
  BY <1>3, <1>4

(* The server ends: the log stays, the subscribers are gone.               *)
LEMMA EndKeeps ==
  ASSUME NEW n, Before(n), Ended(Server), UNCHANGED <<written, got, lost, loaded, openers>>,
         ~jumped' /\ ~skipped' => Quiet, jumped' \in BOOLEAN, skipped' \in BOOLEAN,
         Ring(cache', written, loaded),
         fatal' => loaded > 0 \/ (unbuffered' /\ Server \notin openers)
  PROVE  LinksOK(n)' /\ LogOK' /\ ClientOK' /\ FlagsOK'
<1>1. Server \in Side
  BY Sides
<1>2. LinksOK(n)' /\ up' \in [Side -> BOOLEAN] /\ timer' \in [Side -> BOOLEAN]
  BY <1>1, EndedLinks
<1>3. subs' = <<>>
  BY DEF Ended
<1>4. <<>> \in Seq(Sub) /\ Len(<<>>) = 0
  OBVIOUS
<1>5. LogOK'
  BY <1>3, <1>4 DEF Before, LogOK
<1>6. ClientOK'
  BY <1>3 DEF Before, ClientOK, Quiet
<1>7. FlagsOK'
  BY <1>2 DEF FlagsOK
<1>8. QED
  BY <1>2, <1>5, <1>6, <1>7

(* The newest subscriber of the client is served: what it sends goes into  *)
(* the buffer of the connection p.                                         *)
LEMMA FlowServed ==
  ASSUME NEW c, NEW n, NEW v, Matched(c, n, v), NEW w \in Nat, NEW g \in Nat, NEW l, NEW q,
         NEW u, NEW b, Flow(c, n, w, g, l, q, u, b), NEW p \in 1..n,
         NEW r, Sound(r, w, g, l, q, u, b), r.end[Server] = c[p].end[Server],
         NEW ns \in Seq(1..w), Len(r.out) + Len(ns) <= BufMax,
         NEW l2, NEW q2,
         q2 => /\ q /\ r.end[Server] = "run" /\ l2 = l + Len(ns)
               /\ \A i \in 1..Len(ns) : ns[i] = l + i
  PROVE  Flow([c EXCEPT ![p] = WithRecords(r, ns)], n, w, g, l2, q2, u, b)
<1>1. PICK s : s = WithRecords(r, ns)
  OBVIOUS
<1>2. Sound(s, w, g, l2, q2, u, b)
  BY <1>1, SentSound
<1>3. PICK b2, g2 : b2 = b /\ g2 = g /\ (b => b2)
  OBVIOUS
<1>4. q2 => \A j \in 1..n : j # p => c[j].end[Server] # "run"
  BY OneRuns, Sides
<1>5. \A j \in 1..n : q2 /\ j # p => /\ c[j].end[Client] = "run" => g2 = g
                                     /\ c[j].end[Server] = "run" => l2 = l
  BY <1>3, <1>4
<1>6. List(c, n) /\ (q2 => q)
  BY DEF Matched
<1>7. Sound(s, w, g2, l2, q2, u, b2)
  BY <1>2, <1>3
<1>8. Flow([c EXCEPT ![p] = s], n, w, g2, l2, q2, u, b2)
  BY <1>3, <1>5, <1>6, <1>7, FlowPut
<1>9. QED
  BY <1>1, <1>3, <1>8

(* The server writes into a peer without a buffer.                         *)
LEMMA CrashKeeps ==
  ASSUME NEW n, Before(n), Crash, Server \notin openers,
         UNCHANGED <<written, got, lost, loaded, openers>>,
         skipped' \in BOOLEAN, skipped => skipped', Ring(cache', written, loaded)
  PROVE  LinksOK(n)' /\ LogOK' /\ ClientOK' /\ FlagsOK' /\ PeerOK'
<1>1. Ended(Server) /\ unbuffered' /\ jumped' = jumped
  BY DEF Crash
<1>2. ~jumped' /\ ~skipped' => Quiet
  BY <1>1 DEF Quiet
<1>3. jumped' \in BOOLEAN
  BY <1>1 DEF Before, FlagsOK
<1>4. LinksOK(n)' /\ LogOK' /\ ClientOK' /\ FlagsOK'
  BY <1>1, <1>2, <1>3, EndKeeps
<1>5. PeerOK'
  BY DEF PeerOK
<1>6. QED
  BY <1>4, <1>5

(* nbMsgCacheInsert.                                                       *)
LEMMA InsertKeeps ==
  ASSUME NEW n, Before(n), PeerOK, Insert
  PROVE  LinksOK(n)' /\ LogOK' /\ ClientOK' /\ FlagsOK' /\ PeerOK'
<1>1. PICK l, q, b : l = LastSent(subs[Len(subs)]) /\ q = Quiet /\ b = (subs # <<>>)
  OBVIOUS
<1>2. /\ List(conns, n) /\ Flow(conns, n, written, got, l, q, up, b)
      /\ written \in Nat /\ got \in Nat /\ MaxRecords \in Nat
  BY <1>1, BeforeIs DEF Before, LinksOK
<1>3. PICK m \in Nat : m = Len(subs) /\ (b <=> m > 0)
  <2>1. subs \in Seq(Sub)
    BY DEF Before, LogOK
  <2>2. PICK k \in Nat : k = Len(subs) /\ (k = 0 <=> subs = <<>>)
    BY <2>1
  <2>3. k > 0 <=> ~(k = 0)
    OBVIOUS
  <2>4. b <=> ~(k = 0)
    BY Zenon, <1>1, <2>2
  <2>5. QED
    BY <2>2, <2>3, <2>4
<1>4. PICK room \in Nat : room = Room
  BY RoomIs
<1>5. PICK v : v = Served(room)
  OBVIOUS
<1>6. PICK s : s = AfterStomp(subs[m], cache)
  OBVIOUS
<1>7. PICK c : c = Inserted(cache)
  OBVIOUS
<1>8. Ring(cache, written, loaded) /\ cache.end < written
  BY DEF Insert, Before, LogOK
<1>9. Ring(c, written, loaded)
  BY <1>7, <1>8, InsertedRing
<1>10. Serving(v, m, s, c, room)
  <2>1. subs \in Seq(Sub) /\ \A i \in 1..m : Fit(subs[i], cache, written, loaded)
    BY <1>3 DEF Before, LogOK
  <2>2. Serving(Served(room), m, AfterStomp(subs[m], cache), Inserted(cache), room)
    BY <1>3, <1>8, <2>1, ServedServing
  <2>3. QED
    BY <1>5, <1>6, <1>7, <2>2
<1>11. /\ v.subs \in Seq(Sub) /\ Len(v.subs) = m
       /\ \A i \in 1..m : Fit(v.subs[i], c, written, loaded)
       /\ v.sent \in Seq(1..written) /\ Len(v.sent) <= room
       /\ (v.exit => loaded > 0)
       /\ (m = 0 => v.sent = <<>>)
       /\ (m > 0 /\ ~v.stale => Follows(s, v.subs[m], v.sent))
  BY <1>10 DEF Serving, Sends
<1>12. /\ IF Peer = 0 /\ v.sent # <<>> THEN Crash ELSE Deliver(v)
       /\ cache' = c
       /\ UNCHANGED <<written, loaded, openers, got, lost>>
       /\ skipped' = (skipped \/ (subs # <<>> /\ Stomped(subs[m], cache) /\ subs[m].again))
  BY <1>3, <1>4, <1>5, <1>7 DEF Insert, clientVars
<1>13. SUFFICES ASSUME ~(Peer = 0 /\ v.sent # <<>>)
                PROVE  LinksOK(n)' /\ LogOK' /\ ClientOK' /\ FlagsOK' /\ PeerOK'
  <2> SUFFICES ASSUME Peer = 0, v.sent # <<>>
               PROVE  LinksOK(n)' /\ LogOK' /\ ClientOK' /\ FlagsOK' /\ PeerOK'
    OBVIOUS
  <2>1. subs # <<>>
    BY <1>1, <1>3, <1>11
  <2>2. Server \notin openers /\ Crash
    BY <1>12, <2>1 DEF PeerOK
  <2>3. skipped' \in BOOLEAN /\ (skipped => skipped')
    BY <1>12 DEF Before, FlagsOK
  <2>4. Ring(cache', written, loaded)
    BY <1>9, <1>12
  <2>5. QED
    BY <1>12, <2>2, <2>3, <2>4, CrashKeeps
<1>14. /\ Sent(v, IF v.sent = <<>> THEN conns ELSE [conns EXCEPT ![Peer] = WithRecords(@, v.sent)],
                v.subs)
       /\ cache' = c
       /\ UNCHANGED <<written, loaded, openers, got, lost, unbuffered>>
  BY <1>12, <1>13 DEF Deliver
<1>15. /\ jumped' = (jumped \/ v.stale \/ (v.sent # <<>> /\ conns[Peer].end[Server] # "run"))
       /\ skipped' = (skipped \/ (subs # <<>> /\ Stomped(subs[m], cache) /\ subs[m].again))
  BY <1>12, <1>13 DEF Deliver
<1>16. PICK q2 \in BOOLEAN : q2 = (~jumped' /\ ~skipped')
  OBVIOUS
<1>17. /\ jumped' \in BOOLEAN /\ skipped' \in BOOLEAN
       /\ q2 => /\ q /\ ~v.stale
                /\ v.sent # <<>> => conns[Peer].end[Server] = "run"
                /\ b => ~(Stomped(subs[m], cache) /\ subs[m].again)
  BY <1>1, <1>15, <1>16 DEF Quiet
<1>18. CASE v.exit
  <2>1. Ended(Server)
    BY <1>14, <1>18 DEF Sent
  <2>2. ~jumped' /\ ~skipped' => Quiet
    BY <1>1, <1>16, <1>17
  <2>3. Ring(cache', written, loaded) /\ (fatal' => loaded > 0)
    BY <1>9, <1>11, <1>14, <1>18
  <2>4. UNCHANGED <<written, got, lost, loaded, openers>>
    BY <1>14
  <2>5. PeerOK'
    BY <2>1 DEF Ended, PeerOK
  <2>6. QED
    BY <1>17, <2>1, <2>2, <2>3, <2>4, <2>5, EndKeeps
<1>19. CASE ~v.exit
  <2>1. /\ subs' = v.subs /\ fatal' = v.exit /\ UNCHANGED <<up, timer, node>>
        /\ conns' = IF v.sent = <<>> THEN conns
                    ELSE [conns EXCEPT ![Peer] = WithRecords(@, v.sent)]
    BY <1>14, <1>19 DEF Sent
  <2>2. PICK l2 : l2 = LastSent(v.subs[m])
    OBVIOUS
  <2>3. ASSUME q2, b
        PROVE  /\ Steady(v.subs[m]) /\ l2 = l + Len(v.sent)
               /\ \A i \in 1..Len(v.sent) : v.sent[i] = l + i
    <3>1. Steady(subs[m]) /\ m \in 1..m
      BY <1>1, <1>3, <1>17, <2>3 DEF Before, ClientOK
    <3>2. Fit(subs[m], cache, written, loaded)
      BY <1>3, <3>1 DEF Before, LogOK
    <3>3. ~(Stomped(subs[m], cache) /\ subs[m].again)
      BY <1>17, <2>3
    <3>4. PICK t : t = subs[m]
      OBVIOUS
    <3>5. Steady(AfterStomp(t, cache)) /\ LastSent(AfterStomp(t, cache)) = LastSent(t)
      BY <1>8, <3>1, <3>2, <3>3, <3>4, StompedFit
    <3>6. Steady(s) /\ LastSent(s) = l
      BY <1>1, <1>3, <1>6, <3>4, <3>5
    <3>7. Follows(s, v.subs[m], v.sent)
      BY <1>3, <1>11, <1>17, <2>3
    <3>8. QED
      BY <2>2, <3>6, <3>7 DEF Follows
  <2>4. ~b => v.sent = <<>>
    BY <1>3, <1>11
  <2>5. Flow(conns', n, written, got, l2, q2, up, b)
    <3>1. CASE v.sent = <<>>
      <4>1. \A k \in 1..n : q2 /\ conns[k].end[Server] = "run" => l2 = l
        <5> TAKE k \in 1..n
        <5>1. conns[k].end[Server] = "run" => b
          BY <1>2 DEF Flow, Sound, Manned
        <5>2. b => l \in Int
          <6>1. b => subs[m] \in Sub
            BY <1>3 DEF Before, LogOK, Fit
          <6>2. QED
            BY <1>1, <1>3, <6>1, LastSentIs
        <5>3. Len(<<>>) = 0
          OBVIOUS
        <5>4. q2 /\ b => l2 = l + 0
          BY <2>3, <3>1, <5>3
        <5>5. QED
          BY <5>1, <5>2, <5>4
      <4>2. PICK w2, u2, b2 : w2 \in Nat /\ w2 = written /\ u2 = up /\ b2 = b /\ (b => b2)
        BY <1>2
      <4>3. written <= w2 /\ (\A x \in Side : up[x] => u2[x]) /\ (q2 => q)
        BY <1>2, <1>17, <4>2
      <4>4. Flow(conns, n, w2, got, l2, q2, u2, b2)
        BY <1>2, <4>1, <4>2, <4>3, FlowAround
      <4>5. QED
        BY <2>1, <3>1, <4>2, <4>4
    <3>2. CASE v.sent # <<>>
      <4>1. PICK ns \in Seq(1..written) : ns = v.sent /\ Len(ns) <= room /\ Len(ns) \in Nat \ {0}
        BY <1>11, <3>2
      <4>2. PICK p \in 1..n : /\ p = Peer /\ room = BufMax - Len(conns[p].out)
                              /\ Len(conns[p].out) \in Nat
        <5>1. room # 0 /\ Peer # 0
          BY <1>13, <3>2, <4>1
        <5>2. QED
          BY <1>4, <5>1, RoomIs
      <4>3. PICK r : r = conns[p]
        OBVIOUS
      <4>4. Len(r.out) + Len(ns) <= BufMax
        <5>1. PICK x, y : x = Len(r.out) /\ y = Len(ns) /\ x \in Nat /\ y \in Nat
          BY <4>1, <4>2, <4>3
        <5>2. y <= BufMax - x
          BY <4>1, <4>2, <4>3, <5>1
        <5>3. BufMax \in Nat
          BY CabalAssumption
        <5>4. x + y <= BufMax
          BY <5>1, <5>2, <5>3
        <5>5. QED
          BY <5>1, <5>4
      <4>5. Sound(r, written, got, l, q, up, b)
        BY <1>2, <4>3 DEF Flow
      <4>6. q2 => /\ q /\ r.end[Server] = "run" /\ l2 = l + Len(ns)
                  /\ \A i \in 1..Len(ns) : ns[i] = l + i
        BY <1>17, <2>3, <2>4, <3>2, <4>1, <4>2, <4>3
      <4>7. r.end[Server] = conns[p].end[Server] /\ Matched(conns, n, node)
        BY <4>3 DEF Before
      <4>8. Flow([conns EXCEPT ![p] = WithRecords(r, ns)], n, written, got, l2, q2, up, b)
        BY <1>2, <4>4, <4>5, <4>6, <4>7, FlowServed
      <4>9. conns' = [conns EXCEPT ![p] = WithRecords(r, ns)]
        BY <2>1, <3>2, <4>1, <4>2, <4>3
      <4>10. QED
        BY <4>8, <4>9
    <3>3. QED
      BY <3>1, <3>2
  <2>6. (subs' # <<>>) <=> b
    BY <1>3, <1>11, <2>1
  <2>7. LinksOK(n)'
    <3>1. l2 = LastSent(subs'[Len(subs')]) /\ Len(subs') = m
      BY <1>11, <2>1, <2>2
    <3>2. b = (subs' # <<>>) /\ q2 = (~jumped' /\ ~skipped')
      BY <1>1, <1>16, <2>6
    <3>3. QED
      BY <1>14, <2>1, <2>5, <3>1, <3>2 DEF LinksOK, Quiet
  <2>8. LogOK'
    <3>1. subs' \in Seq(Sub) /\ \A i \in 1..Len(subs') : Fit(subs'[i], c, written, loaded)
      BY <1>11, <2>1
    <3>2. up[Server]
      BY DEF Insert
    <3>3. QED
      BY <1>9, <1>11, <1>14, <2>1, <3>1, <3>2 DEF Before, LogOK
  <2>9. ClientOK'
    <3>1. ~jumped' /\ ~skipped' => lost = {} /\ (subs' # <<>> => Steady(subs'[Len(subs')]))
      BY <1>1, <1>11, <1>16, <1>17, <2>1, <2>3, <2>6 DEF Before, ClientOK
    <3>2. QED
      BY <1>14, <3>1 DEF Before, ClientOK, Quiet
  <2>10. FlagsOK'
    BY <1>17, <2>1 DEF Before, FlagsOK
  <2>11. PeerOK'
    <3>1. Server \in openers' /\ Peer' = 0 => subs = <<>>
      BY <1>14, <2>1 DEF PeerOK, Peer
    <3>2. subs = <<>> => subs' = <<>>
      BY <1>1, <2>6
    <3>3. QED
      BY <3>1, <3>2 DEF PeerOK
  <2>12. QED
    BY <2>7, <2>8, <2>9, <2>10, <2>11
<1>20. QED
  BY <1>18, <1>19

(* nbPeerWriter.                                                           *)
LEMMA WriteKeeps ==
  ASSUME NEW n, Before(n), NEW k \in 1..n, Write(k)
  PROVE  LinksOK(n)' /\ LogOK' /\ ClientOK' /\ FlagsOK'
<1>1. PICK l, q, b : l = LastSent(subs[Len(subs)]) /\ q = Quiet /\ b = (subs # <<>>)
  OBVIOUS
<1>2. /\ List(conns, n) /\ Flow(conns, n, written, got, l, q, up, b)
      /\ written \in Nat /\ got \in Nat
  BY <1>1, BeforeIs DEF Before, LinksOK
<1>3. PICK d : d = conns[k]
  OBVIOUS
<1>4. PICK f : f = Flushed(d)
  OBVIOUS
<1>5. d.end[Server] # "hello" /\ ~d.broken /\ d.wire[Server] = <<>> /\ d.end[Server] # "closed"
  BY <1>3 DEF Write, Live
<1>6. UNCHANGED <<written, cache, loaded, openers, got, lost, jumped, skipped, unbuffered>>
  BY DEF Write, clientVars
<1>7. /\ Sound(d, written, got, l, q, up, b)
      /\ Sound(f, written, got, l, q, up, b) /\ f.out = <<>> /\ f.end = d.end
  <2>1. Sound(d, written, got, l, q, up, b)
    BY <1>2, <1>3 DEF Flow
  <2>2. PICK w, g, u : w = written /\ g = got /\ u = up /\ w \in Nat /\ g \in Nat
    BY <1>2
  <2>3. Sound(d, w, g, l, q, u, b)
    BY <2>1, <2>2
  <2>4. Sound(f, w, g, l, q, u, b) /\ f.out = <<>> /\ f.end = d.end
    BY <1>4, <1>5, <2>2, <2>3, FlushedSound
  <2>5. QED
    BY <2>1, <2>2, <2>4
<1>8. CASE d.end[Server] # "run"
  <2>1. conns' = [conns EXCEPT ![k] = f] /\ UNCHANGED <<subs, fatal, up, node, timer>>
    BY <1>3, <1>4, <1>8 DEF Write, Flushed
  <2>2. Good(f)
    BY <1>1, <1>7 DEF Good
  <2>3. UNCHANGED <<written, got, subs, jumped, skipped, up>>
    BY <1>6, <2>1
  <2>4. LinksOK(n)'
    BY <2>1, <2>2, <2>3, LinksPut
  <2>5. LogOK'
    BY <1>6, <2>1, LogKept DEF Before, cacheVars
  <2>6. ClientOK'
    BY <1>6, <2>1, ClientKept DEF Before
  <2>7. FlagsOK'
    BY <1>6, <2>1, FlagsKept DEF Before
  <2>8. QED
    BY <2>4, <2>5, <2>6, <2>7
<1>9. CASE d.end[Server] = "run"
  <2>1. subs \in Seq(Sub) /\ subs # <<>> /\ up[Server]
    BY <1>1, <1>7, <1>9, Sides DEF Before, LogOK, Sound, Manned
  <2>2. PICK m \in Nat : m = Len(subs) /\ m \in 1..m
    BY <2>1
  <2>3. PICK s : s = subs[m] /\ Fit(s, cache, written, loaded)
    BY <2>2 DEF Before, LogOK
  <2>4. PICK r : r = Publish(s, cache, BufMax)
    OBVIOUS
  <2>5. Ring(cache, written, loaded) /\ BufMax \in Nat
    BY CabalAssumption DEF Before, LogOK
  <2>6. Serves(s, r, cache, BufMax)
    BY <2>3, <2>4, <2>5, PublishServes
  <2>7. /\ (r.exit => loaded > 0) /\ Fit(r.sub, cache, written, loaded) /\ r.sub \in Sub
        /\ r.sent \in Seq(1..written) /\ Len(r.sent) <= BufMax
        /\ Follows(s, r.sub, r.sent)
    BY <2>6 DEF Serves, Sends, Fit
  <2>8. Sent(r, [conns EXCEPT ![k] = WithRecords(f, r.sent)], [subs EXCEPT ![m] = r.sub])
    BY <1>3, <1>4, <1>9, <2>2, <2>3, <2>4 DEF Write, Flushed
  <2>9. jumped \in BOOLEAN /\ skipped \in BOOLEAN
    BY DEF Before, FlagsOK
  <2>10. CASE r.exit
    <3>1. Ended(Server)
      BY <2>8, <2>10 DEF Sent
    <3>2. ~jumped' /\ ~skipped' => Quiet
      BY <1>6 DEF Quiet
    <3>3. Ring(cache', written, loaded) /\ (fatal' => loaded > 0)
      BY <1>6, <2>5, <2>7, <2>10
    <3>4. UNCHANGED <<written, got, lost, loaded, openers>>
      BY <1>6
    <3>5. jumped' \in BOOLEAN /\ skipped' \in BOOLEAN
      BY <1>6, <2>9
    <3>6. QED
      BY <3>1, <3>2, <3>3, <3>4, <3>5, EndKeeps
  <2>11. CASE ~r.exit
    <3>1. /\ conns' = [conns EXCEPT ![k] = WithRecords(f, r.sent)]
          /\ subs' = [subs EXCEPT ![m] = r.sub] /\ fatal' = r.exit /\ UNCHANGED <<up, timer>>
      BY <2>8, <2>11 DEF Sent
    <3>2. /\ subs' \in Seq(Sub) /\ Len(subs') = m /\ subs'[m] = r.sub /\ subs' # <<>>
          /\ \A i \in 1..m : i # m => subs'[i] = subs[i]
      <4>1. PICK t : t = r.sub /\ t \in Sub
        BY <2>7
      <4>2. PICK a : a = [subs EXCEPT ![m] = t]
        OBVIOUS
      <4>3. a \in Seq(Sub) /\ Len(a) = m /\ a[m] = t /\ \A i \in 1..m : i # m => a[i] = subs[i]
        BY <2>1, <2>2, <4>1, <4>2
      <4>4. a # <<>>
        <5>1. Len(<<>>) = 0
          OBVIOUS
        <5>2. QED
          BY <2>2, <4>3, <5>1
      <4>5. QED
        BY <3>1, <4>1, <4>2, <4>3, <4>4
    <3>3. PICK l2 : l2 = LastSent(r.sub)
      OBVIOUS
    <3>4. ASSUME q
          PROVE  /\ Steady(r.sub) /\ l2 = l + Len(r.sent)
                 /\ \A i \in 1..Len(r.sent) : r.sent[i] = l + i
      <4>1. Steady(s) /\ LastSent(s) = l
        BY <1>1, <2>1, <2>2, <2>3, <3>4 DEF Before, ClientOK
      <4>2. QED
        BY <2>7, <3>3, <4>1 DEF Follows
    <3>5. Flow(conns', n, written, got, l2, q, up, b)
      <4>1. PICK ns \in Seq(1..written) : ns = r.sent /\ Len(ns) <= BufMax /\ Len(ns) \in Nat
        BY <2>7
      <4>2. Len(f.out) + Len(ns) <= BufMax
        <5>1. PICK y \in Nat : y = Len(ns)
          BY <4>1
        <5>2. 0 + y = y /\ Len(<<>>) = 0
          OBVIOUS
        <5>3. Len(f.out) + y = y
          BY <1>7, <5>2
        <5>4. QED
          BY <4>1, <5>1, <5>3
      <4>3. PICK q2 : q2 = q
        OBVIOUS
      <4>4. q2 => /\ q /\ f.end[Server] = "run" /\ l2 = l + Len(ns)
                  /\ \A i \in 1..Len(ns) : ns[i] = l + i
        BY <1>7, <1>9, <3>4, <4>1, <4>3
      <4>5. f.end[Server] = conns[k].end[Server] /\ Matched(conns, n, node)
        BY <1>3, <1>7 DEF Before
      <4>6. Flow([conns EXCEPT ![k] = WithRecords(f, ns)], n, written, got, l2, q2, up, b)
        BY <1>2, <1>7, <4>2, <4>4, <4>5, FlowServed
      <4>7. QED
        BY <3>1, <4>1, <4>3, <4>6
    <3>6. LinksOK(n)'
      <4>1. l2 = LastSent(subs'[Len(subs')])
        BY <3>2, <3>3
      <4>2. b = (subs' # <<>>) /\ q = (~jumped' /\ ~skipped')
        BY <1>1, <1>6, <2>1, <3>2 DEF Quiet
      <4>3. QED
        BY <1>6, <3>1, <3>5, <4>1, <4>2 DEF LinksOK, Quiet
    <3>7. LogOK'
      <4>1. \A i \in 1..Len(subs') : Fit(subs'[i], cache, written, loaded)
        BY <2>2, <2>7, <3>2 DEF Before, LogOK
      <4>2. QED
        BY <1>6, <2>1, <2>7, <3>1, <3>2, <4>1 DEF Before, LogOK
    <3>8. ClientOK'
      <4>1. ~jumped' /\ ~skipped' => lost = {} /\ Steady(subs'[Len(subs')])
        BY <1>1, <1>6, <3>2, <3>4 DEF Before, ClientOK, Quiet
      <4>2. QED
        BY <1>6, <4>1 DEF Before, ClientOK, Quiet
    <3>9. FlagsOK'
      BY <1>6, <3>1 DEF Before, FlagsOK
    <3>10. QED
      BY <3>6, <3>7, <3>8, <3>9
  <2>12. QED
    BY <2>10, <2>11
<1>10. QED
  BY <1>8, <1>9

-----------------------------------------------------------------------------
(* The invariant, and what follows from it.                                *)

KeptInv == PeerOK /\ \E n \in Nat : Before(n)

(* Nothing is connected or written at the start.                           *)
LEMMA KeptInit == Init => KeptInv
<1> SUFFICES ASSUME Init
             PROVE  Before(0)
  BY DEF KeptInv, PeerOK, Init
<1>1. Matched(conns, 0, node)
  <2>1. List(conns, 0) /\ node \in [Side -> NodeIn(0)]
    BY DEF Init, List, Down, NodeIn, NodeStates
  <2>2. QED
    BY <2>1 DEF Matched, Holds
<1>2. LinksOK(0)
  BY DEF LinksOK, Flow
<1>3. LogOK
  <2>1. 0 \in 0..MaxRecords
    BY CacheAssumption
  <2>2. Ring(cache, written, loaded)
    BY <2>1, OpenedRing DEF Init
  <2>3. <<>> \in Seq(Sub) /\ Len(<<>>) = 0
    OBVIOUS
  <2>4. QED
    BY <2>2, <2>3 DEF Init, LogOK
<1>4. ClientOK /\ FlagsOK
  <2>1. timer \in [Side -> BOOLEAN] /\ up \in [Side -> BOOLEAN]
    BY DEF Init
  <2>2. FlagsOK
    BY <2>1 DEF Init, FlagsOK
  <2>3. got \in 0..written /\ lost \subseteq 1..written
    BY DEF Init
  <2>4. ClientOK
    BY <2>3 DEF Init, ClientOK
  <2>5. QED
    BY <2>2, <2>4
<1>5. QED
  BY <1>1, <1>2, <1>3, <1>4 DEF Before

(* A step that concerns neither the log nor the records of the client.     *)
LEMMA OthersKept ==
  ASSUME NEW n, Before(n), UNCHANGED <<cacheVars, openers, up, fatal, unbuffered, got, lost, jumped, skipped>>
  PROVE  LogOK' /\ ClientOK' /\ (timer' \in [Side -> BOOLEAN] => FlagsOK')
<1>1. LogOK'
  BY LogKept DEF Before
<1>2. ClientOK'
  BY ClientKept DEF Before, cacheVars
<1>3. timer' \in [Side -> BOOLEAN] => FlagsOK'
  BY DEF Before, FlagsOK
<1>4. QED
  BY <1>1, <1>2, <1>3

(* Timers are set or not.                                                  *)
LEMMA TimersTyped ==
  ASSUME NEW n, Before(n), NEW x \in Side
  PROVE  timer \in [Side -> BOOLEAN] /\ Retry(x) \in [Side -> BOOLEAN]
         /\ \A z \in BOOLEAN : [timer EXCEPT ![x] = z] \in [Side -> BOOLEAN]
BY DEF Before, FlagsOK, Retry

(* A connection is shut down.                                              *)
LEMMA ShutdownKeeps ==
  ASSUME NEW n, Before(n), NEW x \in Side, NEW k \in 1..n,
         Refuse(x, k) \/ EndOfFile(x, k) \/ Notice(x, k)
  PROVE  Before(n)'
<1>1. /\ Live(x, k) /\ Shutdown(x, k)
      /\ UNCHANGED <<cacheVars, openers, up, fatal, unbuffered, got, lost, jumped, skipped>>
  BY DEF Refuse, EndOfFile, Notice, clientVars, history
<1>2. Matched(conns', n, node')
  BY <1>1, ShutdownStep DEF Before
<1>3. UNCHANGED <<written, got, subs, jumped, skipped, up>>
  BY <1>1 DEF cacheVars
<1>4. LinksOK(n)'
  BY <1>1, <1>3, ShutdownLinks
<1>5. timer' \in [Side -> BOOLEAN]
  BY <1>1, TimersTyped DEF Shutdown
<1>6. LogOK' /\ ClientOK' /\ FlagsOK'
  BY <1>1, <1>5, OthersKept
<1>7. QED
  BY <1>2, <1>4, <1>6 DEF Before

(* A hello arrives.                                                        *)
LEMMA HelloKeeps ==
  ASSUME NEW n, Before(n), NEW x \in Side, NEW k \in 1..n,
         HelloToOpener(x, k) \/ HelloToAcceptor(x, k)
  PROVE  Before(n)'
<1>1. Matched(conns', n, node')
  BY HelloToOpenerStep, HelloToAcceptorStep DEF Before
<1>2. LinksOK(n)'
  BY HelloToOpenerLinks, HelloToAcceptorLinks
<1>3. /\ timer' \in {timer, Retry(x)}
      /\ UNCHANGED <<cacheVars, openers, up, fatal, unbuffered, got, lost, jumped, skipped>>
  BY DEF HelloToOpener, HelloToAcceptor, clientVars, history
<1>4. timer' \in [Side -> BOOLEAN]
  BY <1>3, TimersTyped
<1>5. LogOK' /\ ClientOK' /\ FlagsOK'
  BY <1>3, <1>4, OthersKept
<1>6. QED
  BY <1>1, <1>2, <1>5 DEF Before

(* nbMsgCabalRetry.                                                        *)
LEMMA EnableKeeps ==
  ASSUME NEW n, Before(n), NEW x \in Side, Enable(x)
  PROVE  \E m \in Nat : Before(m)'
<1>1. PICK m : Matched(conns', m, node')
  BY EnableStep DEF Before
<1>2. List(conns', m) /\ m \in Nat
  BY <1>1 DEF Matched, List
<1>3. LinksOK(m)'
  BY <1>2, EnableLinks
<1>4. /\ UNCHANGED <<cacheVars, openers, up, fatal, unbuffered, got, lost, jumped, skipped>>
      /\ timer' = [timer EXCEPT ![x] = HasAddress(x) /\ node[x].state # "connected"]
  BY DEF Enable, clientVars, history
<1>5. timer' \in [Side -> BOOLEAN]
  <2>1. PICK z : z = (HasAddress(x) /\ node[x].state # "connected")
    OBVIOUS
  <2>2. z \in BOOLEAN
    BY <2>1
  <2>3. timer' = [timer EXCEPT ![x] = z]
    BY <1>4, <2>1
  <2>4. QED
    BY <2>2, <2>3, TimersTyped
<1>6. LogOK' /\ ClientOK' /\ FlagsOK'
  BY <1>4, <1>5, OthersKept
<1>7. QED
  BY <1>1, <1>2, <1>3, <1>6 DEF Before

(* The handlers of one connection.                                         *)
LEMMA ServeKeeps ==
  ASSUME NEW n, Before(n), NEW k \in 1..n, Serve(k) \/ Break(k)
  PROVE  Before(n)'
<1>1. Matched(conns', n, node')
  BY SendHelloStep, SubscribeStep, TakeStep, WriteStep, BreakStep DEF Before, Serve
<1>2. CASE SendHello(k) \/ Break(k)
  <2>1. LinksOK(n)'
    BY <1>2, SendHelloLinks, BreakLinks
  <2>2. UNCHANGED <<cacheVars, openers, up, timer, fatal, unbuffered, got, lost, jumped, skipped>>
    BY <1>2 DEF SendHello, Break, nodes, clientVars, history
  <2>3. Server \in Side
    BY Sides
  <2>4. timer' \in [Side -> BOOLEAN]
    BY <2>2, <2>3, TimersTyped
  <2>5. LogOK' /\ ClientOK' /\ FlagsOK'
    BY <2>2, <2>4, OthersKept
  <2>6. QED
    BY <1>1, <2>1, <2>5 DEF Before
<1>3. CASE Subscribe(k)
  <2>1. LinksOK(n)' /\ LogOK' /\ ClientOK'
    BY <1>3, SubscribeKeeps
  <2>2. FlagsOK'
    BY <1>3, FlagsKept DEF Subscribe, Before, history
  <2>3. QED
    BY <1>1, <2>1, <2>2 DEF Before
<1>4. CASE Take(k)
  <2>1. LinksOK(n)' /\ ClientOK'
    BY <1>4, TakeKeeps
  <2>2. FlagsOK'
    BY <1>4, FlagsKept DEF Take, Before, nodes, history
  <2>3. LogOK'
    BY <1>4, LogKept DEF Take, Before, nodes, history
  <2>4. QED
    BY <1>1, <2>1, <2>2, <2>3 DEF Before
<1>5. CASE Write(k)
  <2>1. LinksOK(n)' /\ LogOK' /\ ClientOK' /\ FlagsOK'
    BY <1>5, WriteKeeps
  <2>2. QED
    BY <1>1, <2>1 DEF Before
<1>6. QED
  BY <1>2, <1>3, <1>4, <1>5 DEF Serve

(* The node of a server that connects keeps the number of a connection.    *)
LEMMA PeerNext ==
  ASSUME NEW n, Before(n), PeerOK, [Next]_vars
  PROVE  PeerOK'
<1>1. node \in [Side -> NodeIn(n)] /\ Server \in Side /\ n \in Nat /\ Matched(conns, n, node)
  BY Sides DEF Before, Matched, List
<1>2. CASE UNCHANGED <<subs, node, openers>>
  BY <1>2 DEF PeerOK, Peer
<1>3. ASSUME NEW x \in Side, Ended(x), openers' = openers
      PROVE  PeerOK'
  <2>1. CASE x = Server
    BY <1>3, <2>1 DEF Ended, PeerOK
  <2>2. CASE x # Server
    <3>1. subs' = subs /\ node'[Server] = node[Server]
      BY <1>1, <1>3, <2>2 DEF Ended
    <3>2. QED
      BY <1>3, <3>1 DEF PeerOK, Peer
  <2>3. QED
    BY <2>1, <2>2
<1>4. ASSUME NEW k \in 1..n, conns[k].end[Server] \in {"state", "run"}
      PROVE  Peer # 0
  <2>1. Owns(Server, conns[k])
    BY <1>4 DEF Owns
  <2>2. QED
    BY <1>1, <2>1 DEF Matched, Holds, Peer
<1>5. ASSUME UNCHANGED <<subs, openers>>,
             node'[Server].peer = node[Server].peer \/ node'[Server].peer # 0
      PROVE  PeerOK'
  BY <1>5 DEF PeerOK, Peer
<1>6. ASSUME NEW x \in Side, Enable(x)
      PROVE  PeerOK'
  <2>1. UNCHANGED <<subs, openers>>
    BY <1>6 DEF Enable, cacheVars
  <2>2. CASE node' = node
    BY <1>2, <2>1, <2>2
  <2>3. CASE Connect(x)
    <3>1. node' = [node EXCEPT ![x] = [@ EXCEPT !.state = "connecting", !.peer = n + 1]]
      BY <1>1, <2>3, ConnectionsAre DEF Connect
    <3>2. PICK w : w = [node[x] EXCEPT !.state = "connecting", !.peer = n + 1]
      OBVIOUS
    <3>3. w = [state |-> "connecting", peer |-> n + 1]
      BY ZenonT(40), <1>1, <3>2, NodeRecord
    <3>4. node' = [node EXCEPT ![x] = w] /\ w.peer # 0
      BY <1>1, <3>1, <3>2, <3>3
    <3>5. node'[Server].peer = node[Server].peer \/ node'[Server].peer # 0
      BY <1>1, <3>4
    <3>6. QED
      BY <1>5, <2>1, <3>5
  <2>4. CASE ConnectRefused(x)
    <3>1. node'[Server].peer = node[Server].peer
      BY <1>1, <2>4 DEF ConnectRefused, Disconnected, NodeIn
    <3>2. QED
      BY <1>5, <2>1, <3>1
  <2>5. CASE ConnectNowhere(x)
    <3>1. Server \notin openers \/ node'[Server] = node[Server]
      BY <1>1, <2>5 DEF ConnectNowhere
    <3>2. QED
      BY <2>1, <3>1 DEF PeerOK, Peer
  <2>6. QED
    BY <1>6, <2>2, <2>3, <2>4, <2>5 DEF Enable
<1>7. ASSUME NEW k \in 1..n, Write(k)
      PROVE  PeerOK'
  <2>1. openers' = openers
    BY <1>7 DEF Write
  <2>2. CASE conns[k].end[Server] = "run"
    <3>1. Ended(Server) \/ node' = node
      BY <1>7, <2>2 DEF Write, Sent
    <3>2. Peer # 0
      BY <1>4, <2>2
    <3>3. QED
      BY <1>1, <1>3, <2>1, <3>1, <3>2 DEF PeerOK, Peer
  <2>3. CASE conns[k].end[Server] # "run"
    <3>1. UNCHANGED <<subs, node>>
      BY <1>7, <2>3 DEF Write
    <3>2. QED
      BY <1>2, <2>1, <3>1
  <2>4. QED
    BY <2>2, <2>3
<1>8. ASSUME NEW k \in 1..n, Serve(k) \/ Break(k)
      PROVE  PeerOK'
  <2>1. CASE SendHello(k) \/ Take(k) \/ Break(k)
    BY <1>2, <2>1 DEF SendHello, Take, Break, cacheVars, nodes
  <2>2. CASE Subscribe(k)
    <3>1. Peer # 0
      BY <1>4, <2>2 DEF Subscribe
    <3>2. node'[Server].peer = node[Server].peer
      BY <1>1, <2>2 DEF Subscribe, NodeIn
    <3>3. QED
      BY <3>1, <3>2 DEF PeerOK, Peer
  <2>3. QED
    BY <1>7, <1>8, <2>1, <2>2 DEF Serve
<1>9. ASSUME NEW k \in 1..n, NEW x \in Side, Consume(x, k) \/ Notice(x, k)
      PROVE  PeerOK'
  <2>1. UNCHANGED <<subs, openers>>
    BY <1>9 DEF Consume, Notice, HelloToOpener, HelloToAcceptor, Refuse, EndOfFile, cacheVars
  <2>2. CASE HelloToOpener(x, k)
    <3>1. node'[Server].peer = node[Server].peer
      BY <1>1, <2>2 DEF HelloToOpener, NodeIn
    <3>2. QED
      BY <1>5, <2>1, <3>1
  <2>3. CASE HelloToAcceptor(x, k)
    <3>1. PICK w : w = [node[x] EXCEPT !.state = StateGreeted(x), !.peer = k]
      OBVIOUS
    <3>2. w = [state |-> StateGreeted(x), peer |-> k]
      BY ZenonT(40), <1>1, <3>1, NodeRecord
    <3>3. node' = [node EXCEPT ![x] = w] /\ w.peer # 0
      BY <1>1, <2>3, <3>1, <3>2 DEF HelloToAcceptor
    <3>4. node'[Server].peer = node[Server].peer \/ node'[Server].peer # 0
      BY <1>1, <3>3
    <3>5. QED
      BY <1>5, <2>1, <3>4
  <2>4. CASE Refuse(x, k) \/ EndOfFile(x, k) \/ Notice(x, k)
    <3>1. node' = [node EXCEPT ![x] = Disconnected(@)] \/ node' = node
      BY <2>4 DEF Refuse, EndOfFile, Notice, Shutdown
    <3>2. node'[Server].peer = node[Server].peer
      BY <1>1, <3>1 DEF Disconnected, NodeIn
    <3>3. QED
      BY <1>5, <2>1, <3>2
  <2>5. QED
    BY <1>9, <2>2, <2>3, <2>4 DEF Consume
<1>10. Connections = 1..n
  BY <1>1, ConnectionsAre
<1>11. CASE (\E x \in Side : Stop(x) \/ Start(x)) \/ Produce \/ UNCHANGED vars
  BY <1>2, <1>3, <1>11 DEF Stop, Start, Produce, vars, cacheVars, nodes
<1>12. CASE Insert
  BY <1>12, InsertKeeps
<1>13. QED
  BY <1>6, <1>8, <1>9, <1>10, <1>11, <1>12 DEF Next

(* Every step preserves the invariant.                                     *)
LEMMA BeforeNext ==
  ASSUME KeptInv, [Next]_vars
  PROVE  \E m \in Nat : Before(m)'
<1>1. PICK n \in Nat : Before(n)
  BY DEF KeptInv
<1>2. Matched(conns, n, node)
  BY <1>1 DEF Before
<1>3. CASE \E x \in Side : Enable(x)
  BY <1>1, <1>3, EnableKeeps
<1>4. CASE \E x \in Side : Stop(x)
  <2>1. PICK x \in Side : Stop(x)
    BY <1>4
  <2>2. LinksOK(n)' /\ LogOK' /\ ClientOK' /\ FlagsOK'
    BY <1>1, <2>1, StopKeeps
  <2>3. Matched(conns', n, node')
    BY <1>2, <2>1, EndedStep DEF Stop
  <2>4. Before(n)'
    BY <2>2, <2>3 DEF Before
  <2>5. QED
    BY <2>4
<1>5. CASE \E x \in Side : Start(x)
  <2>1. PICK x \in Side : Start(x)
    BY <1>5
  <2>2. LinksOK(n)' /\ LogOK' /\ ClientOK' /\ FlagsOK'
    BY <1>1, <2>1, StartKeeps
  <2>3. Matched(conns', n, node')
    BY <1>2, <2>1 DEF Start
  <2>4. Before(n)'
    BY <2>2, <2>3 DEF Before
  <2>5. QED
    BY <2>4
<1>6. CASE \E k \in Connections : Serve(k) \/ Break(k)
  <2>1. PICK k \in 1..n : Serve(k) \/ Break(k)
    BY <1>2, <1>6, ConnectionsAre
  <2>2. Before(n)'
    BY <1>1, <2>1, ServeKeeps
  <2>3. QED
    BY <2>2
<1>7. CASE \E k \in Connections : \E x \in Side : Consume(x, k) \/ Notice(x, k)
  <2>1. PICK k \in 1..n, x \in Side : Consume(x, k) \/ Notice(x, k)
    BY <1>2, <1>7, ConnectionsAre
  <2>2. Before(n)'
    BY <1>1, <2>1, HelloKeeps, ShutdownKeeps DEF Consume
  <2>3. QED
    BY <2>2
<1>8. CASE Produce
  <2>1. LinksOK(n)' /\ LogOK' /\ ClientOK'
    BY <1>1, <1>8, ProduceKeeps
  <2>2. FlagsOK'
    BY <1>1, <1>8, FlagsKept DEF Produce, Before, nodes, history
  <2>3. Matched(conns', n, node')
    BY <1>2, <1>8 DEF Produce, nodes
  <2>4. Before(n)'
    BY <2>1, <2>2, <2>3 DEF Before
  <2>5. QED
    BY <2>4
<1>9. CASE Insert
  <2>1. LinksOK(n)' /\ LogOK' /\ ClientOK' /\ FlagsOK'
    BY <1>1, <1>9, InsertKeeps DEF KeptInv
  <2>2. Matched(conns', n, node')
    BY <1>2, <1>9, InsertStep
  <2>3. Before(n)'
    BY <2>1, <2>2 DEF Before
  <2>4. QED
    BY <2>3
<1>10. CASE UNCHANGED vars
  <2>1. /\ UNCHANGED <<written, cache, subs, loaded, openers, up, node, timer, conns, got, lost>>
        /\ UNCHANGED <<jumped, skipped, fatal, unbuffered>>
    BY <1>10 DEF vars, cacheVars, nodes, clientVars, history
  <2>2. LinksOK(n)' /\ LogOK' /\ ClientOK' /\ FlagsOK'
    BY <1>1, <2>1 DEF Before, LinksOK, Quiet, LogOK, ClientOK, FlagsOK
  <2>3. Before(n)'
    BY <1>2, <2>1, <2>2 DEF Before
  <2>4. QED
    BY <2>3
<1>11. QED
  BY <1>3, <1>4, <1>5, <1>6, <1>7, <1>8, <1>9, <1>10 DEF Next

LEMMA KeptNext == KeptInv /\ [Next]_vars => KeptInv'
<1> SUFFICES ASSUME KeptInv, [Next]_vars
             PROVE  KeptInv'
  OBVIOUS
<1>1. \E m \in Nat : Before(m)'
  BY BeforeNext
<1>2. PeerOK'
  BY PeerNext DEF KeptInv
<1>3. QED
  BY <1>1, <1>2 DEF KeptInv

(* The types, from the invariant.                                          *)
LEMMA KeptTyped == KeptInv => TypeOK
<1> SUFFICES ASSUME NEW n, Before(n)
             PROVE  TypeOK
  BY DEF KeptInv
<1>1. CacheTypeOK
  <2>1. /\ written \in 0..MaxRecords /\ loaded \in 0..MaxRecords
        /\ cache.end \in 0..written /\ cache.start \in 1..(cache.end + 1)
        /\ cache.end - cache.start < CacheSize
    <3>1. PICK s, e : s = cache.start /\ e = cache.end
      OBVIOUS
    <3>2. /\ written \in 0..MaxRecords /\ loaded \in 0..written /\ MaxRecords \in Nat
          /\ e \in 0..written /\ s \in Nat \ {0} /\ s <= e + 1 /\ e - s < CacheSize
      BY <3>1, CacheAssumption DEF Before, LogOK, Ring
    <3>3. loaded \in 0..MaxRecords /\ s \in 1..(e + 1)
      BY <3>2
    <3>4. QED
      BY <3>1, <3>2, <3>3
  <2>2. ASSUME NEW i \in 1..Len(subs)
        PROVE  /\ subs[i].mode \in {"log", "cache"} /\ subs[i].count \in 0..written
               /\ subs[i].next \in 1..(2 * MaxRecords + 1)
               /\ {subs[i].inbuf, subs[i].again, subs[i].paused} \subseteq BOOLEAN
    <3>1. PICK s : s = subs[i] /\ s \in Sub /\ s.count <= written
      BY DEF Before, LogOK, Fit
    <3>2. /\ s.mode \in {"log", "cache"} /\ s.count \in 0..MaxRecords
          /\ s.next \in 1..(2 * MaxRecords + 1)
          /\ s.inbuf \in BOOLEAN /\ s.again \in BOOLEAN /\ s.paused \in BOOLEAN
      BY <3>1 DEF Sub
    <3>3. s.count \in 0..written
      BY <2>1, <3>1, <3>2, CacheAssumption
    <3>4. QED
      BY <3>1, <3>2, <3>3
  <2>3. QED
    BY <2>1, <2>2 DEF CacheTypeOK
<1>2. openers \subseteq Side /\ up \in [Side -> BOOLEAN] /\ timer \in [Side -> BOOLEAN]
  BY CabalAssumption DEF Before, LogOK, FlagsOK
<1>3. Connections = 1..n /\ Len(conns) = n /\ n \in Nat
  BY BeforeIs DEF List
<1>4. \A x \in Side : /\ node[x].state \in {"disconnected", "connecting", "connected"}
                      /\ node[x].peer \in 0..Len(conns)
  BY <1>3 DEF Before, Matched, NodeIn, NodeStates
<1>5. ASSUME NEW k \in 1..n
      PROVE  /\ \A x \in Side : conns[k].end[x] \in {"hello", "greet", "state", "run", "closed"}
             /\ Len(conns[k].out) <= BufMax
  <2>1. PICK r : r = conns[k]
    OBVIOUS
  <2>2. Typed(r, written) /\ written \in Nat
    BY <2>1, BeforeIs DEF Good, Sound
  <2>3. r.end \in [Side -> Ends] /\ Len(r.out) <= BufMax
    BY <2>2, WiredIs DEF Typed
  <2>4. QED
    BY <2>1, <2>3 DEF Ends
<1>6. got \in 0..written /\ lost \subseteq 1..written
  BY DEF Before, ClientOK
<1>7. QED
  BY <1>1, <1>2, <1>3, <1>4, <1>5, <1>6 DEF TypeOK

(* Whatever either side is configured to do, however connections break and *)
(* programs stop, and however full the peer's buffer gets: a client misses *)
(* no record of the server's log except in the two known ways, a           *)
(* subscription of an earlier connection that sent a newer record, and a   *)
(* ring that dropped the record a paused subscriber was to be offered      *)
(* again.  All variables keep their types.                                 *)
THEOREM RecordsLostKnownWays == Spec => []LostKnownWays
<1>1. KeptInv => LostKnownWays
  <2> SUFFICES ASSUME KeptInv
               PROVE  LostKnownWays
    OBVIOUS
  <2>1. lost # {} => jumped \/ skipped
    BY DEF KeptInv, Before, ClientOK, Quiet
  <2>2. QED
    BY <2>1, KeptTyped DEF LostKnownWays
<1>2. QED
  BY <1>1, KeptInit, KeptNext, PTL DEF Spec

(* A server that knows where the client listens, and whose log was empty   *)
(* when it started, never ends with a fatal record count error             *)
(* (nbMsgCachePublish), nor by writing into a peer without a buffer        *)
(* (nbPeerSend); one that only accepts can only end in the second way.     *)
THEOREM ServerStaysUp == Spec => []ServerStays
<1>1. KeptInv => ServerStays
  BY DEF KeptInv, Before, LogOK, ServerStays
<1>2. QED
  BY <1>1, KeptInit, KeptNext, PTL DEF Spec
============================================================================
