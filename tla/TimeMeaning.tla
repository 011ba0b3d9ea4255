---------------------------- MODULE TimeMeaning ----------------------------
(* What a time expression means: the set of its intervals on the whole line *)
(* 0..MaxTime, by the description of each function and operator in the      *)
(* language reference, with no domain, no order and no casting.             *)
EXTENDS TimeExpr

Line == 0..(MaxTime - 1)
AllSegs == {Seg(a, b) : a \in 0..MaxTime, b \in 0..MaxTime}
In(s, t) == s.start <= t /\ t < s.end
Covered(S) == {t \in Line : \E s \in S : In(s, t)}
Earliest(T) == CHOOSE t \in T : \A u \in T : t <= u

(* Intervals that cover the times T, broken where Joined(t) does not hold   *)
(* between t - 1 and t.                                                     *)
Runs(T, Joined(_)) ==
  LET starts == {t \in T : ~(t - 1 \in T /\ Joined(t))}
      ends(a) == {t \in (a + 1)..MaxTime : ~(t \in T /\ Joined(t))}
  IN {Seg(a, Earliest(ends(a))) : a \in starts}
Connected(T) == Runs(T, LAMBDA t : TRUE)
Normal(S) == Runs(Covered(S), LAMBDA t : \E s \in S : In(s, t) /\ In(s, t - 1))

Repeats(from, step, length) ==
  {s \in {Seg(t, t + length) : t \in from..MaxTime} : (s.start - from) % step = 0 /\ s.end <= MaxTime}
Pattern(p) ==
  LET starts == IF p.parent = 0 THEN {p.offset}
                ELSE {t \in p.offset..MaxTime : (t - p.offset) % p.parent = 0}
  IN IF p.type = "span" THEN {s \in {Seg(t, t + p.length) : t \in starts} : s.end <= MaxTime}
     ELSE UNION {{s \in Repeats(t, p.unit, p.unit) : s.end <= t + p.length} : t \in starts}
SimpleMeaning(fn) == Repeats(fn.phase, fn.step, fn.length)

(* The n-th interval of S, from the first or, when n is negative, the last. *)
Number(S, n) ==
  {s \in S : LET before == Cardinality({t \in S : SegBefore(t, s)})
             IN n = before + 1 \/ n = before - Cardinality(S)}

RECURSIVE Meaning(_)
Meaning(e) ==
  LET A == Meaning(e.left)  B == Meaning(e.right)
      meets(s, S) == \E t \in S : Overlap(s, t)
  IN CASE e.op = "simple" -> SimpleMeaning(e.fn)
       [] e.op = "complex" -> UNION {Pattern(e.parms[k]) : k \in DOMAIN e.parms}
       [] e.op = "conflict" -> {s \in B : meets(s, B \ {s})}
       [] e.op = "connect" -> Connected(Covered(B))
       [] e.op = "partition" -> LET cuts == {s.start : s \in B} \cup {0, MaxTime}
                                 IN {Seg(a, Earliest({b \in cuts : b > a})) : a \in cuts \ {MaxTime}}
       [] e.op = "not" -> Connected(Line \ Covered(B))
       [] e.op = "overlap" -> Connected({x \in Line : \E s, t \in B : s # t /\ In(s, x) /\ In(t, x)})
       [] e.op = "normal" -> Normal(B)
       [] e.op = "union" -> A \cup B
       [] e.op = "select" -> IF e.left.op = "index"
                             THEN UNION {UNION {Number({a \in Meaning(e.left.left) : Overlap(a, s)}, n) :
                                                  n \in e.left.which} : s \in B}
                             ELSE {s \in A : meets(s, B)}
       [] e.op = "reject" -> {s \in A : ~meets(s, B)}
       [] e.op = "until" -> {Seg(s.start, Earliest({t.start : t \in B} \cap (s.start + 1)..MaxTime)) :
                               s \in {x \in A : \E t \in B : t.start > x.start}}
       [] e.op = "and" -> Connected(Covered(A) \cap Covered(B))
       [] e.op = "or" -> Connected(Covered(A) \cup Covered(B))
       [] e.op = "xor" -> Connected((Covered(A) \cup Covered(B)) \ (Covered(A) \cap Covered(B)))
       [] e.op = "stretchStart" ->
            {Seg(Align(e.left.fn, s.start) - (IF Align(e.left.fn, s.start) > s.start THEN e.left.fn.step ELSE 0),
                 s.end) : s \in B}
       [] e.op = "stretchStop" ->
            {Seg(s.start, Earliest({t.start : t \in SimpleMeaning(e.right.fn)} \cap s.end..MaxTime)) :
               s \in {x \in A : \E t \in SimpleMeaning(e.right.fn) : t.start >= x.end}}

(* The intervals of a time condition.                                      *)
Intervals(e) == Normal(Meaning(e))
=============================================================================
