------------------------------ MODULE TimeExpr ------------------------------
(* Time expressions (nbtime.c): what a time function or an operator gives   *)
(* over a domain [begin, end).  The calendar is a line of MaxTime seconds   *)
(* on which a function's intervals recur: mktime and localtime are replaced *)
(* by arithmetic, the limit of time_t by MaxTime, past which no interval    *)
(* can be expressed.                                                        *)
(*   [op |-> "simple", fn]        day, hour, sunday: fn has a step, a phase *)
(*                                and a length (the duration)               *)
(*   [op |-> "complex", parms]    hour(4), hour(7_9), day(15): each parm an *)
(*                                offset and a length in a parent pattern,  *)
(*                                the parent 0 when it does not recur;      *)
(*                                a range is cut into units                 *)
(*   [op, right], [op, left, right]   operators                             *)
EXTENDS Bfi

CONSTANT MaxTime
ASSUME MaxTimeAssumption == MaxTime \in Nat \ {0}

never == -1
Time(t) == IF t > MaxTime THEN never ELSE t

(* The first interval of a function that is not over at t, and the next.   *)
Align(fn, t) ==
  LET s == t - ((t - fn.phase) % fn.step)
  IN IF t < s + fn.length THEN s ELSE s + fn.step
Step(fn, t, n) == t + n * fn.step

(* Those that start in the domain or are not over when it begins.          *)
tcSimple(begin, end, fn) ==
  LET first == Align(fn, begin)
      starts == {t \in first..(end - 1) : (t - first) % fn.step = 0 /\ Time(t + fn.length) # never}
  IN InsertAll(bfiNew(begin, end), [k \in 1..Cardinality(starts) |->
       Seg(first + (k - 1) * fn.step, first + (k - 1) * fn.step + fn.length)])

(* The parent patterns from the one that holds begin; of each the span or  *)
(* the units that are not over at begin.  A span that rolls over from the  *)
(* parent before begin is not looked for.                                  *)
Parents(p, begin, end) ==
  IF p.parent = 0 THEN {0}
  ELSE {t \in (begin - (begin % p.parent))..(end - 1) : t % p.parent = 0}
Units(p, start, begin, end) ==
  IF p.type = "span" THEN {Seg(start, start + p.length)}
  ELSE {Seg(t, t + p.unit) : t \in {u \in start..(SegMin(start + p.length, end) - 1) :
                                      (u - start) % p.unit = 0}}
tcComplex(begin, end, parms) ==
  LET given(p) == {s \in UNION {Units(p, t + p.offset, begin, end) :
                                  t \in {u \in Parents(p, begin, end) : u + p.offset < end}} :
                     s.end > begin /\ Time(s.end) # never}
      add(f, p) == FoldSet(LAMBDA s, x : bfiInsertUnique(x, s.start, s.end), f, given(p))
  IN FoldLeft(add, bfiNew(begin, end), parms)

-----------------------------------------------------------------------------
(* Operators.  The operands are evaluated over the domain that the operator *)
(* needs: a selection evaluates its left side over each interval of its     *)
(* right side, a rejection its right side over the extent of its left side, *)
(* a stretch its operand one step further than the domain.                  *)

tcPrefix(op, g) ==
  CASE op = "conflict" -> bfiConflict_(g)
    [] op = "connect" -> bfiOr_(g)
    [] op = "partition" -> bfiUntil_(g)
    [] op = "not" -> bfiNot_(g)
    [] op = "overlap" -> bfiAnd_(g)
    [] op = "normal" -> bfiOre_(g)
    [] op = "unique" -> bfiXore_(g)
tcInfix(op, g, h) ==
  CASE op = "and" -> bfiAnd(g, h)
    [] op = "or" -> bfiOr(g, h)
    [] op = "union" -> bfiUnion(g, h)
    [] op = "until" -> bfiUntil(g, h)
    [] op = "xor" -> bfiXor(g, h)
PrefixOps == {"conflict", "connect", "partition", "not", "overlap", "normal", "unique"}
InfixOps == {"and", "or", "union", "until", "xor"}

tcSelect(begin, end, h, Left(_)) ==
  LET add(f, s) == InsertAllUnique(f, SelectSeq(Left(s).segs, LAMBDA t : t.start < end /\ t.end > begin))
  IN FoldLeft(add, bfiNew(begin, end), h.segs)

(* The domain a rejection set is evaluated over: the first start and the   *)
(* latest end of what may be rejected.                                     *)
Extent(g) == Seg(g.segs[1].start, FoldLeft(LAMBDA e, s : SegMax(e, s.end), g.segs[1].end, g.segs))
tcReject(g, Right(_)) ==
  IF g.segs = <<>> THEN g
  ELSE LET h == Right(Extent(g))
       IN IF h.segs = <<>> THEN g ELSE bfiReject(g, [h EXCEPT !.lo = g.lo, !.hi = g.hi])

tcStretchStart(begin, end, fn, h) ==
  LET stretched(s) == LET a == Align(fn, s.start) IN IF a > s.start THEN Step(fn, a, -1) ELSE a
      before == SelectSeq(h.segs, LAMBDA s : stretched(s) < end)
  IN InsertAllUnique(bfiNew(begin, end), [k \in DOMAIN before |-> Seg(stretched(before[k]), before[k].end)])
tcStretchStop(begin, end, fn, g) ==
  LET stretched(s) == LET a == Align(fn, s.end) IN IF a < s.end THEN Step(fn, a, 1) ELSE a
      after == SelectSeq(g.segs, LAMBDA s : stretched(s) > begin)
  IN InsertAllUnique(bfiNew(begin, end), [k \in DOMAIN after |-> Seg(after[k].start, stretched(after[k]))])

RECURSIVE Operation(_, _, _)
Operation(e, begin, end) ==
  CASE e.op = "simple" -> tcSimple(begin, end, e.fn)
    [] e.op = "complex" -> tcComplex(begin, end, e.parms)
    [] e.op = "index" -> bfiIndex(Operation(e.left, begin, end), e.index)
    [] e.op = "select" -> tcSelect(begin, end, Operation(e.right, begin, end),
                                   LAMBDA s : Operation(e.left, s.start, s.end))
    [] e.op = "reject" -> tcReject(Operation(e.left, begin, end),
                                   LAMBDA s : Operation(e.right, s.start, s.end))
    [] e.op = "stretchStart" -> tcStretchStart(begin, end, e.left.fn,
                                               Operation(e.right, begin, Step(e.left.fn, end, 1)))
    [] e.op = "stretchStop" -> tcStretchStop(begin, end, e.right.fn,
                                             Operation(e.left, Step(e.right.fn, begin, -1), end))
    [] e.op \in PrefixOps -> tcPrefix(e.op, Operation(e.right, begin, end))
    [] e.op \in InfixOps -> tcInfix(e.op, Operation(e.left, begin, end), Operation(e.right, begin, end))

(* Cast: the normalized intervals that are not over when the domain begins. *)
tcCast(begin, end, e) ==
  LET f == bfiOre_(Operation(e, begin, end))
      live == SelectInSeq(f.segs, LAMBDA s : s.end > begin)
  IN [f EXCEPT !.segs = IF live = 0 THEN <<>> ELSE SubSeq(@, live, Len(@))]
=============================================================================
