-------------------------------- MODULE Bfi --------------------------------
(* Binary functions of integer (nbbfi.c): sets of time intervals over a    *)
(* domain, the values of time expressions.  A set is a record of its       *)
(* domain [lo, hi) and its segments [start, end) in the order bfiInsert    *)
(* keeps them, by start and then by end; segments may overlap, repeat and  *)
(* reach beyond the domain.  The functions the language of time conditions *)
(* reaches are here; the others (select, indexed select, yield, known, the *)
(* edge keeping or and xor of two sets) are called by nothing.             *)
EXTENDS Integers, SequencesExt

Seg(a, b) == [start |-> a, end |-> b]
bfiNew(lo, hi) == [lo |-> lo, hi |-> hi, segs |-> <<>>]
SegMin(a, b) == IF a < b THEN a ELSE b
SegMax(a, b) == IF a < b THEN b ELSE a

bfiDomain(g, h) ==
  LET lo == SegMax(g.lo, h.lo)  hi == SegMin(g.hi, h.hi)
  IN bfiNew(lo, SegMax(lo, hi))

SegBefore(s, t) == s.start < t.start \/ (s.start = t.start /\ s.end < t.end)

(* Behind the last segment that is not greater.                            *)
Place(f, t) == SelectLastInSeq(f.segs, LAMBDA s : ~SegBefore(t, s))
bfiInsert(f, a, b) ==
  [f EXCEPT !.segs = InsertAt(@, Place(f, Seg(a, b)) + 1, Seg(a, b))]
bfiInsertUnique(f, a, b) ==
  LET k == Place(f, Seg(a, b))
  IN IF k > 0 /\ f.segs[k] = Seg(a, b) THEN f ELSE bfiInsert(f, a, b)

InsertAll(f, segs) == FoldLeft(LAMBDA x, s : bfiInsert(x, s.start, s.end), f, segs)
InsertAllUnique(f, segs) == FoldLeft(LAMBDA x, s : bfiInsertUnique(x, s.start, s.end), f, segs)

bfiCopy(g) == InsertAll(bfiNew(g.lo, g.hi), g.segs)

-----------------------------------------------------------------------------
(* Operations on one set.                                                  *)

(* Or_ connects what overlaps or adjoins, Ore_ what overlaps: the last      *)
(* segment so far is extended.  (The result is in order: the last segment  *)
(* in the list is the last one inserted.)                                  *)
Combined(g, Joins(_, _)) ==
  LET add(f, s) ==
        IF f.segs = <<>> \/ ~Joins(Last(f.segs), s) THEN bfiInsert(f, s.start, s.end)
        ELSE [f EXCEPT !.segs[Len(f.segs)].end = SegMax(@, s.end)]
  IN FoldLeft(add, bfiNew(g.lo, g.hi), g.segs)

JoinsAdjoining(l, s) == l.end >= s.start
JoinsOverlapping(l, s) == l.end > s.start
bfiOr_(g) == Combined(g, JoinsAdjoining)
bfiOre_(g) == Combined(g, JoinsOverlapping)

(* The segments after the k-th that start before it ends.                  *)
Overlapping(g, k) ==
  SelectSeq(SubSeq(g.segs, k + 1, Len(g.segs)), LAMBDA t : t.start < g.segs[k].end)

(* And_: the overlaps of each with each, connected.                        *)
bfiAnd_(g) ==
  LET shared(k) == [j \in DOMAIN Overlapping(g, k) |->
                      LET t == Overlapping(g, k)[j]
                      IN Seg(t.start, SegMin(g.segs[k].end, t.end))]
      add(f, k) == InsertAll(f, shared(k))
  IN bfiOr_(FoldLeft(add, bfiNew(g.lo, g.hi), [k \in DOMAIN g.segs |-> k]))

(* Conflict: the segments that overlap another, each once.                 *)
bfiConflict_(g) ==
  LET add(f, k) == IF Overlapping(g, k) = <<>> THEN f
                   ELSE InsertAllUnique(f, <<g.segs[k]>> \o Overlapping(g, k))
  IN FoldLeft(add, bfiNew(g.lo, g.hi), [k \in DOMAIN g.segs |-> k])

(* Not: the gaps of the connected set; the domain ends the last gap.  The  *)
(* empty set has no gap.                                                   *)
FrontGap(h) ==
  IF h.lo < h.segs[1].start THEN bfiInsert(bfiNew(h.lo, h.hi), h.lo, h.segs[1].start)
  ELSE bfiNew(h.lo, h.hi)
bfiNot_(g) ==
  LET h == bfiOr_(g)
      next(k) == IF k = Len(h.segs) THEN h.hi ELSE h.segs[k + 1].start
      add(f, k) == IF h.segs[k].end < h.hi /\ h.segs[k].end < next(k)
                   THEN bfiInsert(f, h.segs[k].end, next(k)) ELSE f
  IN IF g.segs = <<>> THEN g
     ELSE FoldLeft(add, FrontGap(h), [k \in DOMAIN h.segs |-> k])

(* Xor_ and Xore_: a segment is held back until the next one is known.  Of *)
(* two that start together the second is not looked at.                    *)
Unique(g, connect) ==
  LET first == [f |-> bfiNew(g.lo, g.hi), held |-> Head(g.segs)]
      emit(x, b) == bfiInsert(x.f, x.held.start, b)
      rest(l, s) == IF l.end > s.end THEN Seg(s.end, l.end) ELSE Seg(l.end, s.end)
      add(x, s) ==
        CASE connect /\ x.held.end = s.start -> [x EXCEPT !.held.end = s.end]
          [] (IF connect THEN x.held.end < s.start ELSE x.held.end <= s.start)
               -> [f |-> emit(x, x.held.end), held |-> s]
          [] x.held.end > s.start /\ x.held.start < s.start
               -> [f |-> emit(x, s.start), held |-> rest(x.held, s)]
          [] OTHER -> x
      all == FoldLeft(add, first, Tail(g.segs))
  IN IF g.segs = <<>> THEN g
     ELSE IF all.held.end > all.held.start THEN emit(all, all.held.end) ELSE all.f
bfiXor_(g) == Unique(g, TRUE)
bfiXore_(g) == Unique(g, FALSE)

(* Until_ (partition): from start to start; the ends of the domain are     *)
(* filled.                                                                 *)
bfiUntil_(g) ==
  LET n == Len(g.segs)
      front == IF g.lo < g.segs[1].start
               THEN bfiInsert(bfiNew(g.lo, g.hi), g.lo, g.segs[1].start) ELSE bfiNew(g.lo, g.hi)
      add(f, k) == IF g.segs[k].start < g.segs[k + 1].start
                   THEN bfiInsert(f, g.segs[k].start, g.segs[k + 1].start) ELSE f
  IN IF n = 0 THEN bfiInsert(bfiNew(g.lo, g.hi), g.lo, g.hi)
     ELSE bfiInsert(FoldLeft(add, front, [k \in 1..(n - 1) |-> k]),
                    g.segs[n].start, SegMax(g.segs[n].end, g.hi))

(* Index: the segments of the domain, by position from either end; a span  *)
(* is one segment from the first of them to the last.                      *)
InDomain(f, s) == s.start < f.hi /\ s.end > f.lo
bfiIndex(g, index) ==
  LET array == SelectSeq(g.segs, LAMBDA s : InDomain(g, s))
      n == Len(array)
      at(i) == IF i < 0 THEN i + n + 1 ELSE i
      add(f, r) ==
        LET J == SegMax(at(r.from), 1)  K == SegMin(at(r.to), n)
            range == SubSeq(array, J, K)
            end == FoldLeft(LAMBDA e, s : SegMax(e, s.end), range[1].end, range)
        IN IF ~(J <= n /\ K >= 1 /\ K >= J) THEN f
           ELSE IF r.type = "span" THEN bfiInsert(f, range[1].start, end)
           ELSE InsertAll(f, range)
  IN FoldLeft(add, bfiNew(g.lo, g.hi), index)

-----------------------------------------------------------------------------
(* Operations on two sets.                                                 *)

(* Union, without looking for duplicates.                                  *)
bfiUnion(g, h) == InsertAll(InsertAll(bfiDomain(g, h), g.segs), h.segs)

bfiAnd(g, h) == bfiAnd_(bfiUnion(bfiOr_(g), bfiOr_(h)))
bfiOr(g, h) == bfiOr_(bfiUnion(g, h))
bfiXor(g, h) == bfiXor_(bfiUnion(bfiOr_(g), bfiOr_(h)))

(* A pointer t into segments h: forwards past those that end before s      *)
(* starts, backwards past those that start after s ends, stopping at the   *)
(* last and the first.                                                     *)
Forward(h, t, s) ==
  LET ahead == {k \in t..Len(h) : s.start < h[k].end}
  IN IF ahead = {} THEN Len(h) ELSE CHOOSE k \in ahead : \A j \in ahead : k <= j
Backward(h, t, s) ==
  LET back == {k \in 1..t : s.end > h[k].start}
  IN IF back = {} THEN 1 ELSE CHOOSE k \in back : \A j \in back : k >= j
Overlap(s, t) == s.start < t.end /\ s.end > t.start

(* Reject: the segments of g that overlap none of h.                       *)
bfiReject(g, h) ==
  LET H == bfiOr_(h).segs
      add(x, s) == LET t == Forward(H, Backward(H, x.t, s), s)
                   IN [f |-> IF Overlap(s, H[t]) THEN x.f ELSE bfiInsert(x.f, s.start, s.end),
                       t |-> t]
  IN IF g.segs = <<>> \/ H = <<>> THEN bfiCopy(g)
     ELSE FoldLeft(add, [f |-> bfiDomain(g, h), t |-> 1], g.segs).f

(* Until: the segments of g, each ending at the next start of h; when h    *)
(* has none left it keeps its end, and what starts at the end of the       *)
(* domain is left out, with all that follow.                               *)
After(h, s) == {k \in DOMAIN h.segs : h.segs[k].start > s.start}
NextStart(h, s) == h.segs[CHOOSE k \in After(h, s) : \A j \in After(h, s) : k <= j].start
bfiUntil(g, h) ==
  LET add(f, s) ==
        IF After(h, s) # {} THEN bfiInsert(f, s.start, NextStart(h, s))
        ELSE IF s.start >= h.hi THEN f ELSE bfiInsert(f, s.start, s.end)
  IN FoldLeft(add, bfiDomain(g, h), g.segs)
=============================================================================
