----------------------------- MODULE CacheRows ------------------------------
(* The cache skill of nb_cache.c: a tree of rows with counters on every    *)
(* node, a list of timer elements for the rows, and one timer of the clock *)
(* for the node.  A row is a sequence of values, one per attribute, and a  *)
(* node of the tree the prefix it stands for.  cacheAlarm runs rules while *)
(* it walks the list, and their commands may change the cache.             *)
EXTENDS ClockTimer

CONSTANTS
  Row,          \* the rows that are asserted
  Interval,     \* cache->interval
  OptionSets,   \* the definitions to consider: their cache->options
  Threshold     \* Threshold[kind][level]: <<reset, first, second, ...>>

Branches == {SubSeq(r, 1, k) : r \in Row, k \in 0..Len(CHOOSE r \in Row : TRUE)}
Kind == {"hits", "rows", "kids"}

ASSUME CacheAssumption ==
  /\ Row # {} /\ \A r \in Row : r \in Seq({r[i] : i \in DOMAIN r})
  /\ \A r, s \in Row : Len(r) = Len(s) /\ Len(r) > 0
  /\ Interval \in Nat \ {0}
  /\ OptionSets \subseteq SUBSET {"count", "expire", "exist"}

VARIABLES
  cache,    \* the struct CACHE: see CacheInit
  limit     \* the time cacheAlarm started, while it runs

cacheVars == <<cache, limit>>

CacheTypeOK ==
  /\ cache.options \in OptionSets
  /\ cache.nodes \subseteq Branches \ {<<>>}
  /\ cache.number \in [Kind -> [Branches -> Nat]]
  /\ cache.index \in [Kind -> [Branches -> Nat \ {0}]]
  /\ cache.list \in Seq([row : Row, at : Nat])
  /\ cache.state \subseteq {"publish", "alert", "alarm"}
  /\ limit \in 0..MaxTime

(* newCache: only the root, with its counters and threshold indexes.       *)
CacheInit ==
  /\ \E options \in OptionSets :
       cache = [options |-> options, nodes |-> {}, list |-> <<>>, state |-> {},
                number |-> [k \in Kind |-> [p \in Branches |-> 0]],
                index  |-> [k \in Kind |-> [p \in Branches |-> 1]]]
  /\ limit = 0

Counting == "count" \in cache.options
(* cache->options^CACHE_OPTION_COUNT: one timer element per row.           *)
Single == cache.options # {"count"}

Parent(p) == SubSeq(p, 1, Len(p) - 1)
Path(p) == {SubSeq(p, 1, k) : k \in 0..Len(p)}
Under(p) == {q \in Branches : p \in Path(q)}
Limits(k, p) == Threshold[k][Len(p) + 1]

(* A counter n of kind k on p has reached the next threshold.              *)
Crossed(k, p, n) ==
  LET i == cache.index[k][p] + 1
  IN  i <= Len(Limits(k, p)) /\ n >= Limits(k, p)[i]

(* Counters that fell below the reset threshold start again at the first.  *)
Reset(c) ==
  [c EXCEPT !.index = [k \in Kind |-> [p \in Branches |->
     IF c.number[k][p] < cache.number[k][p] /\ c.number[k][p] < Limits(k, p)[1]
     THEN 1 ELSE @[k][p]]]]

(* The elements of s at the places I, in their order.                      *)
Selected(s, I) ==
  [n \in 1..Cardinality(I) |-> s[CHOOSE i \in I : Cardinality({j \in I : j < i}) = n - 1]]

----------------------------------------------------------------------------
(* cacheInsert: the counters and thresholds on the path of the row r.      *)
Counted(r) ==
  LET path  == Path(r)
      new   == path \ (cache.nodes \cup {<<>>})
      after == [hits |-> [p \in Branches |->
                            IF p \notin path THEN cache.number["hits"][p]
                            ELSE IF Counting THEN cache.number["hits"][p] + 1 ELSE 1],
                rows |-> [p \in Branches |-> cache.number["rows"][p] +
                            (IF p \in path /\ r \in new THEN 1 ELSE 0)],
                kids |-> [p \in Branches |-> cache.number["kids"][p] +
                            Cardinality({q \in new : Parent(q) = p})]]
      looked == [hits |-> IF Counting THEN path ELSE {},
                 rows |-> IF r \in new THEN path \ {r} ELSE {},
                 kids |-> {Parent(q) : q \in new}]
      crossed(k) == {p \in looked[k] : Crossed(k, p, after[k][p])}
  IN  [cache EXCEPT
         !.nodes  = @ \cup new,
         !.number = after,
         !.index  = [k \in Kind |-> [p \in Branches |->
                       IF p \in crossed(k) THEN @[k][p] + 1 ELSE @[k][p]]],
         !.state  = @ \cup (IF new = {} THEN {} ELSE {"publish"})
                      \cup (IF \E k \in Kind : crossed(k) # {} THEN {"alert"} ELSE {})]

(* cacheNewTimerElement.                                                   *)
NewTimerElement(c, r) ==
  LET others == IF Single THEN Selected(c.list, {i \in DOMAIN c.list : c.list[i].row # r}) ELSE c.list
  IN  [c EXCEPT !.list = Append(others, [row |-> r, at |-> now + Interval]),
                !.state = @ \cup (IF c.list = <<>> THEN {"alarm"} ELSE {})]

(* The topmost node that goes when e goes: nodes without kids go too.      *)
Topmost(e) ==
  CHOOSE t \in Path(e) \ {<<>>} :
    /\ Parent(t) = <<>> \/ cache.number["kids"][Parent(t)] > 1
    /\ \A u \in Path(e) \ Path(t) : cache.number["kids"][Parent(u)] = 1

(* Without e and what lies under it, and their part of the counters above. *)
Without(e) ==
  LET t     == Topmost(e)
      above == Path(Parent(t))
      drop(k, p) == CASE p \in Under(t)                -> cache.number[k][p]
                      [] p \in above /\ k = "rows"     -> cache.number["rows"][e]
                      [] p \in above /\ k = "hits"     -> IF Counting THEN cache.number["hits"][e] ELSE 0
                      [] p = Parent(t) /\ k = "kids"   -> 1
                      [] OTHER                         -> 0
  IN  [cache EXCEPT !.nodes = @ \ Under(t), !.state = @ \cup {"publish"},
         !.number = [k \in Kind |-> [p \in Branches |-> @[k][p] - drop(k, p)]]]

(* cacheRemoveNode, the thresholds of the counters included.               *)
RemoveNode(e) ==
  [Reset(Without(e)) EXCEPT !.index = [k \in Kind |-> [p \in Branches |->
     IF p \in Under(Topmost(e)) THEN 1 ELSE @[k][p]]]]

(* cacheDecNode: a hit of the row r has expired.                           *)
DecNode(r) ==
  IF cache.number["hits"][r] < 2 THEN RemoveNode(r)
  ELSE IF ~Counting THEN cache
  ELSE Reset([cache EXCEPT !.number["hits"] = [p \in Branches |->
                IF p \in Path(r) THEN @[p] - 1 ELSE @[p]]])

----------------------------------------------------------------------------
(* cacheAssert or cacheAlert of a row.  With a single element per row, a   *)
(* row without one holds a pointer to a freed element: what becomes of the *)
(* list then is undefined, and the model stops there.                      *)
AssertRow(r) ==
  /\ Single /\ r \in cache.nodes => \E i \in DOMAIN cache.list : cache.list[i].row = r
  /\ cache' = NewTimerElement(Counted(r), r)
  /\ timers' = IF cache.list = <<>> THEN SetTimer(timers, now + Interval, Node) ELSE timers
  /\ UNCHANGED limit

(* Mutant: only the element of the named row itself goes.                  *)
RetractRowOnly(p) ==
  /\ p \in cache.nodes
  /\ LET c    == RemoveNode(p)
         list == Selected(cache.list, {i \in DOMAIN cache.list : cache.list[i].row # p})
     IN  /\ cache' = [c EXCEPT !.list = list,
                               !.state = IF list = <<>> THEN @ \ {"alarm"} ELSE @]
         /\ timers' = IF list = <<>> THEN SetTimer(timers, 0, Node) ELSE timers
  /\ UNCHANGED limit

(* Mutant: the alarm is left when the last row goes.                       *)
RetractRowAlarm(p) ==
  /\ p \in cache.nodes
  /\ LET c    == RemoveNode(p)
         list == Selected(cache.list, {i \in DOMAIN cache.list : cache.list[i].row \in c.nodes})
     IN  /\ cache' = [c EXCEPT !.list = list,
                               !.state = IF list = <<>> THEN @ \ {"alarm"} ELSE @]
         /\ UNCHANGED timers
  /\ UNCHANGED limit

(* cacheRemove: the elements of freed rows go, and the alarm with the last.*)
RetractRow(p) ==
  /\ p \in cache.nodes
  /\ LET c    == RemoveNode(p)
         list == Selected(cache.list, {i \in DOMAIN cache.list : cache.list[i].row \in c.nodes})
     IN  /\ cache' = [c EXCEPT !.list = list,
                               !.state = IF list = <<>> THEN @ \ {"alarm"} ELSE @]
         /\ timers' = IF list = <<>> THEN SetTimer(timers, 0, Node) ELSE timers
  /\ UNCHANGED limit

(* cacheEmpty, from an assertion without arguments or cacheResetAlarm.     *)
EmptyCache ==
  /\ cache.nodes # {}
  /\ timers' = IF "alarm" \in cache.state THEN SetTimer(timers, 0, Node) ELSE timers
  /\ cache' = [cache EXCEPT !.nodes = {}, !.list = <<>>,
                 !.state = (@ \ {"alarm"}) \cup {"publish"},
                 !.number = [k \in Kind |-> [p \in Branches |-> 0]],
                 !.index = [k \in Kind |-> [p \in Branches |-> 1]]]
  /\ UNCHANGED limit

(* cacheAlarm starts: the time is read once.                               *)
CacheAlarm ==
  /\ Take(Node)
  /\ timers' = Tail(timers)
  /\ alarm' = [alarm EXCEPT !.at = "cache"]
  /\ cache' = [cache EXCEPT !.state = @ \ {"alarm"}]
  /\ limit' = now

Expired == cache.list # <<>> /\ Head(cache.list).at <= limit

(* One turn of its loop; an expiration that is reported has rules react.   *)
ExpireRow ==
  /\ alarm.at = "cache" /\ Expired
  /\ LET r == Head(cache.list).row
         told == "expire" \in cache.options /\ cache.number["hits"][r] < 2
     IN  /\ cache' = [DecNode(r) EXCEPT !.list = Tail(@)]
         /\ alarm' = [alarm EXCEPT !.at = IF told THEN "rules" ELSE "cache"]
  /\ UNCHANGED <<now, clock, timers, rung, limit>>

(* nbRuleReact and nbNodeAlert return, and the list is looked at again.    *)
RulesEnd ==
  /\ alarm.at = "rules"
  /\ alarm' = [alarm EXCEPT !.at = "cache"]
  /\ UNCHANGED <<now, clock, timers, rung, cache, limit>>

(* Mutant: cacheAlarm does not set the alarm again for the rows it leaves. *)
CacheAlarmEndUnset ==
  /\ alarm.at = "cache" /\ ~Expired
  /\ alarm' = [alarm EXCEPT !.at = "second"]
  /\ limit' = 0
  /\ UNCHANGED <<now, clock, timers, rung, cache>>

(* cacheAlarm returns to the inner loop of nbClockAlert.                   *)
CacheAlarmEnd ==
  /\ alarm.at = "cache" /\ ~Expired
  /\ LET again == cache.list # <<>> /\ cache.state # {"alarm"}
     IN  /\ timers' = IF again THEN SetTimer(timers, Head(cache.list).at, Node) ELSE timers
         /\ cache' = IF again THEN [cache EXCEPT !.state = @ \cup {"alarm"}] ELSE cache
  /\ alarm' = [alarm EXCEPT !.at = "second"]
  /\ limit' = 0
  /\ UNCHANGED <<now, clock, rung>>

CacheCommand ==
  \/ \E r \in Row : AssertRow(r)
  \/ \E p \in Branches \ {<<>>} : RetractRow(p)
  \/ EmptyCache

CacheAlarmStep == ExpireRow \/ RulesEnd \/ CacheAlarmEnd

----------------------------------------------------------------------------
Elements(r) == {i \in DOMAIN cache.list : cache.list[i].row = r}

(* Whatever rules do to the cache while cacheAlarm walks its list, the     *)
(* counters agree with the rows and with the timer elements: every node    *)
(* counts the rows and the kids under it and, with the count option, the   *)
(* hits that have not expired; every row has its timer elements, and no    *)
(* element is left of a row that is gone.                                  *)
CacheAgrees ==
  /\ \A i \in DOMAIN cache.list : cache.list[i].row \in cache.nodes
  /\ \A p \in cache.nodes \cup {<<>>} :
       LET below == Under(p) \cap cache.nodes \cap Row
       IN  /\ cache.number["rows"][p] = Cardinality(below)
           /\ cache.number["kids"][p] = Cardinality({q \in cache.nodes : Parent(q) = p})
           /\ p # <<>> => below # {}
           /\ Counting => cache.number["hits"][p] = Cardinality(UNION {Elements(r) : r \in below})
  /\ \A r \in Row \cap cache.nodes :
       Cardinality(Elements(r)) = IF Counting THEN cache.number["hits"][r] ELSE 1

(* Outside cacheAlarm the node has a timer exactly when rows wait to       *)
(* expire, set no later than the first of them, and the flag says so.      *)
CacheAlarmed ==
  alarm.at \notin {"cache", "rules"} =>
    /\ ("alarm" \in cache.state) = (cache.list # <<>>)
    /\ Timed(timers, Node) = (cache.list # <<>>)
    /\ \A i \in DOMAIN timers : timers[i].object = Node => timers[i].at <= Head(cache.list).at

(* No threshold is passed unreported, and a counter reports the thresholds *)
(* again only after it fell below its reset threshold.                     *)
ThresholdsReported ==
  \A k \in Kind, p \in cache.nodes \cup {<<>>} :
    LET n == cache.number[k][p]
        limits == Limits(k, p)
    IN  /\ cache.index[k][p] > 1 => n >= limits[1]
        /\ (k = "hits" => Counting) /\ ~(k = "rows" /\ p \in Row) =>
             \A i \in 2..Len(limits) : n >= limits[i] => cache.index[k][p] >= i

(* The rows, the counters and elements kept for them, and the thresholds   *)
(* already reported agree, whatever rules do to the cache from inside      *)
(* cacheAlarm.                                                             *)
CacheSound == CacheAgrees /\ ThresholdsReported
=============================================================================
