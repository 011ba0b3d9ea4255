---------------------------- MODULE MCTimeSched ----------------------------
(* Time conditions on a short calendar: functions whose intervals repeat    *)
(* every 3, 5, 6, 7 and 8 seconds, the operators applied to each of them    *)
(* and, for some, to one another.                                          *)
EXTENDS TimeSched

Simple(fn) == [op |-> "simple", fn |-> fn]
Complex(parms) == [op |-> "complex", parms |-> parms]
One(o, a) == [op |-> o, right |-> a]
Two(o, a, b) == [op |-> o, left |-> a, right |-> b]
Span(parent, offset, length) ==
  [type |-> "span", parent |-> parent, offset |-> offset, length |-> length]
Units3(parent, offset) ==
  [type |-> "range", parent |-> parent, offset |-> offset, length |-> 3, unit |-> 1]
NthOf(n, a, b) ==
  Two("select", [op |-> "index", left |-> a, which |-> {n},
                 index |-> <<[type |-> "range", from |-> n, to |-> n]>>], b)

hour == Simple([step |-> 3, phase |-> 0, length |-> 3])
sunday == Simple([step |-> 7, phase |-> 2, length |-> 2])
at == Complex(<<Span(6, 4, 1)>>)
office == Complex(<<Units3(8, 3)>>)
meetings == Complex(<<Span(5, 0, 3), Span(5, 2, 2)>>)
Atoms == {hour, sunday, at, office, meetings}
Few == {hour, sunday, at}

Singles ==
  {One(o, a) : o \in {"connect", "normal", "overlap", "partition", "not"}, a \in Atoms}
  \cup {Two(o, a, b) : o \in {"and", "or", "union", "reject"}, a \in Atoms, b \in Atoms}
  \cup {Two("stretchStart", f, a) : f \in {hour, sunday}, a \in Atoms}
  \cup {Two("stretchStop", a, f) : f \in {hour, sunday}, a \in Atoms}
  \cup {Two("select", a, b) : a \in {sunday, at, office}, b \in {hour, sunday, office}}
  \cup {NthOf(n, at, b) : n \in {1, 2, -1}, b \in {meetings, sunday}}
Doubles ==
  {One(o, Two(p, a, b)) : o \in {"connect", "normal", "not"}, p \in {"and", "or", "union"},
                          a \in Few, b \in {sunday, at}}
  \cup {Two(p, One(o, a), b) : o \in {"connect", "normal"}, p \in {"and", "or", "union", "reject"},
                               a \in Few, b \in Few}
  \cup {Two("and", One(o, a), b) : o \in {"not", "partition"}, a \in Few, b \in Few}
Settling == Atoms \cup Singles \cup Doubles \cup {[op |-> "pulse", interval |-> 3]}
=============================================================================
