------------------------------ MODULE MsgCache ------------------------------
(* The message cache of a server (nbmsg.c): the newest records of its log  *)
(* in a ring, and the subscribers that are served from it.  A subscriber   *)
(* first reads the log files, goes on from the ring at their end, and is   *)
(* sent back to the files when the ring drops a record it still points at. *)
(* Its handler may refuse a record because the peer's buffer is full; the  *)
(* subscriber is then paused.  Records are numbers; a position in the log  *)
(* is the number of the record found there.                                *)
EXTENDS Integers, SequencesExt

CONSTANTS
  CacheSize,    \* records the ring holds
  MaxRecords    \* bound: records in the log

ASSUME CacheAssumption == CacheSize \in Nat \ {0} /\ MaxRecords \in Nat

VARIABLES
  written,      \* records in the log files, written by the producer
  cache,        \* the ring: records start to end; base is where the file
                \* position kept for start really is
  subs,         \* the subscribers, oldest first
  loaded        \* history: how many records the log held when it was opened

cacheVars == <<written, cache, subs, loaded>>

(* nbMsgCacheAlloc: nbMsgConsume reads the last file into the ring, but    *)
(* the file position is taken when nbMsgLogOpen has read that file into    *)
(* its buffer, and stands behind the records already in it.                *)
Opened(n) == LET first == IF n > CacheSize THEN n - CacheSize + 1 ELSE 1
             IN [start |-> first, end |-> n, base |-> first + n]

(* nbMsgCacheSubscribe: the log is opened at the client's state.           *)
Subscriber(state) == [mode |-> "log", next |-> state + 1, count |-> state,
                      inbuf |-> FALSE, again |-> FALSE, paused |-> FALSE]

CacheTypeOK ==
  /\ written \in 0..MaxRecords /\ loaded \in 0..MaxRecords
  /\ cache.end \in 0..written /\ cache.start \in 1..(cache.end + 1)
  /\ cache.end - cache.start < CacheSize
  /\ \A i \in 1..Len(subs) :
       /\ subs[i].mode \in {"log", "cache"} /\ subs[i].count \in 0..written
       /\ subs[i].next \in 1..(2 * MaxRecords + 1)
       /\ {subs[i].inbuf, subs[i].again, subs[i].paused} \subseteq BOOLEAN

-----------------------------------------------------------------------------
(* nbMsgCachePublish.  room is the number of records the handler accepts.  *)

After(n, k) == [i \in 1..k |-> n + i]
Result(s, sent, exit) == [sub |-> s, sent |-> sent, exit |-> exit]

(* The record of the log that is refused stays in the read buffer, already *)
(* counted.                                                                *)
(* Mutant: it does not stay there.                                         *)
PausedDropping(s, room) ==
  [s EXCEPT !.count = @ + room + 1, !.next = s.count + room + 2, !.paused = TRUE]
Paused(s, room) ==
  [s EXCEPT !.count = @ + room + 1, !.next = s.count + room + 2, !.inbuf = TRUE, !.paused = TRUE]

(* The log files: every record that follows the last one in sequence is    *)
(* offered; the others are passed over.                                    *)
FromLog(s, c, room) ==
  LET news == IF s.next <= s.count + 1 THEN written - s.count ELSE 0
  IN CASE s.mode = "cache" -> Result(s, <<>>, FALSE)
       [] s.mode = "log" /\ s.next > written + 1 -> Result(s, <<>>, TRUE)
       [] s.mode = "log" /\ s.next <= written + 1 /\ news <= room ->
            Result([s EXCEPT !.count = @ + news, !.mode = "cache", !.next = c.start],
                   After(s.count, news), FALSE)
       [] OTHER ->
            Result(Paused(s, room), After(s.count, room), FALSE)

(* The ring: the record refused before comes first, unexamined; then those *)
(* that follow the last one in sequence; one out of sequence is fatal.     *)
InSequence(s, c, room) ==
  LET news == c.end - s.count
  IN CASE news <= 0 \/ s.next > c.end -> Result([s EXCEPT !.next = c.end + 1], <<>>, FALSE)
       [] news > 0 /\ s.next \in (s.count + 2)..c.end -> Result(s, <<>>, TRUE)
       [] news > 0 /\ s.next <= s.count + 1 /\ news <= room ->
            Result([s EXCEPT !.count = c.end, !.next = c.end + 1], After(s.count, news), FALSE)
       [] OTHER ->
            Result([s EXCEPT !.count = @ + room + 1, !.next = s.count + room + 1,
                             !.paused = TRUE, !.again = TRUE],
                   After(s.count, room), FALSE)

FromCache(s, c, room) ==
  IF ~s.again \/ s.next > c.end THEN InSequence(s, c, room)
  ELSE IF room = 0 THEN Result([s EXCEPT !.paused = TRUE], <<>>, FALSE)
  ELSE LET r == InSequence([s EXCEPT !.again = FALSE, !.next = @ + 1], c, room - 1)
       IN [r EXCEPT !.sent = <<s.next>> \o @]

Publish(s, c, room) ==
  IF s.inbuf /\ room = 0 THEN Result(s, <<>>, FALSE)
  ELSE LET held == IF s.inbuf THEN <<s.count>> ELSE <<>>
           log == FromLog([s EXCEPT !.inbuf = FALSE, !.paused = FALSE], c, room - Len(held))
           ring == FromCache(log.sub, c, room - Len(held) - Len(log.sent))
       IN IF log.sub.paused \/ log.exit THEN [log EXCEPT !.sent = held \o @]
          ELSE [ring EXCEPT !.sent = held \o log.sent \o @]

-----------------------------------------------------------------------------
(* nbMsgCacheStomp: the oldest record leaves the ring when it is full, and *)
(* a subscriber that points at it goes back to the log files.              *)
IsFull(c) == c.end - c.start + 1 >= CacheSize
Stomped(s, c) == IsFull(c) /\ s.mode = "cache" /\ s.next = c.start
(* Mutant: to the end of the log.                                          *)
AfterStompAtEnd(s, c) ==
  IF Stomped(s, c) THEN [s EXCEPT !.mode = "log", !.next = written + 1] ELSE s
AfterStomp(s, c) == IF Stomped(s, c) THEN [s EXCEPT !.mode = "log", !.next = c.base] ELSE s
Inserted(c) ==
  IF IsFull(c) THEN [start |-> c.start + 1, end |-> c.end + 1, base |-> c.base + 1]
               ELSE [c EXCEPT !.end = @ + 1]

(* nbMsgCacheInsert: subscribers that are neither paused nor reading the   *)
(* log are served, the newest first, all into the buffer of one peer; one  *)
(* that has sent anything is not left paused.                              *)
Nobody == [subs |-> <<>>, sent |-> <<>>, stale |-> FALSE, exit |-> FALSE]
Joined(s, r, rest) ==
  [subs |-> <<[r.sub EXCEPT !.paused = @ /\ (s.paused \/ r.sent = <<>>)]>> \o rest.subs,
   sent |-> rest.sent \o r.sent,
   stale |-> rest.stale \/ (rest.subs # <<>> /\ r.sent # <<>>),
   exit |-> rest.exit \/ r.exit]
ServedOne(s, c, room, rest) ==
  IF s.paused \/ s.mode = "log" THEN Joined(s, Result(s, <<>>, FALSE), rest)
  ELSE Joined(s, Publish(s, c, room - Len(rest.sent)), rest)
Served(room) ==
  LET served[n \in 0..Len(subs)] ==
        IF n = 0 THEN Nobody
        ELSE ServedOne(AfterStomp(subs[Len(subs) + 1 - n], cache), Inserted(cache), room,
                       served[n - 1])
  IN  served[Len(subs)]
============================================================================
