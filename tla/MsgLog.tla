------------------------------- MODULE MsgLog -------------------------------
(* One message log of nbmsg.c: the files of a node's log directory, the    *)
(* program that writes them (nbMsgLogWrite, and nbMsgLogFileCreate when a  *)
(* file is full), and the programs that follow them with a cursor file     *)
(* (NB_MSG_MODE_CURSOR), from the datagrams the producer sends and, when   *)
(* one is missed or the poll timer fires, from the files.  Each program    *)
(* may stop at any step and be started again; nbMsgLogPrune may remove old *)
(* files.  Only record counts are kept of the records, and idx counts      *)
(* records where the code counts bytes.                                    *)
EXTENDS Integers, Sequences, FiniteSets

CONSTANTS
  Consumer,     \* the names of the consumers
  Never,        \* a cursor file that does not exist yet
  PerFile,      \* bound: records in a file (maxfilesize)
  MaxRecords,   \* bound: records written
  Quarter,      \* a quarter of the range of a count (2^30)
  Before,       \* the count before the first record
  QueueMax,     \* datagrams a socket holds before sendto() is refused
  Limit,        \* records handled before nbMsgUdpRead returns (500)
  MaxStops,     \* bound: times a program is stopped
  MaxPrunes     \* bound: prune commands

ASSUME BoundsAssumption ==
  /\ PerFile \in Nat \ {0} /\ MaxRecords \in Nat \ {0}
  /\ QueueMax \in Nat \ {0} /\ Limit \in Nat \ {0}
  /\ Quarter \in Nat /\ Before \in Nat /\ MaxRecords < Quarter - 1
  /\ MaxStops \in Nat /\ MaxPrunes \in Nat
ASSUME NeverAssumption ==
  Never \notin Nat /\ Never \notin [file : Nat, idx : Nat, count : Nat]

VARIABLES
  file,         \* file[f]: what is on disk as f.msg
  link,         \* the file <node>.msg points to, 0 when there is no link
  writer,       \* the producer's step, file and record count
  registered,   \* the producer's list of consumers
  request,      \* subscriptions waiting in the producer's socket ~.socket
  con,          \* con[c]: consumer c's msglog structure and step
  queue,        \* queue[c]: the datagrams in its socket
  cursor,       \* cursor[c]: its cursor file
  socket,       \* socket[c]: whether its socket has a name in the directory
  done,         \* done[c]: the count of the last record its handler saw
  top,          \* history: the highest count it ever saw
  stops, prunes \* history: how often a program stopped, files were pruned

vars == <<file, link, writer, registered, request, con, queue, cursor, socket,
          done, top, stops, prunes>>
disk == <<file, link>>
production == <<writer, registered, request>>
consumption == <<con, queue, cursor, socket, done, top>>
handed == <<done, top>>
history == <<stops, prunes>>

Files == 1..(MaxRecords + 2)
NoFile == [exists |-> FALSE, headed |-> FALSE, base |-> 0, recs |-> <<>>, footed |-> FALSE]
Idle == [at |-> "down", file |-> 0, idx |-> 0, mode |-> "step", count |-> 0,
         timer |-> FALSE, got |-> FALSE, limit |-> 0]
Up(c) == con[c].at \notin {"down", "exit"}
Listening(c) == Up(c) /\ con[c].at \notin {"reading", "listen"}
FinalCount(f) == IF file[f].recs = <<>> THEN file[f].base ELSE file[f].recs[Len(file[f].recs)]

(* nbMsgFileCreateLinked: a header with an empty state.                    *)
FirstFile == [NoFile EXCEPT !.exists = TRUE, !.headed = TRUE]

(* nbMsgLogInitialize made the directory, with one file.                   *)
Init ==
  /\ file = [f \in Files |-> IF f = 1 THEN FirstFile ELSE NoFile]
  /\ link = 1
  /\ writer = [at |-> "down", file |-> 0, count |-> 0]
  /\ registered = {} /\ request = {}
  /\ con = [c \in Consumer |-> Idle]
  /\ queue = [c \in Consumer |-> <<>>]
  /\ cursor = [c \in Consumer |-> Never]
  /\ socket = [c \in Consumer |-> FALSE]
  /\ done = [c \in Consumer |-> Never]
  /\ top = [c \in Consumer |-> Never]
  /\ stops = 0 /\ prunes = 0

-----------------------------------------------------------------------------
(* The producer.  Between two of its steps other programs may run, or it   *)
(* may stop.                                                               *)

(* Mutant: it goes on from the header's count without reading.  *)
ProduceUnread ==
  /\ writer.at = "down" /\ link # 0 /\ file[link].headed
  /\ writer' = [at |-> "ready", file |-> link, count |-> file[link].base]
  /\ registered' = {c \in Consumer : socket[c]}
  /\ request' = {}
  /\ UNCHANGED <<disk, consumption, history>>

(* producerEnable: nbMsgLogOpen, nbMsgLogRead to the end of the log and    *)
(* nbMsgLogProduce, which registers every consumer with a socket.          *)
Produce ==
  /\ writer.at = "down" /\ link # 0 /\ file[link].headed
  /\ writer' = [at |-> "ready", file |-> link, count |-> FinalCount(link)]
  /\ registered' = {c \in Consumer : socket[c]}
  /\ request' = {}
  /\ UNCHANGED <<disk, consumption, history>>

Step(from, to) == writer.at = from /\ writer' = [writer EXCEPT !.at = to]

Full(f) == Len(file[f].recs) >= PerFile

Write ==
  /\ writer.count < MaxRecords
  /\ Step("ready", IF Full(writer.file) THEN "create" ELSE "record")
  /\ UNCHANGED <<disk, registered, request, consumption, history>>

(* nbMsgLogFileCreate goes on only when the link names the active file.    *)
CreateFile ==
  /\ writer.at = "create" /\ link = writer.file
  /\ writer' = [writer EXCEPT !.at = "unlink", !.file = @ + 1]
  /\ file' = [file EXCEPT ![writer.file + 1].exists = TRUE]
  /\ UNCHANGED <<link, registered, request, consumption, history>>

RemoveLink ==
  /\ Step("unlink", "symlink") /\ link' = 0
  /\ UNCHANGED <<file, registered, request, consumption, history>>

MakeLink ==
  /\ Step("symlink", "header") /\ link' = writer.file
  /\ UNCHANGED <<file, registered, request, consumption, history>>

WriteHeader ==
  /\ Step("header", "footer")
  /\ file' = [file EXCEPT ![writer.file].headed = TRUE, ![writer.file].base = writer.count]
  /\ UNCHANGED <<link, registered, request, consumption, history>>

(* Back in nbMsgLogWrite: the footer ends the file before.                 *)
WriteFooter ==
  /\ Step("footer", "record")
  /\ file' = [file EXCEPT ![writer.file - 1].footed = TRUE]
  /\ UNCHANGED <<link, registered, request, consumption, history>>

WriteRecord ==
  /\ writer.at = "record"
  /\ writer' = [writer EXCEPT !.at = "send", !.count = @ + 1]
  /\ file' = [file EXCEPT ![writer.file].recs = Append(@, writer.count + 1)]
  /\ UNCHANGED <<link, registered, request, consumption, history>>

(* nbMsgConsumerSend: a consumer whose socket refuses the datagram, because *)
(* it is full or nobody listens, is taken off the list.                     *)
Accepts(c) == Listening(c) /\ Len(queue[c]) < QueueMax
Datagram == [file |-> writer.file, idx |-> Len(file[writer.file].recs), count |-> writer.count]
Send ==
  /\ Step("send", "ready")
  /\ queue' = [c \in Consumer |-> IF c \in registered /\ Accepts(c)
                                  THEN Append(queue[c], Datagram) ELSE queue[c]]
  /\ registered' = {c \in registered : Accepts(c)}
  /\ UNCHANGED <<disk, request, con, cursor, socket, handed, history>>

(* nbMsgProducerUdpRead: a subscription is read, a known name ignored.     *)
Register(c) ==
  /\ writer.at = "ready" /\ c \in request
  /\ registered' = registered \cup {c}
  /\ request' = request \ {c}
  /\ UNCHANGED <<disk, writer, consumption, history>>

StopProducer ==
  /\ writer.at # "down" /\ stops < MaxStops
  /\ writer' = [at |-> "down", file |-> 0, count |-> 0]
  /\ registered' = {} /\ request' = {}
  /\ stops' = stops + 1
  /\ UNCHANGED <<disk, consumption, prunes>>

-----------------------------------------------------------------------------
(* Consumers.                                                              *)

Become(c, r) == con' = [con EXCEPT ![c] = r]

(* nbMsgLogOpen in cursor mode: from the cursor file, or, when there is    *)
(* none, from the start of the last file, where the first cursor is put.   *)
Open(c) ==
  /\ ~Up(c) /\ link # 0
  /\ LET start == IF cursor[c] # Never THEN cursor[c]
                  ELSE [file |-> link, idx |-> 0, count |-> file[link].base]
     IN /\ cursor[c] = Never => file[link].headed
        /\ Become(c, [Idle EXCEPT !.at = "reading", !.file = start.file, !.idx = start.idx,
                        !.count = start.count,
                        !.mode = IF cursor[c] = Never THEN "step" ELSE "logend"])
        /\ cursor' = [cursor EXCEPT ![c] = start]
        /\ IF cursor[c] # Never THEN UNCHANGED handed
           ELSE /\ done' = [done EXCEPT ![c] = start.count]
                /\ top' = [top EXCEPT ![c] = start.count]
  /\ UNCHANGED <<disk, production, queue, socket, history>>

(* What nbMsgLogRead finds where it is.  A file that is open is still read *)
(* when it was removed.                                                    *)
Found(r) ==
  LET f == IF r.mode = "filend" THEN r.file + 1 ELSE r.file
      i == IF r.mode = "filend" THEN 0 ELSE r.idx
  IN IF f \notin Files \/ (r.mode # "step" /\ ~(file[f].exists /\ file[f].headed)) THEN "error"
     ELSE IF i < Len(file[f].recs) THEN "record"
     ELSE IF file[f].footed THEN "filend" ELSE "logend"
Handling == [reading |-> "reading+handle", poll |-> "poll+handle", missed |-> "missed+handle"]
Reading(c) == con[c].at \in DOMAIN Handling
At(r) == IF r.mode = "filend" THEN [r EXCEPT !.file = @ + 1, !.idx = 0] ELSE r

CursorOf(r) == [file |-> r.file, idx |-> r.idx, count |-> r.count]

(* Mutant: the cursor names the record after this one.       *)
ReadCursorBehind(r, n) == [file |-> r.file, idx |-> r.idx + 1, count |-> n]
ReadCursor(r, n) == CursorOf(r)

(* A record: the cursor file is written with its position, then            *)
(* nbMsgLogSetState compares the count.  A record out of sequence is       *)
(* passed over while starting (nbMsgLogConsume) and fatal afterwards       *)
(* (nbMsgLogProcess).                                                      *)
ReadRecord(c) ==
  /\ Reading(c) /\ Found(con[c]) = "record"
  /\ LET r == At(con[c])
         n == file[r.file].recs[r.idx + 1]
         next == [r EXCEPT !.mode = "step", !.idx = @ + 1]
     IN /\ cursor' = [cursor EXCEPT ![c] = ReadCursor(r, n)]
        /\ Become(c, CASE n = r.count + 1 -> [next EXCEPT !.count = n, !.got = TRUE, !.at = Handling[@]]
                       [] n # r.count + 1 /\ r.at = "reading" -> next
                       [] OTHER -> [Idle EXCEPT !.at = "exit"])
        /\ queue' = [queue EXCEPT ![c] = IF con'[c].at = "exit" THEN <<>> ELSE @]
  /\ UNCHANGED <<disk, production, socket, handed, history>>

Hand(c, n) ==
  /\ done' = [done EXCEPT ![c] = n]
  /\ top' = [top EXCEPT ![c] = IF n > @ THEN n ELSE @]

Handle(c) ==
  /\ \E a \in DOMAIN Handling :
       con[c].at = Handling[a] /\ Become(c, [con[c] EXCEPT !.at = a, !.limit = IF a = "missed" THEN @ - 1 ELSE @])
  /\ Hand(c, con[c].count)
  /\ UNCHANGED <<disk, production, queue, cursor, socket, history>>

ReadFooter(c) ==
  /\ Reading(c) /\ Found(con[c]) = "filend"
  /\ Become(c, [At(con[c]) EXCEPT !.mode = "filend"])
  /\ UNCHANGED <<disk, production, queue, cursor, socket, handed, history>>

(* nbMsgLogSubscribe: refused when the producer is not listening.          *)
Subscribe(c) == request' = IF writer.at = "down" THEN request ELSE request \cup {c}

(* The end of the log, or a file that cannot be opened: -1 has the LOGEND  *)
(* bit set, so the callers take it for the end; the file counter has       *)
(* moved on.                                                               *)
ReadEnd(c) ==
  /\ Reading(c) /\ Found(con[c]) \in {"logend", "error"}
  /\ LET r == [At(con[c]) EXCEPT !.mode = IF Found(con[c]) = "logend" THEN "logend" ELSE @]
     IN \/ /\ r.at = "reading"
           /\ Become(c, [r EXCEPT !.at = "listen", !.got = FALSE])
           /\ UNCHANGED <<request, queue>>
        \/ /\ r.at = "poll"
           /\ Become(c, [r EXCEPT !.at = "idle", !.timer = TRUE, !.got = FALSE])
           /\ IF r.got THEN Subscribe(c) ELSE UNCHANGED request
           /\ UNCHANGED queue
        \/ /\ r.at = "missed" /\ r.got
           /\ Become(c, [r EXCEPT !.at = "udp"])
           /\ UNCHANGED <<request, queue>>
        \/ /\ r.at = "missed" /\ ~r.got
           /\ Become(c, [Idle EXCEPT !.at = "exit"])
           /\ queue' = [queue EXCEPT ![c] = <<>>]
           /\ UNCHANGED request
  /\ UNCHANGED <<disk, writer, registered, cursor, socket, handed, history>>

(* The end of nbMsgLogConsume: the socket, the timer, the subscription.    *)
Listen(c) ==
  /\ con[c].at = "listen"
  /\ Become(c, [con[c] EXCEPT !.at = "idle", !.timer = TRUE])
  /\ socket' = [socket EXCEPT ![c] = TRUE]
  /\ queue' = [queue EXCEPT ![c] = <<>>]
  /\ Subscribe(c)
  /\ UNCHANGED <<disk, writer, registered, cursor, handed, history>>

Poll(c) ==
  /\ con[c].at = "idle" /\ con[c].timer
  /\ con[c].file \in Files   \* bound: a file that is gone makes fileCount grow
  /\ Become(c, [con[c] EXCEPT !.at = "poll", !.timer = FALSE, !.got = FALSE])
  /\ UNCHANGED <<disk, production, queue, cursor, socket, handed, history>>

(* nbMsgUdpRead: called when there is a datagram; it first cancels the     *)
(* timer and then takes datagrams until there is none or Limit is reached. *)
UdpRead(c) ==
  /\ con[c].at = "idle" /\ queue[c] # <<>>
  /\ Become(c, [con[c] EXCEPT !.at = "udp", !.timer = FALSE, !.limit = Limit])
  /\ UNCHANGED <<disk, production, queue, cursor, socket, handed, history>>

(* Mutant: the poll timer stays cancelled.                     *)
UdpEmptyNoTimer(c) ==
  /\ con[c].at = "udp" /\ queue[c] = <<>>
  /\ Become(c, [con[c] EXCEPT !.at = "idle", !.limit = 0, !.got = FALSE])
  /\ UNCHANGED <<disk, production, queue, cursor, socket, handed, history>>

UdpEmpty(c) ==
  /\ con[c].at = "udp" /\ queue[c] = <<>>
  /\ Become(c, [con[c] EXCEPT !.at = "idle", !.timer = TRUE, !.limit = 0, !.got = FALSE])
  /\ UNCHANGED <<disk, production, queue, cursor, socket, handed, history>>

(* Counts wrap around; the model numbers the records and the code sees     *)
(* Wire(n).  nbMsgCountCompare orders counts less than a quarter apart.    *)
Wire(n) == (Before + n) % (4 * Quarter)
(* Mutant: a plain comparison.                             *)
CountCompareFlat(a, b) == IF a = b THEN 0 ELSE IF a < b THEN -1 ELSE 1
CountCompare(a, b) ==
  CASE a = b -> 0
    [] a > 3 * Quarter /\ b < Quarter - 1 -> -1
    [] b > 3 * Quarter /\ a < Quarter - 1 -> 1
    [] OTHER -> IF a < b THEN -1 ELSE 1
Ahead(c) == CountCompare(Wire(Head(queue[c]).count), Wire(con[c].count))
NextInLine(c) == Wire(Head(queue[c]).count) = Wire(con[c].count + 1)

UdpLow(c) ==
  /\ con[c].at = "udp" /\ queue[c] # <<>> /\ ~NextInLine(c) /\ Ahead(c) <= 0
  /\ queue' = [queue EXCEPT ![c] = Tail(@)]
  /\ UNCHANGED <<disk, production, con, cursor, socket, handed, history>>

UdpHigh(c) ==
  /\ con[c].at = "udp" /\ queue[c] # <<>> /\ ~NextInLine(c) /\ Ahead(c) = 1
  /\ IF con[c].mode = "logend"
     THEN /\ Become(c, [con[c] EXCEPT !.at = "missed", !.got = FALSE])
          /\ queue' = [queue EXCEPT ![c] = Tail(@)]
     ELSE /\ Become(c, [Idle EXCEPT !.at = "exit"])
          /\ queue' = [queue EXCEPT ![c] = <<>>]
  /\ UNCHANGED <<disk, production, cursor, socket, handed, history>>

FileAfter(r, d) == IF d.file > r.file THEN d.file ELSE r.file

(* The next record: the handler is called, and the position moves behind   *)
(* the record, in the next file when the datagram says so.                 *)
UdpHandle(c) ==
  /\ con[c].at = "udp" /\ queue[c] # <<>> /\ NextInLine(c)
  /\ LET d == Head(queue[c])
     IN /\ Become(c, [con[c] EXCEPT !.at = "udp+cursor", !.count = d.count,
                        !.file = FileAfter(con[c], d), !.idx = d.idx])
        /\ Hand(c, d.count)
  /\ queue' = [queue EXCEPT ![c] = Tail(@)]
  /\ UNCHANGED <<disk, production, cursor, socket, history>>

UdpCursor(c) ==
  /\ con[c].at = "udp+cursor"
  /\ LET r == con[c]
         over == r.limit <= 1
     IN /\ Become(c, [r EXCEPT !.at = IF over THEN "idle" ELSE "udp", !.timer = over,
                               !.limit = IF over THEN 0 ELSE @ - 1])
        /\ cursor' = [cursor EXCEPT ![c] = CursorOf(r)]
  /\ UNCHANGED <<disk, production, queue, socket, handed, history>>

StopConsumer(c) ==
  /\ Up(c) /\ stops < MaxStops
  /\ Become(c, Idle)
  /\ queue' = [queue EXCEPT ![c] = <<>>]
  /\ stops' = stops + 1
  /\ UNCHANGED <<disk, production, cursor, socket, handed, prunes>>

-----------------------------------------------------------------------------
(* nbMsgLogPrune: walks back from the active file to the first one older   *)
(* than the given age, flags it as the first and removes those before it.  *)
Prune(f) ==
  /\ prunes < MaxPrunes /\ link # 0 /\ f <= link
  /\ \A g \in f..link : file[g].exists /\ file[g].headed
  /\ file[f - 1].exists
  /\ file' = [g \in Files |-> IF g < f THEN [file[g] EXCEPT !.exists = FALSE] ELSE file[g]]
  /\ prunes' = prunes + 1
  /\ UNCHANGED <<link, production, consumption, stops>>

ProducerStep == Write \/ CreateFile \/ RemoveLink \/ MakeLink \/ WriteHeader \/ WriteFooter
                \/ WriteRecord \/ Send \/ \E c \in Consumer : Register(c)
ConsumerStep(c) ==
  \/ ReadRecord(c) \/ Handle(c) \/ ReadFooter(c) \/ ReadEnd(c) \/ Listen(c) \/ Poll(c)
  \/ UdpRead(c) \/ UdpEmpty(c) \/ UdpLow(c) \/ UdpHigh(c) \/ UdpHandle(c) \/ UdpCursor(c)

Next ==
  \/ Produce \/ ProducerStep \/ StopProducer
  \/ \E c \in Consumer : Open(c) \/ ConsumerStep(c) \/ StopConsumer(c)
  \/ \E f \in Files \ {1} : Prune(f)

Spec == Init /\ [][Next]_vars

(* A program that runs takes its steps: the medulla calls the listener of  *)
(* a socket with data and the alarm of a timer that is due.                *)
FairSpec == Spec /\ WF_vars(ProducerStep) /\ \A c \in Consumer : WF_vars(ConsumerStep(c))

-----------------------------------------------------------------------------
Places == {"down", "exit", "reading", "poll", "missed", "reading+handle", "poll+handle",
           "missed+handle", "listen", "idle", "udp", "udp+cursor"}
Position == [file : 1..(MaxRecords + 4), idx : 0..PerFile, count : 0..MaxRecords]

(* The directory, the producer and the consumers hold what the code keeps. *)
TypeOK ==
  /\ file \in [Files -> [exists : BOOLEAN, headed : BOOLEAN, base : 0..MaxRecords,
                         recs : UNION {[1..n -> 1..MaxRecords] : n \in 0..PerFile},
                         footed : BOOLEAN]]
  /\ link \in 0..(MaxRecords + 2)
  /\ writer.at \in {"down", "ready", "create", "unlink", "symlink", "header", "footer",
                     "record", "send"}
  /\ writer.file \in 0..(MaxRecords + 2) /\ writer.count \in 0..MaxRecords
  /\ registered \subseteq Consumer /\ request \subseteq Consumer
  /\ \A c \in Consumer :
       /\ con[c].at \in Places /\ con[c].mode \in {"step", "logend", "filend"}
       /\ con[c].count \in 0..MaxRecords
       /\ done[c] \in 0..MaxRecords \cup {Never} /\ top[c] \in 0..MaxRecords \cup {Never}
       /\ con[c].timer \in BOOLEAN /\ con[c].got \in BOOLEAN
       /\ Len(queue[c]) <= QueueMax
       /\ cursor[c] \in Position \cup {Never}

(* All that is stored, file after file.                                    *)
Stored == UNION {{<<f, i>> : i \in 1..Len(file[f].recs)} : f \in Files}
Record(p) == file[p[1]].recs[p[2]]

(* The files together hold each count once and in order, however often the *)
(* producer stopped in the middle of starting a file.                      *)
Consecutive ==
  /\ {Record(p) : p \in Stored} = 1..Cardinality(Stored)
  /\ \A p, q \in Stored : p[1] < q[1] \/ (p[1] = q[1] /\ p[2] < q[2]) => Record(p) < Record(q)

(* A file was started and the producer stopped before it ended the one     *)
(* before: nobody writes the footer any more.                              *)
FooterLost ==
  \E f \in Files : /\ f + 1 \in Files /\ file[f + 1].headed /\ ~file[f].footed
                   /\ ~(writer.at = "footer" /\ writer.file = f + 1)

(* "Lost message not found in message log - terminating" (and the other    *)
(* exits of nbMsgUdpRead and nbMsgLogProcess) cannot happen while every    *)
(* file that was ended has its footer and none was removed.                *)
NoConsumerExits ==
  (\E c \in Consumer : con[c].at = "exit") => FooterLost \/ prunes > 0

(* The files hold what was logged, and followers find their way in them    *)
(* whenever the producer stopped and the count wrapped around.             *)
LogSound == TypeOK /\ Consecutive /\ NoConsumerExits

(* The log and its consumers as a stream.                                  *)
Stream == INSTANCE MsgStream WITH
  MaxRedo <- 2,
  produced <- Cardinality(Stored)

(* Every consumer is handed consecutive records, none before it is in the  *)
(* log and none left out; stopping it repeats at most two.                 *)
ImplementsStream == Stream!Spec

(* A consumer that keeps running catches up, also when its datagrams were  *)
(* refused and it was taken off the list, as long as no footer is lost and *)
(* no file removed.                                                        *)
CatchesUp ==
  \A c \in Consumer :
    <>[](Up(c) /\ ~FooterLost /\ prunes = 0)
      => <>[](done[c] = Cardinality(Stored))
============================================================================
