------------------------------ MODULE Medulla ------------------------------
(* The Medulla (nbmedulla.c, on Unix) and its child processes: those of    *)
(* servant nodes (nb_servant.c), which also read messages, and those of    *)
(* the commands "=" and "-" (nbspawn.c), where "-" waits for its child.    *)
(* The pulse calls the scheduler, waits in select, calls the handlers of   *)
(* the files that are ready, collects the children that have ended if      *)
(* SIGCHLD told of any, and drops the handlers that asked for it.  Every   *)
(* line a child writes is a command, which may spawn a child, send a       *)
(* message to a servant, or stop the program.  A process is closed when    *)
(* its child has ended and both of its files are at their end, in any      *)
(* order.  Children write, read, end, and close their files at any time.   *)
EXTENDS Integers, Sequences, SequencesExt, FiniteSetsExt

CONSTANTS
  Servants,     \* processes of servant nodes:  |=|: command
  Jobs,         \* processes of the command  =|: command
  Waited,       \* processes of the command  -|: command
  Loads,        \* the executions: the lines that each process writes to each of
                \* its files, at most, the processes that may be opened, and the
                \* commands that come from elsewhere (the scheduler) (bounds)
  Capacity,     \* the room of a pipe, in messages or half lines
  Page,         \* the room of a buffer, in messages (NB_BUFSIZE)
  ChildMax,     \* nb_medulla_child_max
  NoOne

Proc == Servants \cup Jobs \cup Waited
Out == {"get", "log"}
File == Out \cup {"put"}

ASSUME MedullaAssumption ==
  /\ Servants \cap Jobs = {} /\ Waited \cap (Servants \cup Jobs) = {} /\ {NoOne, "free"} \cap Proc = {}
  /\ Loads \subseteq [lines : [Proc -> [Out -> Nat]], opened : SUBSET Proc, orders : Nat]
  /\ Capacity \in Nat \ {0} /\ Page \in Nat \ {0} /\ ChildMax \in Nat

VARIABLES
  life,         \* the children: none, running, zombie (ended) or reaped
  ends,         \* the ends of its pipes that a child, or one of its own
                \* children, has open
  busy,         \* the file of which a child has written half a line, or NoOne
  pipe,         \* written and read: what has been put into each pipe and taken
                \* from it
  sigchld,      \* nb_medulla_sigchld
  proc,         \* the processes: status, ended, fd of each file, or -1, queue
                \* (of stdin: the messages in each buffer), writer (writerEnabled),
                \* handed: the lines given to the consumer and the logger
  count,        \* nb_medulla_child_count
  handlers,     \* nb_medulla->handler: type, fd, process and file, close
  fdset,        \* readfds and writefds: types and fds
  left,         \* the entries of handlers the pulse has still to visit
  at,           \* the place in nbMedullaPulse, or after it
  calls,        \* what is going on inside a handler or a command, the innermost
                \* last: lines handed over, a write, or a wait for a child
  serving,      \* nb_medulla->serving
  servant,      \* what is in the block that servant->process points to: NoOne
                \* before the servant is enabled, its process, "free" once that
                \* is freed, or the process that was given the block after it
  load,         \* the execution
  orders        \* history: the commands that came from elsewhere

kernel == <<life, ends, busy, pipe, sigchld>>
watching == <<handlers, fdset>>
given == <<load, orders>>
vars == <<kernel, proc, count, watching, left, at, calls, serving, servant, given>>

Init ==
  /\ life = [p \in Proc |-> "none"] /\ ends = [p \in Proc |-> {}] /\ busy = [p \in Proc |-> NoOne]
  /\ pipe = [p \in Proc |-> [f \in File |-> [written |-> 0, read |-> 0]]] /\ sigchld = FALSE
  /\ proc = [p \in Proc |-> [status |-> "unused", ended |-> FALSE, fd |-> [f \in File |-> -1],
                             queue |-> <<>>, writer |-> FALSE, handed |-> [f \in Out |-> 0]]]
  /\ count = 0 /\ handlers = <<>> /\ fdset = {} /\ left = 0 /\ at = "commands" /\ calls = <<>>
  /\ serving = TRUE /\ servant = [s \in Servants |-> NoOne] /\ load \in Loads /\ orders = 0

-----------------------------------------------------------------------------
(* Pipes.                                                                  *)
Content(p, f) == pipe[p][f].written - pipe[p][f].read
Room(p, f) == Capacity - Content(p, f)
Written(p, f, n) == [pipe EXCEPT ![p][f].written = @ + n]
Taken(p, f, n) == [pipe EXCEPT ![p][f].read = @ + n]
(* What select reports and a read or write does not wait for: data, room,  *)
(* or the other end closed.                                                *)
Ready(p, f) ==
  \/ f \notin ends[p]
  \/ IF f = "put" THEN Room(p, f) > 0 ELSE Content(p, f) > 0
(* Mutant: a file is at its end when the other end is closed.              *)
AtEndClosed(p, f) == f \notin ends[p]
AtEnd(p, f) == f \notin ends[p] /\ Content(p, f) = 0

(* The children.  One that has written half a line does nothing else       *)
(* before the other half; what it has open, its own children may keep open *)
(* when it ends.                                                           *)
ChildWrites(p, f) ==
  /\ f \in ends[p] /\ busy[p] \in {NoOne, f} /\ Room(p, f) > 0
  /\ pipe[p][f].written < 2 * load.lines[p][f]
  /\ pipe' = Written(p, f, 1)
  /\ busy' = [busy EXCEPT ![p] = IF @ = f THEN NoOne ELSE f]
  /\ UNCHANGED <<life, ends, sigchld, proc, count, watching, left, at, calls, serving, servant, given>>

ChildReads(p) ==
  /\ "put" \in ends[p] /\ busy[p] = NoOne /\ Content(p, "put") > 0
  /\ pipe' = Taken(p, "put", 1)
  /\ UNCHANGED <<life, ends, busy, sigchld, proc, count, watching, left, at, calls, serving, servant, given>>

ChildEnds(p) ==
  /\ life[p] = "running" /\ life' = [life EXCEPT ![p] = "zombie"] /\ sigchld' = TRUE
  /\ \E e \in {ends[p], {}} : ends' = [ends EXCEPT ![p] = e]
  /\ UNCHANGED <<busy, pipe, proc, count, watching, left, at, calls, serving, servant, given>>

ChildHangsUp(p) ==
  /\ ends[p] # {} /\ ends' = [ends EXCEPT ![p] = {}]
  /\ UNCHANGED <<life, busy, pipe, sigchld, proc, count, watching, left, at, calls, serving, servant, given>>

-----------------------------------------------------------------------------
(* The list of handlers.  A file is watched for reading (type 0) or for    *)
(* writing (type 1).                                                       *)
Type(f) == IF f = "put" THEN 1 ELSE 0
Entry(p, f, d) == [type |-> Type(f), fd |-> d, process |-> p, file |-> f, close |-> FALSE]
Same(e, t, d) == e.type = t /\ e.fd = d

(* Mutant: a new entry comes last.                                         *)
nbMedullaWaitEnableLast(list, e) ==
  IF \E i \in DOMAIN list : Same(list[i], e.type, e.fd)
  THEN [i \in DOMAIN list |-> IF Same(list[i], e.type, e.fd) THEN e ELSE list[i]]
  ELSE Append(list, e)
(* An entry for the same file, dropped or not, is taken over where it is;  *)
(* a new one comes first, before those the pulse has still to visit.       *)
nbMedullaWaitEnable(list, e) ==
  IF \E i \in DOMAIN list : Same(list[i], e.type, e.fd)
  THEN [i \in DOMAIN list |-> IF Same(list[i], e.type, e.fd) THEN e ELSE list[i]]
  ELSE <<e>> \o list
nbMedullaWaitDisable(list, t, d) ==
  [i \in DOMAIN list |-> IF Same(list[i], t, d) THEN [list[i] EXCEPT !.close = TRUE] ELSE list[i]]

(* The files of a new process get the lowest numbers that are free; the    *)
(* child's ends, which the parent closes at once, take some as well.       *)
InUse == {proc[p].fd[f] : p \in Proc, f \in File}
Lowest(n, used) == Min({d \in 0..(n + Cardinality(used)) : Cardinality((0..d) \ used) = n})
FreeFd(n) == Lowest(n, InUse)
NewFds(p) ==
  IF p \in Servants THEN [put |-> FreeFd(2), get |-> FreeFd(3), log |-> FreeFd(5)]
  ELSE [put |-> -1, get |-> FreeFd(2), log |-> FreeFd(4)]

(* What a call of the program is doing inside a handler or a command.      *)
Call(op, p, f, n) == [op |-> op, process |-> p, file |-> f, left |-> n]
Idle == calls = <<>>
Doing(op) == calls # <<>> /\ Last(calls).op = op
Done == Front(calls)
Begun(c) == Append(calls, c)
Command == Call("command", NoOne, NoOne, 0)

(* nbMedullaProcessClose, when both conditions for it are there: the       *)
(* process is taken off the list and freed.                                *)
CloseIf(b, p, pr) ==
  /\ proc' = [proc EXCEPT ![p] = IF b THEN [pr EXCEPT !.status = "closed"] ELSE pr]
  /\ count' = IF b THEN count - 1 ELSE count
  /\ servant' = [s \in Servants |-> IF b /\ servant[s] = p THEN "free" ELSE servant[s]]

-----------------------------------------------------------------------------
(* Commands: they come from lines and from the scheduler, and change       *)
(* nothing here, or what follows.                                          *)
OtherCommand ==
  /\ Doing("command") /\ calls' = Done
  /\ UNCHANGED <<kernel, proc, count, watching, left, at, serving, servant, given>>

nbCmdStop ==
  /\ Doing("command") /\ calls' = Done /\ serving' = FALSE
  /\ UNCHANGED <<kernel, proc, count, watching, left, at, servant, given>>

(* The messages of a buffer are written together.                          *)
nbMedullaQueuePut(q) == IF q = <<>> \/ Last(q) = Page THEN Append(q, 1) ELSE Front(q) \o <<Last(q) + 1>>
nbMedullaProcessPut(p) ==
  /\ proc' = [proc EXCEPT ![p].queue = nbMedullaQueuePut(@), ![p].writer = TRUE]
  /\ IF proc[p].writer THEN UNCHANGED watching
     ELSE /\ handlers' = nbMedullaWaitEnable(handlers, Entry(p, "put", proc[p].fd["put"]))
          /\ fdset' = fdset \cup {<<1, proc[p].fd["put"]>>}

(* A message to a servant.  It is for whatever the block holds now: a      *)
(* freed one still says that it has ended, one of a process without stdin  *)
(* has no queue, and the program fails.                                    *)
servantCommand(s) ==
  /\ Doing("command") /\ servant[s] \in Proc /\ ~proc[servant[s]].ended /\ calls' = Done
  /\ \/ servant[s] \in Servants /\ nbMedullaProcessPut(servant[s]) /\ UNCHANGED at
     \/ servant[s] \notin Servants /\ at' = "crashed" /\ UNCHANGED <<proc, watching>>
  /\ UNCHANGED <<kernel, count, left, serving, servant, given>>

(* A process is opened, and watched unless the command waits for it.  Its  *)
(* block may be one that a servant still points to.                        *)
Files(p) == IF p \in Waited THEN {} ELSE IF p \in Servants THEN File ELSE Out
Watched(p, fds) ==
  LET With(list, f) == IF f \in Files(p) THEN nbMedullaWaitEnable(list, Entry(p, f, fds[f])) ELSE list
  IN  With(With(With(handlers, "put"), "get"), "log")
Points(p) ==
  {h \in [Servants -> Proc \cup {NoOne, "free"}] :
     \A s \in Servants : \/ h[s] = IF s = p THEN p ELSE servant[s]
                         \/ s # p /\ servant[s] = "free" /\ h[s] = p}
nbSpawnChild(p) == calls' = IF p \in Waited THEN Append(Done, Call("wait", p, NoOne, 0)) ELSE Done
nbMedullaProcessOpen(p) ==
  /\ Doing("command") /\ p \in load.opened /\ proc[p].status = "unused" /\ count < ChildMax
  /\ LET fds == NewFds(p)
     IN  /\ proc' = [proc EXCEPT ![p].status = "open", ![p].fd = fds, ![p].writer = p \in Servants]
         /\ handlers' = Watched(p, fds)
         /\ fdset' = fdset \cup {<<Type(f), fds[f]>> : f \in Files(p)}
  /\ life' = [life EXCEPT ![p] = "running"]
  /\ ends' = [ends EXCEPT ![p] = IF p \in Servants THEN File ELSE Out]
  /\ count' = count + 1 /\ servant' \in Points(p)
  /\ nbSpawnChild(p)
  /\ UNCHANGED <<busy, pipe, sigchld, left, at, serving, given>>

-----------------------------------------------------------------------------
(* The lines that a read made whole go to the consumer, which runs them as *)
(* commands, or to the logger.                                             *)
Lines(p, f) == pipe[p][f].read \div 2
HandLine ==
  /\ Doing("lines")
  /\ LET c == Last(calls) p == c.process f == c.file
     IN  /\ proc[p].handed[f] < Lines(p, f)
         /\ proc' = [proc EXCEPT ![p].handed[f] = @ + 1]
         /\ calls' = IF f = "get" THEN Begun(Command) ELSE calls
  /\ UNCHANGED <<kernel, count, watching, left, at, serving, servant, given>>
HandedAll ==
  /\ Doing("lines") /\ LET c == Last(calls) IN proc[c.process].handed[c.file] = Lines(c.process, c.file)
  /\ calls' = Done
  /\ UNCHANGED <<kernel, proc, count, watching, left, at, serving, servant, given>>

(* A command that waits reads what its child writes until both files are   *)
(* at their end, and then waits for the child to end.                      *)
Open(p) == {f \in Out : proc[p].fd[f] # -1}
nbMedullaProcessReadBlocking(f) ==
  /\ Doing("wait")
  /\ LET p == Last(calls).process
     IN  /\ f \in Open(p)
         /\ \/ /\ Content(p, f) > 0
               /\ pipe' = Taken(p, f, Content(p, f)) /\ calls' = Begun(Call("lines", p, f, 0))
               /\ UNCHANGED proc
            \/ /\ AtEnd(p, f)
               /\ proc' = [proc EXCEPT ![p].fd[f] = -1]
               /\ UNCHANGED <<pipe, calls>>
  /\ UNCHANGED <<life, ends, busy, sigchld, count, watching, left, at, serving, servant, given>>
nbMedullaProcessWait ==
  /\ Doing("wait")
  /\ LET p == Last(calls).process
     IN  /\ Open(p) = {} /\ life[p] = "zombie"
         /\ life' = [life EXCEPT ![p] = "reaped"]
         /\ CloseIf(TRUE, p, [proc[p] EXCEPT !.ended = TRUE])
  /\ calls' = Done
  /\ UNCHANGED <<ends, busy, pipe, sigchld, watching, left, at, serving, given>>

-----------------------------------------------------------------------------
(* The pulse.  First the scheduler, and then select.                       *)
medullaScheduler ==
  /\ at = "commands" /\ Idle /\ serving /\ orders < load.orders
  /\ orders' = orders + 1 /\ calls' = Begun(Command)
  /\ UNCHANGED <<kernel, proc, count, watching, left, at, serving, servant, load>>

ReadyFds ==
  {<<e.type, e.fd>> : e \in {x \in ToSet(handlers) : <<x.type, x.fd>> \in fdset /\ Ready(x.process, x.file)}}
Select ==
  /\ at = "commands" /\ Idle /\ serving
  /\ fdset' = ReadyFds
  /\ IF ReadyFds = {} THEN at' = "collect" /\ left' = 0 ELSE at' = "visit" /\ left' = Len(handlers)
  /\ UNCHANGED <<kernel, proc, count, handlers, calls, serving, servant, given>>
Interrupted ==
  /\ at = "commands" /\ Idle /\ serving /\ sigchld /\ at' = "collect"
  /\ UNCHANGED <<kernel, proc, count, watching, left, calls, serving, servant, given>>
Stopped ==
  /\ at = "commands" /\ Idle /\ ~serving /\ at' = "final"
  /\ UNCHANGED <<kernel, proc, count, watching, left, calls, serving, servant, given>>

(* The handlers are called in the order of the list, those whose files are *)
(* in the set when their turn comes.                                       *)
ToVisit == {i \in DOMAIN handlers : i > Len(handlers) - left /\ <<handlers[i].type, handlers[i].fd>> \in fdset}
Turn == handlers[Min(ToVisit)]
Visiting == at = "visit" /\ Idle /\ ToVisit # {}
Passed == left' = Len(handlers) - Min(ToVisit)
Dropped == handlers' = [handlers EXCEPT ![Min(ToVisit)].close = TRUE]

nbMedullaProcessReader ==
  /\ Visiting /\ Turn.file \in Out /\ Content(Turn.process, Turn.file) > 0 /\ Passed
  /\ LET p == Turn.process f == Turn.file
     IN  pipe' = Taken(p, f, Content(p, f)) /\ calls' = Begun(Call("lines", p, f, 0))
  /\ UNCHANGED <<life, ends, busy, sigchld, proc, count, watching, at, serving, servant, given>>
(* Mutant: the end of a file never closes the process.                     *)
LastEndNever(p, f) == FALSE
(* At the end of a file it is closed, and with the last one the process,   *)
(* if it is known that the child has ended.                                *)
LastEnd(p, f) == proc[p].ended /\ Open(p) \subseteq {f}
nbMedullaProcessReaderEnd ==
  /\ Visiting /\ Turn.file \in Out /\ AtEnd(Turn.process, Turn.file) /\ Passed /\ Dropped
  /\ LET p == Turn.process f == Turn.file
     IN  CloseIf(LastEnd(p, f), p, [proc[p] EXCEPT !.fd[f] = -1])
  /\ UNCHANGED <<kernel, fdset, at, calls, serving, given>>

(* A buffer is written as a whole, which may take until the child has made *)
(* room for it; with no buffer to write the entry is dropped.              *)
nbMedullaProcessWriter ==
  /\ Visiting /\ Turn.file = "put" /\ Passed
  /\ LET p == Turn.process q == proc[p].queue
     IN  IF q = <<>>
         THEN Dropped /\ proc' = [proc EXCEPT ![p].writer = FALSE] /\ UNCHANGED calls
         ELSE calls' = Begun(Call("write", p, "put", Head(q))) /\ UNCHANGED <<proc, handlers>>
  /\ UNCHANGED <<kernel, count, fdset, at, serving, servant, given>>
Write ==
  /\ Doing("write")
  /\ LET c == Last(calls) p == c.process n == Min({c.left, Room(p, "put")})
     IN  IF "put" \notin ends[p] \/ n = c.left
         THEN /\ calls' = Done /\ proc' = [proc EXCEPT ![p].queue = Tail(@)]
              /\ pipe' = IF "put" \in ends[p] THEN Written(p, "put", n) ELSE pipe
         ELSE /\ n > 0 /\ pipe' = Written(p, "put", n)
              /\ calls' = Append(Done, [c EXCEPT !.left = @ - n]) /\ UNCHANGED proc
  /\ UNCHANGED <<life, ends, busy, sigchld, count, watching, left, at, serving, servant, given>>

VisitEnd ==
  /\ at = "visit" /\ Idle /\ ToVisit = {} /\ at' = "collect" /\ left' = 0
  /\ UNCHANGED <<kernel, proc, count, watching, calls, serving, servant, given>>

(* nbMedullaProcessHandler: children are collected as long as there are    *)
(* any that have ended; stdin is closed at once, and the process if both   *)
(* files are.  Only then is the flag that started it cleared.              *)
Collected(p) == [proc[p] EXCEPT !.ended = TRUE, !.fd["put"] = -1, !.queue = <<>>]
CollectChild(p) ==
  /\ Idle /\ life[p] = "zombie" /\ (at = "final" \/ (at = "collect" /\ sigchld))
  /\ life' = [life EXCEPT ![p] = "reaped"]
  /\ handlers' = IF proc[p].fd["put"] = -1 THEN handlers ELSE nbMedullaWaitDisable(handlers, 1, proc[p].fd["put"])
  /\ fdset' = fdset \ {<<1, proc[p].fd["put"]>>}
  /\ CloseIf(at # "final" /\ Open(p) = {}, p, Collected(p))
  /\ UNCHANGED <<ends, busy, pipe, sigchld, left, at, calls, serving, given>>
CollectedAll ==
  /\ at = "collect" /\ Idle /\ sigchld /\ (\A p \in Proc : life[p] # "zombie") /\ at' = "clear"
  /\ UNCHANGED <<kernel, proc, count, watching, left, calls, serving, servant, given>>

(* The elements of s at the places I, in their order.                      *)
Selected(s, I) ==
  [n \in 1..Cardinality(I) |-> s[CHOOSE i \in I : Cardinality({j \in I : j < i}) = n - 1]]

(* The list is rebuilt without the entries that were dropped.              *)
Rebuild ==
  /\ Idle /\ (at = "clear" \/ (at = "collect" /\ ~sigchld)) /\ at' = "commands"
  /\ sigchld' = FALSE
  /\ handlers' = Selected(handlers, {i \in DOMAIN handlers : ~handlers[i].close})
  /\ fdset' = {<<e.type, e.fd>> : e \in {x \in ToSet(handlers) : ~x.close}}
  /\ UNCHANGED <<life, ends, busy, pipe, proc, count, left, calls, serving, servant, given>>

(* When it has stopped serving, the program waits for all its children.    *)
Down ==
  /\ at = "final" /\ Idle /\ (\A p \in Proc : life[p] \in {"none", "reaped"}) /\ at' = "down"
  /\ UNCHANGED <<kernel, proc, count, watching, left, calls, serving, servant, given>>

Medulla ==
  /\ at # "crashed"
  /\ \/ OtherCommand \/ nbCmdStop \/ (\E s \in Servants : servantCommand(s))
     \/ (\E p \in Proc : nbMedullaProcessOpen(p) \/ CollectChild(p))
     \/ HandLine \/ HandedAll \/ (\E f \in Out : nbMedullaProcessReadBlocking(f)) \/ nbMedullaProcessWait
     \/ medullaScheduler \/ Select \/ Interrupted \/ Stopped
     \/ nbMedullaProcessReader \/ nbMedullaProcessReaderEnd \/ nbMedullaProcessWriter \/ Write \/ VisitEnd
     \/ CollectedAll \/ Rebuild \/ Down
Children ==
  \E p \in Proc : ChildReads(p) \/ ChildEnds(p) \/ ChildHangsUp(p) \/ (\E f \in Out : ChildWrites(p, f))

Next == Medulla \/ Children
Spec == Init /\ [][Next]_vars

(* The program goes on for as long as it can.                              *)
FairSpec == Spec /\ WF_vars(Medulla)

-----------------------------------------------------------------------------
TypeOK ==
  /\ life \in [Proc -> {"none", "running", "zombie", "reaped"}] /\ ends \in [Proc -> SUBSET File]
  /\ busy \in [Proc -> Out \cup {NoOne}] /\ sigchld \in BOOLEAN /\ serving \in BOOLEAN
  /\ at \in {"commands", "visit", "collect", "clear", "final", "down", "crashed"}
  /\ servant \in [Servants -> Proc \cup {NoOne, "free"}]
  /\ \A p \in Proc, f \in File : Content(p, f) \in 0..Capacity /\ proc[p].fd[f] \in Int
  /\ \A i \in DOMAIN handlers : handlers[i].type \in {0, 1} /\ handlers[i].process \in Proc
Live == {e \in ToSet(handlers) : ~e.close}
Async == {p \in Servants \cup Jobs : proc[p].status = "open"}

(* The bookkeeping of processes and files: the children counted against    *)
(* the limit are the processes that are open; a file has one entry, and an *)
(* entry that is not dropped is for a file that its process has open, even *)
(* when file numbers are used again; and every output of an open process,  *)
(* and the input for which messages wait, is watched.                      *)
ProcessesSound ==
  /\ TypeOK
  /\ count = Cardinality({p \in Proc : proc[p].status = "open"}) /\ count <= ChildMax
  /\ \A i, j \in DOMAIN handlers : Same(handlers[i], handlers[j].type, handlers[j].fd) => i = j
  /\ \A e \in Live : proc[e.process].fd[e.file] = e.fd /\ e.type = Type(e.file)
  /\ \A p \in Async : \A f \in Open(p) : Entry(p, f, proc[p].fd[f]) \in Live
  /\ \A p \in Async : proc[p].queue # <<>> => Entry(p, "put", proc[p].fd["put"]) \in Live

(* A handler is called only when it does not have to wait: there is data,  *)
(* room, or an end, although commands open and close files and add entries *)
(* to the list and the sets that the pulse is walking.                     *)
NeverReadsIdle == Visiting => Ready(Turn.process, Turn.file)

(* Both: the pulse and its handlers agree with the files at every step.    *)
HandlersSound == ProcessesSound /\ NeverReadsIdle

(* Whole lines reach the consumer and the logger once and in order, and    *)
(* all of them before the process is closed, whichever of the two files    *)
(* and the child's end comes last.                                         *)
LinesComplete ==
  \A p \in Proc, f \in Out :
    /\ proc[p].handed[f] <= pipe[p][f].read \div 2
    /\ (\A i \in DOMAIN calls : calls[i].op = "lines" => calls[i].process # p \/ calls[i].file # f)
         => proc[p].handed[f] = pipe[p][f].read \div 2
    /\ proc[p].status = "closed" => 2 * proc[p].handed[f] >= pipe[p][f].written - 1

(* A process whose child has ended and closed its files is closed, unless  *)
(* its SIGCHLD came between the last waitpid and the clearing of the flag, *)
(* or the program waits for another child in a write or for a command, has *)
(* stopped, or has failed.  And a message in a servant's queue does not    *)
(* stay there, except in the latter cases and while the pipe is full.      *)
Overlooked(p) == life[p] = "zombie" /\ ~sigchld
Elsewhere ==
  \/ Doing("write") \/ Doing("wait")
  \/ ~serving \/ at = "crashed"
Concludes ==
  \A p \in Proc :
    /\ life[p] = "zombie" /\ ends[p] = {} ~> proc[p].status = "closed" \/ Overlooked(p) \/ Elsewhere
    /\ proc[p].queue # <<>> ~> proc[p].queue = <<>> \/ Room(p, "put") = 0 \/ Elsewhere
=============================================================================
