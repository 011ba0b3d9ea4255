----------------------------- MODULE PeerQueue -----------------------------
(* The queue directory of an identity (nbqueue.c), shared by processes.    *)
(* Producers store commands in the file the header file names, under a     *)
(* record lock, or put a whole file under a unique name and rename it; a   *)
(* consumer raises the header past every name given out (the fence), lists *)
(* the files below it, and performs their commands or forwards them to a   *)
(* peer (nbprotocol.c), marking each when it asks for the next.  A file    *)
(* may grow while it is read; when it no longer does, it is emptied and    *)
(* removed.  Every step is a system call of its process; the clock may be  *)
(* set back; the consumer may stop at any point and be started again.      *)
EXTENDS Integers, Sequences

CONSTANTS
  Producers,    \* the processes that store commands
  Loads,        \* the executions: the number of commands each of them stores
                \* (bound), and the largest size of a queue file, in commands, or 0
                \* for none (brain->qfsize)
  MaxTime,      \* bound: the clock, in seconds
  QSec,         \* the interval of the queue, in seconds (brain->qsec)
  MaxFaults,    \* bound: stops of the consumer and commands it fails to send
  MaxEmpty,     \* bound: passes over an empty directory, or with a fence behind the header
  NoOne

ASSUME QueueAssumption ==
  /\ Loads \subseteq [commands : [Producers -> Nat], size : Nat] /\ MaxTime \in Nat /\ QSec \in Nat \ {0}
  /\ MaxFaults \in Nat /\ MaxEmpty \in Nat
  /\ NoOne \notin Producers /\ "consumer" \notin Producers

VARIABLES
  header,       \* the header file 00000000000.000000.Q: a time and a count
  files,        \* the queue files that somebody can still reach, by the command
                \* for which each was made: name, whether the directory has it,
                \* its commands, who holds the lock on it, and whether the
                \* consumer has opened it
  load,         \* the execution
  prod,         \* the producers: pc, commands begun, name and file in use
  kind,         \* whether the consumer performs or forwards commands
  cons,         \* the consumer: pc, fence, list (the names to do, the current one
                \* included; it takes them in order), file, end of file, position
  done,         \* history: done[p]: the commands of p performed, or received by
                \* the peer, in order
  waiting,      \* history: the commands stored and not done, and of each whether
                \* the consumer had opened the file it was stored in, and had
                \* raised the fence since the file was named
  again,        \* history: the commands done when the consumer stopped short of
                \* marking them
  faults,       \* history: stops and failures
  empty,        \* history: passes over an empty directory, or with a fence behind the header
  astray        \* history: whether a file was given a name behind the header

given == <<load, kind>>
bounded == <<faults, empty, astray>>
vars == <<header, files, prod, given, cons, done, waiting, again, bounded>>

Commands == UNION {{p} \X (1..load.commands[p]) : p \in Producers}
Nothing == <<NoOne, 0>>
Before(a, b) == a[1] < b[1] \/ (a[1] = b[1] /\ a[2] < b[2])

NewFile(n, c) == [name |-> n, linked |-> TRUE, data |-> c, lock |-> NoOne, taken |-> FALSE]
NoFile == [NewFile(<<0, 0>>, <<>>) EXCEPT !.linked = FALSE]
ProdIdle(n) == [pc |-> "idle", begun |-> n, name |-> <<0, 0>>, file |-> Nothing, fenced |-> FALSE]
ConsIdle == [pc |-> "idle", fence |-> <<0, 0>>, list |-> {}, file |-> Nothing, eof |-> 0, pos |-> 0]

Init ==
  /\ load \in Loads /\ header = <<0, 0>> /\ files = [i \in Commands |-> NoFile]
  /\ prod = [p \in Producers |-> ProdIdle(0)]
  /\ kind \in {"perform", "forward"} /\ cons = ConsIdle
  /\ done = [p \in Producers |-> <<>>] /\ waiting = {} /\ again = {} /\ faults = 0 /\ empty = 0
  /\ astray = FALSE

InDirectory(n) == {i \in Commands : files[i].linked /\ files[i].name = n}
Without(S) == [i \in Commands |-> [files[i] EXCEPT !.linked = @ /\ i \notin S]]
(* A file that is removed lives on while another process has it open.      *)
FileOf(u) == IF u = "consumer" THEN cons.file ELSE prod[u].file
Closed(f, i, others) ==
  IF f.linked \/ (\E u \in others : FileOf(u) = i) THEN f ELSE NoFile
Names == {files[i].name : i \in {j \in Commands : files[j].linked}}

-----------------------------------------------------------------------------
(* nbQueueGetFile, under the lock of the header file.  The clock may show  *)
(* any time: it advances, and it may be set back.  First the name of the   *)
(* shared file of the current interval; the header never goes back.        *)
Time == 0..MaxTime
Interval(now) == (now \div QSec) * QSec
(* Mutant: the header follows the clock, backwards as well.                *)
IntervalNameOfClock(now) == IF Interval(now) # header[1] THEN <<Interval(now), 0>> ELSE header
IntervalName(now) == IF Interval(now) > header[1] THEN <<Interval(now), 0>> ELSE header

(* The next name, of the fence of a consumer or of a unique file.  Its     *)
(* time is the clock's, though the header may have a later one and keep it. *)
Behind(now) == now < header[1]
NextName(now) == IF now > header[1] THEN <<now, 0>> ELSE <<now, header[2] + 1>>
HeaderAfter(n) == IF Before(n, header) THEN <<header[1], n[2]>> ELSE n

(* After a unique name the shared files go on with the count after it.     *)
AfterUnique(n) == <<n[1], n[2] + 1>>

-----------------------------------------------------------------------------
(* A producer stores a command (nbqStoreCmd).                              *)

Begin(p) == prod[p].pc = "idle" /\ prod[p].begun < load.commands[p]
Command(p) == <<p, prod[p].begun>>

(* nbqOpen: the name of the file ...                                       *)
StoreName(p) ==
  /\ Begin(p)
  /\ \E now \in Time : header' = IntervalName(now)
  /\ prod' = [prod EXCEPT ![p] = [ProdIdle(@.begun + 1) EXCEPT !.pc = "named", !.name = header']]
  /\ UNCHANGED <<files, given, cons, done, waiting, again, bounded>>

(* ... nbQueueOpenFileName: the file, created if need be ...               *)
StoreOpen(p) ==
  /\ prod[p].pc = "named"
  /\ LET there == InDirectory(prod[p].name)
     IN \E i \in IF there = {} THEN {Command(p)} ELSE there :
          /\ files' = IF there = {} THEN [files EXCEPT ![i] = NewFile(prod[p].name, <<>>)] ELSE files
          /\ prod' = [prod EXCEPT ![p].pc = "opened", ![p].file = i, ![p].name = <<0, 0>>]
  /\ UNCHANGED <<header, given, cons, done, waiting, again, bounded>>

(* ... and its lock, which the producer waits for.                         *)
StoreLock(p) ==
  /\ prod[p].pc = "opened" /\ files[prod[p].file].lock = NoOne
  /\ files' = [files EXCEPT ![prod[p].file].lock = p]
  /\ prod' = [prod EXCEPT ![p].pc = "locked"]
  /\ UNCHANGED <<header, given, cons, done, waiting, again, bounded>>

(* The command is appended, or refused when the file has its size, and the *)
(* file is closed.                                                         *)
TakesMore(f) == load.size = 0 \/ Len(f.data) < load.size
StoreAppend(p) ==
  /\ prod[p].pc = "locked"
  /\ LET i == prod[p].file  f == files[i]  c == Command(p)
         fate == [command |-> c, taken |-> f.taken, fenced |-> prod[p].fenced]
         grown == IF TakesMore(f) THEN Append(f.data, [command |-> c, mark |-> FALSE]) ELSE f.data
     IN /\ files' = [files EXCEPT ![i] = Closed([f EXCEPT !.lock = NoOne, !.data = grown],
                                                i, (Producers \ {p}) \cup {"consumer"})]
        /\ waiting' = IF TakesMore(f) THEN waiting \cup {fate} ELSE waiting
  /\ prod' = [prod EXCEPT ![p] = ProdIdle(@.begun)]
  /\ UNCHANGED <<header, given, cons, done, again, bounded>>

(* A peer's file put into the queue (nbpServePutFile): written under a name *)
(* consumers ignore, and renamed when complete (nbQueueCommit).             *)
PutName(p) ==
  /\ Begin(p)
  /\ \E now \in Time :
       /\ header' = HeaderAfter(AfterUnique(NextName(now)))
       /\ astray' = (astray \/ Behind(now))
       /\ prod' = [prod EXCEPT ![p] = [ProdIdle(@.begun + 1) EXCEPT !.pc = "putting",
                                                                   !.name = NextName(now)]]
  /\ UNCHANGED <<files, given, cons, done, waiting, again, faults, empty>>

(* A file that has the name is replaced.                                   *)
PutCommit(p) ==
  /\ prod[p].pc = "putting"
  /\ LET n == prod[p].name  c == Command(p)
     IN /\ files' = [Without(InDirectory(n)) EXCEPT ![c] =
                       NewFile(n, <<[command |-> c, mark |-> FALSE]>>)]
        /\ waiting' = waiting \cup {[command |-> c, taken |-> FALSE, fenced |-> prod[p].fenced]}
  /\ prod' = [prod EXCEPT ![p] = ProdIdle(@.begun)]
  /\ UNCHANGED <<header, given, cons, done, again, bounded>>

-----------------------------------------------------------------------------
(* The consumer: nbQueueProcess and nbqThread, or nbqSend.                 *)

(* nbQueueOpenDir: the fence is raised ...                                 *)
OpenDir ==
  /\ cons.pc = "idle"
  /\ \E now \in Time :
       /\ IF Names = {} \/ Behind(now) THEN empty < MaxEmpty /\ empty' = empty + 1
                                      ELSE UNCHANGED empty
       /\ header' = HeaderAfter(NextName(now))
       /\ cons' = [ConsIdle EXCEPT !.pc = "listing", !.fence = NextName(now)]
  /\ prod' = [p \in Producers |-> [prod[p] EXCEPT !.fenced = prod[p].pc # "idle"]]
  /\ UNCHANGED <<files, given, done, waiting, again, faults, astray>>

(* On to the next file, or nbQueueCloseDir when there is none.             *)
Going(list) == IF list = {} THEN ConsIdle ELSE [ConsIdle EXCEPT !.pc = "next", !.list = list]

(* ... and the names below it are listed (nbqAddEntry).                    *)
(* Mutant: the name of the fence itself is listed.                         *)
BelowFenceOrAt == {n \in Names : ~Before(cons.fence, n)}
BelowFence == {n \in Names : Before(n, cons.fence)}
ListFiles ==
  /\ cons.pc = "listing"
  /\ cons' = Going(BelowFence)
  /\ UNCHANGED <<header, files, prod, given, done, waiting, again, bounded>>

(* nbQueueOpenFile, nbqEof: the next file is opened, its lock taken if     *)
(* nobody has it -- a busy file is opened all the same -- and its end      *)
(* looked up.                                                              *)
IsNext(n) == n \in cons.list /\ \A m \in cons.list \ {n} : Before(n, m)
OpenFile ==
  /\ cons.pc = "next"
  /\ \E i \in Commands :
       /\ files[i].linked /\ IsNext(files[i].name)
       /\ files' = [files EXCEPT ![i].lock = IF @ = NoOne THEN "consumer" ELSE @, ![i].taken = TRUE]
       /\ cons' = [cons EXCEPT !.pc = IF files[i].data = <<>> THEN "empty" ELSE "read",
                               !.file = i, !.eof = Len(files[i].data), !.pos = 0]
  /\ UNCHANGED <<header, prod, given, done, waiting, again, bounded>>

Data == files[cons.file].data
Unlocked(f) == [f EXCEPT !.lock = IF @ = "consumer" THEN NoOne ELSE @]
(* What the buffer still has: a command that is not marked.                *)
Ahead == {j \in (cons.pos + 1)..cons.eof : ~Data[j].mark}
NextAhead == CHOOSE j \in Ahead : \A k \in Ahead : j <= k

Does(c) ==
  /\ done' = [done EXCEPT ![c[1]] = Append(@, c[2])]
  /\ waiting' = {w \in waiting : w.command # c}

(* nbQueueRead returns a command, which is performed (nbCmdSid in nbqProcQ) *)
(* or sent (nbpPut in nbqSendDirect).                                       *)
Perform ==
  /\ cons.pc = "read" /\ Ahead # {}
  /\ Does(Data[NextAhead].command)
  /\ cons' = [cons EXCEPT !.pc = "mark", !.pos = NextAhead]
  /\ UNCHANGED <<header, files, prod, given, again, bounded>>

(* The next call of nbQueueRead marks it.                                  *)
Marked == [Data EXCEPT ![cons.pos].mark = TRUE]
Mark ==
  /\ cons.pc = "mark"
  /\ files' = [files EXCEPT ![cons.file].data = Marked]
  /\ cons' = [cons EXCEPT !.pc = "read"]
  /\ UNCHANGED <<header, prod, given, done, waiting, again, bounded>>

(* At the end of the file nbqEof looks whether it has grown ...            *)
ReadMore ==
  /\ cons.pc = "read" /\ Ahead = {}
  /\ cons' = IF Len(Data) > cons.eof
             THEN [cons EXCEPT !.pos = cons.eof, !.eof = Len(Data)]
             ELSE [cons EXCEPT !.pc = "truncate"]
  /\ UNCHANGED <<header, files, prod, given, done, waiting, again, bounded>>

(* ... and empties it if not, by its name: opening and closing it drops    *)
(* the lock.                                                               *)
InItsPlace == InDirectory(files[cons.file].name)
Truncate ==
  /\ cons.pc = "truncate"
  /\ \E i \in InItsPlace :
       files' = [files EXCEPT ![i] = Unlocked([@ EXCEPT !.data = <<>>])]
  /\ cons' = [cons EXCEPT !.pc = "remove"]
  /\ UNCHANGED <<header, prod, given, done, waiting, again, bounded>>

(* The file of the name is removed and the consumer's closed; nbqSend does *)
(* not close an empty one, and so keeps its lock.                          *)
(* Mutant: nbqProcQ does not close an empty file either.                   *)
KeepsLockAlways == cons.pc = "empty"
KeepsLock == cons.pc = "empty" /\ kind = "forward"
RemoveFile ==
  /\ cons.pc \in {"remove", "empty"}
  /\ files' = [Without(InItsPlace) EXCEPT ![cons.file] =
                 Closed(IF KeepsLock THEN @ ELSE Unlocked(@), cons.file, Producers)]
  /\ cons' = Going(cons.list \ {files[cons.file].name})
  /\ UNCHANGED <<header, prod, given, done, waiting, again, bounded>>

(* The peer does not answer, whether it got the command or not: the pass   *)
(* is given up (nbqSendDirect, nbqSend).                                   *)
SendFails ==
  /\ kind = "forward" /\ cons.pc = "read" /\ Ahead # {} /\ faults < MaxFaults
  /\ LET c == Data[NextAhead].command
     IN \/ Does(c) /\ again' = again \cup {c}
        \/ UNCHANGED <<done, waiting, again>>
  /\ files' = [files EXCEPT ![cons.file] = Unlocked(@)]
  /\ cons' = ConsIdle /\ faults' = faults + 1
  /\ UNCHANGED <<header, prod, given, empty, astray>>

(* The consumer's process ends; its locks go with it.                      *)
Stop ==
  /\ cons.pc # "idle" /\ faults < MaxFaults
  /\ files' = [i \in Commands |-> Unlocked(files[i])]
  /\ again' = IF cons.pc = "mark" THEN again \cup {Data[cons.pos].command} ELSE again
  /\ cons' = ConsIdle /\ faults' = faults + 1
  /\ UNCHANGED <<header, prod, given, done, waiting, empty, astray>>

-----------------------------------------------------------------------------
Store(p) == StoreOpen(p) \/ StoreLock(p) \/ StoreAppend(p) \/ PutCommit(p)
Consume ==
  OpenDir \/ ListFiles \/ OpenFile \/ Perform \/ Mark \/ ReadMore \/ Truncate \/ RemoveFile

Next ==
  \/ \E p \in Producers : StoreName(p) \/ PutName(p) \/ Store(p)
  \/ Consume \/ SendFails \/ Stop

(* A command once begun is seen through by its process, and the schedule   *)
(* of the queue starts pass after pass.                                    *)
Spec == Init /\ [][Next]_vars /\ WF_vars(Consume) /\ \A p \in Producers : WF_vars(Store(p))

-----------------------------------------------------------------------------
InAFile(c) ==
  \E i \in Commands : files[i].linked
    /\ \E j \in DOMAIN files[i].data : files[i].data[j] = [command |-> c, mark |-> FALSE]
Lost(w) == ~InAFile(w.command)

(* The commands of a process are performed in the order it stored them,     *)
(* through all its files; one is performed again only if the consumer       *)
(* stopped, or lost its peer, between performing and marking it.  So it is  *)
(* however the clock is set, as long as no file is given a name behind the  *)
(* header.                                                                 *)
PerformedInOrder ==
  astray \/ \A p \in Producers : \A k \in 1..(Len(done[p]) - 1) :
              \/ done[p][k] < done[p][k + 1]
              \/ <<p, done[p][k + 1]>> \in again

(* What has been stored waits in a file or has been performed, unless it   *)
(* was appended to a file the consumer had opened; the fence keeps          *)
(* producers out of such files but those who got the name before it rose;  *)
(* and no process puts a file over another: a name is given out once, as    *)
(* long as none is given behind the header.                                *)
FilesSound ==
  \/ astray
  \/ /\ \A w \in waiting : (Lost(w) => w.taken) /\ (w.taken => w.fenced)
     /\ \A p \in Producers : prod[p].pc = "putting" => InDirectory(prod[p].name) = {}

(* Whatever has been stored is performed, unless lost in the way above;    *)
(* and a process that stores is not kept waiting for good -- by a consumer *)
(* that performs; one that forwards may keep the lock of an empty file.    *)
Delivered ==
  <>[](/\ \A w \in waiting : Lost(w)
       /\ kind = "perform" => \A p \in Producers : prod[p].pc = "idle")
=============================================================================
