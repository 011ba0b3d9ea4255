# NodeBrain in TLA+

NodeBrain (version 0.9.04) is a rule engine written in C. A script defines
terms, expressions over terms, and rules on expressions; commands, timers and
plug-in modules assert values; the engine re-evaluates what depends on them and
fires the rules whose conditions have become true, whose actions are commands
again. Around the engine are an event server with child processes, message
logs and their distribution, queue files, a calendar for schedules, and the
modules. This directory holds TLA+ models of them, the TLC configurations that
check them on small instances, and TLAPS proofs.

- `PROJECT.json`: components, runs, mutants, the map from definitions to source
  lines, findings, hazards and theorems.
- `*.tla` without prefix: the models and the abstract specifications.
- `MC*.tla`, `MC*.cfg`: the instances that TLC checks, one per run.
- `CellReactProofs.tla`, `RuleCycleProofs.tla`, `MsgLogProofs.tla`,
  `MsgCabalProofs.tla`, `PeerQueueProofs.tla`, `TimersProofs.tla`,
  `MedullaProofs.tla`: the theorems about these models; `SequenceLemmas.tla`:
  facts about sequences that several of them need.

Run `tlc -workers 2 -config MCCellReact.cfg MCCellReact` and its like;
`tlapm CellReactProofs.tla` and its like.

## 1. Inventory

### The engine (lib/)

| Part | Source | State | Operations | Modelled in |
|---|---|---|---|---|
| Reaction engine | nbcell.c | subscriber trees `sub`, `level`, `object.value`, the SCHEDULED flag, `evalVector`, `evalVectorTop` | nbCellPublish, nbCellAlert, nbCellReact, nbCellLevel | CellReact, CellGraph |
| Subscriptions, axons | nbaxon.c | `sub`, the axon cells of a term, what they remember | nbAxonEnable, nbAxonDisable, boost, the sweeps | CellGraph, RelAxon |
| Terms | nbterm.c | `def`, glossaries | nbTermAssign, nbTermNew, nbTermUndefine | CellGraph |
| Conditions | nbcondition.c, nbconditional.c | operands, hash tables, delay timers | useCondition, the eval, enable, disable, alert, alarm and destroy methods | CellGraph, DelayCell, TimeSched, RelAxon |
| Rules | nbrule.c, nbnode.c | `actList`, `ashList`, `action.status`, `node.ifrule`, `node.alertCount` | scheduleAction, nbRuleReact, nbRuleAct, nbRuleDouse, contextAlert, nbAction | RuleCycle |
| Sequence rules | nbrule.c | plans, `nb_RuleReady`, `nextReady`, counters | nbRuleParse, nbRuleExec, nbPlan..., nbRuleReact | SeqRule |
| Assertions, commands | nbassertion.c, nbcmd.c | `addrContext`, transient terms | nbAssert, nbCmd and the verbs | RuleCycle, CellGraph |
| Clock | nbclock.c | `nb_timerQueue`, `nb_ClockTime` | nbClockSetTimer, nbClockAlert | ClockTimer |
| Schedules | nbsched.c, nbtime.c, nbbfi.c | interval sets, queue of intervals | schedNext, tcCast and the tc functions, the bfi functions | Bfi, TimeExpr, TimeSched |
| Containers | nbtree.c, nbhash.c, nblist.c, nbset.c | AVL trees, hash tables, lists | locate, insert, remove, flatten, balance | AvlTree, TreeTable |
| Messages | nbmsg.c | log files, cursors, ring cache, state vectors, cabal peers | read, write, produce, consume, prune, publish, stomp, retry | MsgLog, MsgCache, MsgCabal |
| Event server | nbmedulla.c, nbspawn.c | handler list, child processes, queues | nbMedullaPulse, process handlers | Medulla |
| Peer queues | nbqueue.c | queue files and record locks | get, open, read and mark, remove | PeerQueue |
| Peer connections | nbpeer.c | buffers, sockets | connect, accept, send, read, write, shut down | MsgCabal |
| Networking | nbproxy.c, nbtls.c, nbip.c, nblistener.c, nbwebster.c, nbmail.c | buffers, sockets | forward, handshake, requests | - |
| Synapses, sentences, objects, values | nbsynapse.c, nbsentence.c, nbcall.c, nbobject.c, nbstring.c, nbreal.c | callbacks, facets, reference counts | alert, alarm, eval, grab, drop | (in part: MsgCabal) |
| Text and program | nbparse.c, nbsource.c, nbtranslator.c, nblog.c, nb.c, ... | files, options | parse, load, log | - |

### The modules (module/)

`cache` keeps rows with counters, thresholds and expiration timers and reports
through nbAction (CacheRows); `tree` is a table of rows in nested search trees
(TreeTable); `servant` keeps a child process (Medulla); `message` and `peer`
wrap messages and queues (MsgLog, PeerQueue). `set`, `audit`, `syslog`,
`snmptrap`, `udp`, `pipe`, `netflow`, `translator`, `webster`, `mail` and
`console` turn input into assertions; `baseline` computes limits. To the engine
a module is a facet function called from nbAssert or from an eval method, a
timer's alarm, or a command.

### How the parts interact

1. nbCmd runs a verb; `assert` calls nbAssert, which calls nbTermAssign for
   each term, which publishes: nbCellPublish calls the alert method of every
   subscriber. A condition is put into the list of its level (nbCellAlert); a
   rule takes its condition's value at once and may schedule its action
   (alertRule, alertRuleIf).
2. nbCmd ends with nbRuleReact: nbCellReact walks the level lists upward,
   evaluating and publishing; then the scheduled actions are taken off actList
   and performed one by one (nbRuleAct), and then the sequence rules that are
   ready make their assertions and perform their commands.
3. An action asserts and runs a command with nbCmdSid, hence nbCmd, hence
   nbRuleReact again: everything is re-entrant, with one C stack.
4. The eval methods of the lazy operators subscribe and unsubscribe, changing
   the graph nbCellReact is walking.
5. A node module called by nbAssert may call nbAction, which schedules an
   action; contextAlert schedules the node's true if() rules.
6. nbMedullaServe calls nbClockAlert through the scheduler, then select, then
   the handlers of files that are ready, which run commands: lines of a
   child's stdout, messages of peers, datagrams of a message log. nbClockAlert
   calls alarm methods and then nbRuleReact.
7. Programs share message logs and queue directories with other programs, and
   talk to them over sockets.

There are no threads in the engine: what makes it hard is re-entrance, state
read before a call and used after it, and orders of calls nobody tested. Real
concurrency (processes, signals, files, peers) is in nbmsg.c, nbmedulla.c and
nbqueue.c, and there are crashes, lost datagrams and broken connections.

### What makes the components correct

- Reaction engine: no alert is lost; each cell is evaluated once per reaction,
  after its operands; a reaction ends, and leaves consistent values.
- Subscriptions: to everything an enabled cell reads, to nothing else, at a
  level above it; a rule hears of every change of its condition; an axon knows
  which of its conditions is true, although conditions come and go.
- Rules: an action is linked in one list; it fires in priority order, only
  while its condition holds; when() rules fire once and are freed; if() rules
  fire on every alert while true; the cycle terminates and leaves nothing
  pending. A sequence rule does what a thread performing its statements would.
- Clock: timers fire once, in order, and not after being cancelled. A delay
  takes on a state only when its operand has been in it long enough. A time
  condition is true exactly in its intervals, however late alarms are.
- Cache and tree modules: the counters equal the sums over the rows; a table
  holds what was asserted; what is stored loads as the same table.
- Message logs: every record once and in order, across stops at any point;
  followers catch up. Cabals: one connection per node; a client comes to have
  the server's state.
- Queues: commands performed in order, each at least once, none forgotten.
- Event server: handlers are called for files that are theirs; no line is lost;
  a child that has ended is closed.

`PROJECT.json` lists the hazards line by line, with the property that covers
each or the reason why none does.

## 2. The models

### CellReact: the reaction engine on a fixed graph

`sub`, `level` and `value` are those of the cells; `scheduled` is the set with
the SCHEDULED flag; `vector[l]` the list at evalVector[l], as a set (the code
takes links last in first out; any order is allowed here, so what holds does
not depend on it); `top` and `cursor` are evalVectorTop and linkP. `Assign` is
nbTermAssign of an enabled term with a value; several may happen before a
reaction, as in one `assert`. `ReactBegin`, `ReactCell`, `ReactLevel` and
`ReactEnd` are the loop of nbCellReact, one link at a time, including the
`*linkP=link->next` that follows the publication. `Eval` and the graph are
constants: any eval method of the operand values, any graph in which
subscribers stand above what they subscribe to (`LevelsOrdered`, an assumption
here and a subject of CellGraph). `IsTopAfter` characterises the new
evalVectorTop as a maximum, so that proofs need no fold.

### CellGraph: how the graph changes

The state of all cells is one record `net` (definitions, values, subscribers,
levels, lists); each C function that calls others is an operator from a net to
a net, recursive where the code is: `Publish`, `CellLevel`, `AxonEnable`,
`AxonDisable`, `Enable`, `Disable`, `EvalCell`, `TermAssign`. The actions are
the commands (assign a value or an expression to a term, define, undefine,
disable and enable a rule) and the steps of nbCellReact. Commands run between
reactions; those that a rule action issues do as well, for nbRuleReact performs
actions only after nbCellReact has returned. The conditions are given by
`shape`: an operator for each (`!`, `?`, `!?`, `-?`, `+?`, `!!`, `&`, `|`, the
negations, `%`, `a ? b`, `&&`, `||`, `a then b`, `a|~|b`, and `a true b else
c`) and its operands. They stay alive, as something always refers to them; what
becomes of unreferenced ones is not modelled. Captures and flip-flops have a
memory and are left out, and so are solve and compute.

`clean` is a history variable: it becomes FALSE when one of four things has
happened for which the code gives no guarantee: a level inversion, a rule
silenced because the last subscriber of its own term left, a disabled condition
evaluated, a disable or enable command on a rule that others read. All four are
reachable, as the findings about nbaxon.c:587 describe. `RulesInformed` and
`EnabledSubscribes` are stated for clean behaviours; that subscriptions never
dangle holds without exception.

### RuleCycle: the command cycle

`stack` is the C stack: one frame per call of nbRuleReact, over the command.
A frame holds the actions still to visit (`nextact` and what follows), the
action being performed, and the steps left to do before control returns to it.
Commands, assertions and operations of actions are sequences of such steps:
`set` (one assignment), `node` (an assertion for a node, whose module calls
nbAction), `react` (nbRuleReact), `cells` (nbCellReact alone), `context`
(contextAlert), and so on, put together by `CmdCode` and `Performed` in the
order of nbCmd, nbCmdAssert and nbRuleAct. An operation reacts where the code
does: not after a system command, not for `::assert` or `::alert` without
members (nbrule.c:846, 852), not after `?` (`Compute`; a command that is refused
or empty returns early like it). What an action of that kind (`Unreacted`) has
asserted waits for whatever reacts next; the history variable `unreacted` says
that one fired and nothing has reacted since. `actList`, `ashList`, `ifrule` and
`status` are the code's; status "free" stands for an action that does not
exist. `AlertRules` lets the rules whose condition changed be alerted in any
order, `Alerted` and `AlertedIf` are alertRule and alertRuleIf.

Conditions are a function of the terms here (`Condition`), which is what
CellReact's `SettledConsistent` and `NoGlitch` justify: after nbCellReact each
changed rule has been alerted once with its settled value. Rules in `OnTerm`
watch a term itself and are alerted in the middle of an assertion. Every rule
has its own condition and all belong to one node. Not in this model:
undefining a true if() rule (what follows a freed action is undefined), the
reset of transient terms by an alert, a command chained to `alert` with a
colon, the default mode of assertions. One action of a module is in flight per
member of `Api`.

### SeqRule, SeqThread and SeqPlan: sequence rules

`SeqPlan` has the statements of `{on(a);10m;=5;if(b)`c=1;}`: times, values to
publish and to follow, assertions, commands, on, onif, if and repetitions.
`SeqRule` compiles them into the instructions of a plan as nbRuleParse does
(`Code`), and performs them as nbRuleExec does until one makes the rule wait:
for its timer, for a condition to which it subscribes, or for nbRuleReact to
make its assertion or perform its command. `ready` and `rule[r].next` are the
list nb_RuleReady and its links; `calls` is the C stack, on which nbRuleReact
walks a list of rules whose commands call nbRuleReact in their turn, and then
sets the rules of the list going again, which may put them on the new list
while the old one is still followed by its links.

`SeqThread` is the abstract specification, taken from "Conceptually, each rule
runs as a seperate thread" (nbrule.c:27): a thread performs the statements of
its plan in order, each once, and waits for times and conditions. SeqRule
implements it with `todo` <- what is left of the plan at the rule's instruction
(an instruction carries the rest of the plan behind it, loop counters are
counted in, a pending assertion or command comes first), `due` <- rule.time,
`waits` <- the condition subscribed to.

One thread per plan; rules are commands, not parts of cell expressions; they
assert and start others, without alert; conditions are terms; alignment to time
conditions (nbPlanAlign) is left out; every message looks at the clock, so time
may pass between any two steps. Plans that follow a term neither end nor wait
for that term, no loop is without a wait, an if without else ends its block
(findings nbrule.c:482 and 926). `stranded` is the set of rules that the
overwriting of a link has lost (finding nbrule.c:926): RulesSound excepts them.

### ClockTimer, DelayCell, CacheRows and Timers: the clock and what it rings

`ClockTimer` has nb_timerQueue in order and nbClockAlert as two loops, one over
the seconds that are due and one over the timers of a second, between which
commands and alarms may set and cancel timers of the same second. `clock` is
nb_ClockTime, which lags behind `now`. `DelayCell` has delay conditions that
share an operand: enabled, disabled, evaluated one after another when the operand
has changed (`listed`), and alarmed (evalDelayTrue and its like, enableDelay,
disableDelay, alarmDelay).
disableDelay leaves the timer running, `deaf` notes an alarm of a disabled
delay, `stale` a timer set by a clock behind the time. `CacheRows` is a node of
the cache module: rows with counters at every level (`hits`, `rows`, `kids`),
threshold indexes, the list of timer elements, cacheInsert, cacheRemoveNode,
cacheDecNode, cacheNewTimerElement, and cacheAlarm, which runs rules between the
elements it takes off, whose commands may assert into, remove from or empty the
cache. `Timers` composes the three on one queue.

`AlarmClock` is the abstract specification of the queue: an object has at most
one alarm; it rings when its second has come, earlier ones first, those of one
second in the order in which they were set, once, unless set anew or cancelled.
Timers implements it with `due` and `ahead` computed from the queue.

Options COUNT with EXPIRE or EXIST are left out: after an expiration the row is
without timer (finding nb_cache.c:1155).

### Bfi, TimeExpr, TimeMeaning and TimeSched: schedules

`Bfi` has the interval sets of nbbfi.c as the code computes them, segment by
segment over a domain. `TimeExpr` has the time functions (steps and patterns)
and the operators over them, which choose the domains of their operands;
`tcCast` computes the intervals of an expression over a domain. `TimeSched` is a
time condition with its schedule: the queue of intervals cast ahead, 60 seconds
at translation and eight hours at a time later, schedNext, and evalTime and
alarmTime, which only invert the value at each alarm. `TimeMeaning` states what
an expression denotes, from the language reference, on the whole time line and
without domains; `Accurate` and `EdgesKept` compare the two.

mktime and localtime are replaced by arithmetic on a line of `MaxTime` seconds.
The expressions checked are those that settle, that is, whose intervals do not
depend on where the domain is cut: `Settling` leaves out xor and unique
(finding nbbfi.c:814), until, conflict, selections of intervals longer than the
selectors, the complement of an operand empty in the domain below or, union and
reject, partition below reject, and spans that roll over.

### AvlTree, TreeTable and Table: the tree module

`AvlTree` is nbtree.c: locate, insert and remove with rotations by balance
factors, flatten, balance. `TreeTable` is a node of the tree module: a tree per
column, elements with values, assertion, evaluation (with ranges in ordered
trees), removal of an element and the heads it leaves empty, prune, flatten,
balance, store and load. `Table` is the abstract specification: a function from
rows to values with the elements that exist. TreeTable implements it with
`value` <- the rows found in the trees, `spoiled` when one of the two findings
(nbtree.c:735, nb_tree.c:198) has struck. Strings and numbers are ranks; file
text is a sequence of rows; reference counts are left out.

### RelAxon: relational conditions under axons

The conditions `a=3`, `a<5`, ... on one term, subscribed to it directly or, when
the term's tree has become deep, moved under one axon per operator, kept there
in a search tree by constant (AvlTree). An axon remembers the condition that was
true, or the last number or string, and on a change evaluates only the
conditions the change is about (`Swept`). When to boost depends on the depth of
a tree ordered by addresses: here it is a choice, bounded by `MaxDirect`. Value
terms are publishers only. `clean` becomes FALSE at the hazards that the
findings about nbaxon.c:806 and 315 describe; `WrongEdge` (nbaxon.c:420) and
`MetTwice` (nbaxon.c:272) are excepted where they bite.

### MsgLog and MsgStream: a message log, its producer and followers

`file`, `link`, `cursor`, `socket` are the directory; `writer` and `con[c]` the
programs, with a program counter between the system calls: unlink, symlink,
header, footer, record, datagrams; open, read, handle, cursor, listen. Any
program stops at any step and is started again. Two windows of a crash leave a
log that cannot be opened (no link) or is reported as corrupted (a link to a
file without header); they are modelled, with what the programs then do. A
socket holds `QueueMax` datagrams; more are refused, and the follower is taken
off the list; it notices by the gap or by its poll timer and reads the files.
Counts wrap around and are compared by quarters.

`MsgStream` is the abstract specification: a producer stores records, a consumer
is handed them in order, none before it is stored, none left out, and after a
restart at most `MaxRedo` once more. MsgLog implements it with `produced` <- the
number of records stored and MaxRedo <- 2. `idx` counts records where the code
counts bytes; one consumer is checked.

### MsgCache and MsgCabal: distribution

`MsgCache` is the ring of the newest records on a server, its subscribers, which
read the files first and the ring after, and are sent back to the files when the
ring drops a record they point at (stomp), paused when the peer's buffer is
full. `MsgCabal` composes it with a client over connections of nbpeer.c: either
or both sides connect, an accepted connection replaces the one a node has, the
ends say hello, exchange states, send and take records, notice a break at
different times, retry when the synapse's timer rings, stop and start. The timer
is set on every side that loses a connection of its node. On one that only
accepts, nbMsgCabalEnable then puts the node's own peer, which has no address
and never got buffers, in the place of the accepted one (`ConnectNowhere`, peer
0). The subscription of the broken connection is still there; the next record
is copied to NULL by nbPeerSend (`Crash`; `unbuffered` remembers it). A server
that ended with a fatal error or a crash is not started again in the model. The wait
of 30 seconds is an arbitrary delay; TCP and TLS handshakes are one step;
nbPeerWriter writes its whole buffer; what is on the wire is lost when a
connection breaks. Peer mode, the preference for ring or hub, and more than two
nodes are left out.

### PeerQueue: a queue directory

Producers that append a command to the file the header names (nbqStoreCmd) or
put a file under a unique name (nbpServePutFile), and a consumer that raises the
header past all names given out (the fence), lists the files below it, and
performs (nbqProcQ) or forwards (nbqSend) their commands, marking each with `#`
when it asks for the next, emptying and removing a file at its end. Each step is
a system call or a few under one lock; the clock may be set back (`Time` is any
second at each look); the consumer may stop anywhere. Names are given as the
three options of nbQueueGetFile do: the shared file has the header's time; the
fence and a unique file have the clock's, also when that is behind the header,
which keeps its own (`NextName`, `HeaderAfter`). Such a name may be below others
given before, or that of a file that waits, which a rename then replaces
(`PutCommit`); a fence behind the header leaves files out. `astray` remembers
that a file, not a fence, was named so. A put writes a working file before it is renamed; that
two processes with one name write that file one after the other, and not into
each other, is an abstraction. A file is known by the
command for which it was made, a name that no step of the program looks at: so
there are as many as are needed and the model has no bound of its own on them.
`cons.list` is the set of names still to do, which nbqAddEntry keeps in order and
`IsNext` takes in order. Counts in names are numbers of any size, where the code
has six digits (see the findings). The .c and .t files are stubs in the code.

### Medulla: the event server and child processes

`handlers` is the handler list with its flags, `fdset` the sets that select
fills and handlers add to, `left` what the pulse has still to visit of the list,
`proc` the processes with their file numbers, queues and status, `calls` what is
going on inside a handler; `life`, `ends`, `busy` and `pipe` are the children
and the kernel's side of their pipes. nbMedullaPulse, the scheduler, the reader and writer of a process,
nbMedullaProcessHandler with its waitpid loop, close, the wait of a command for
its child, and the end of the program are actions of the program. Children are
the environment: they write half lines, read, close stdout or stderr, end at any
time; descendants may keep their pipes open. File numbers are given out lowest
first, as pipe and open do, and freed blocks may be used again. `Selected`
rebuilds the list and `Lowest` finds a number without a fold, for the proofs. Lines are
commands: others, stop, a message to the servant, open a process. Pipes hold one
unit and lines are two, so every partial read and full pipe happens.

Not modelled: the Windows variant, threads, output files, the SIGHUP that
nbMedullaExit sends, failures of fork, lines of NB_BUFSIZE, a servant destroyed
while its process lives.

## 3. Runs

Times are those of two workers on a small machine.

| Run | Properties | Instance and bounds | Distinct states |
|---|---|---|---|
| cell_react | TypeOK, NothingLost, SettledConsistent, NoGlitch, ReactDrains, ReactReturns | all level-ordered graphs of two terms and three connectives, tight and gapped levels, three values; MaxLevel 3 holds a chain of three conditions and a gap | 657,146 (1 min) |
| cell_graph | SubscriptionsSound, RulesInformed | seven graphs of four terms, three conditions (each operator occurs) and two rules, one read through its term; MaxLevel 6 is never exceeded | 1,071,175 (2 min) |
| rule_cycle | ListsSound, FiresInTurn, WhenFiresOnce, CycleComplete, CycleEnds | four on() rules, one of them `::alert` without members and one with `?`, a when(), an if() and a module action that set each other off; priorities differ from the order of scheduling | 157,036 |
| seq_rule | RulesSound, ImplementsThreads, Proceeds | three plans (answer, twice, follow) that wait, repeat, start each other; five commands; MaxClock 2 | 47,286 |
| timers | TimersSound, DelayHolds, ImplementsAlarmClock, Served | two delays of one operand and a cache of two rows on one queue; MaxTime 4, three commands, interval 2 | 257,495 |
| time_sched | Accurate, EdgesKept | every `Settling` expression over a few functions, a pulse; a time line of 70 units with casting domains of 1 and 4; two translations, two enables | 198,918 |
| tree_table | TreesSound, ImplementsTable | six tables: a column of eight; twelve elements in a Fibonacci tree, loaded, removals only; two columns and two values; ranges; mixed types; flatten and balance | 15,032 |
| rel_axon | AxonsSound, AxonsAccurate, FiresOnce | constants 1..4 of reals, 1..3 of strings under each operator, two mixed sets; MaxDirect 2 | 350,694 |
| msg_log | LogSound, ImplementsStream, CatchesUp | one follower, five records in files of two, sockets of two datagrams, two stops, one prune; counts that wrap around after the third record | 244,098 |
| msg_cabal | OneConnection, LostKnownWays, ServerStays, CatchesUp | ring of one, buffer of one; five records and eight connections with one opener, three and two with both; one fault | 549,257 (2 min) |
| peer_queue | PerformedInOrder, FilesSound, Delivered | two producers, up to two commands each, file sizes with and without limit, clock 0..1, one stop or failure, one pass that is empty or behind the header | 649,989 (1 min) |
| medulla | HandlersSound, LinesComplete, Concludes | a servant, a job and a waited command in five loads; pipes of one unit, pages of two, two children at most | 140,229 |

Several properties are conjunctions of named parts: ListsSound (TypeOK, OnePlace,
IfRulesListed) and FiresInTurn (InPriorityOrder, ScheduledIsTrue) of RuleCycle,
SubscriptionsSound (TypeOK, SubscriptionsCurrent, EnabledSubscribes) of
CellGraph, LogSound (TypeOK, Consecutive, NoConsumerExits) of MsgLog, TimersSound
(TypeOK, WaitsAlarmed, CacheSound) of Timers, TreesSound (TypeOK inside
StaysBalanced, EvaluatesRight, StoredLoads) of TreeTable, HandlersSound
(ProcessesSound, NeverReadsIdle) of Medulla; LostKnownWays and AxonsSound
include the types of their modules.

What they say:

- NothingLost, ReactDrains, ReactReturns: whoever carries the SCHEDULED flag is
  linked where linkP still comes by; nbCellReact returns, with nothing flagged.
  NoGlitch, SettledConsistent: no cell is evaluated twice in a reaction, and at
  its end each has the value of its expression.
- SubscriptionsSound, RulesInformed: subscriptions are to what is referred to
  now and, short of the hazards, to all that is needed; after a reaction every
  live rule knows the value its condition denotes.
- ListsSound, FiresInTurn, WhenFiresOnce, CycleComplete, CycleEnds: an action is
  in one list, and `status` tells which; scheduled actions are in priority order
  and their conditions true or they are marked; a when() rule fires once;
  a command cycle ends, with nothing scheduled unless the last thing asserted
  was by an action whose operation does not react (`unreacted`).
- RulesSound, ImplementsThreads, Proceeds: a sequence rule is in one list or
  waits for what it is subscribed to or timed for; it is a thread of its plan;
  every command and alarm comes to its end.
- TimersSound: a disabled or waiting delay, a cache with timed rows has its
  alarm; the counters agree with the rows. DelayHolds: a delay takes on a state
  it delays only when the operand has been in it for the duration.
  ImplementsAlarmClock and Served: the queue is the abstract clock, and
  nbClockAlert serves all that is due.
- Accurate, EdgesKept: a time condition is true exactly in the intervals its
  expression denotes, and casting by domains neither splits nor loses them.
- TreesSound, ImplementsTable: balance factors are heights, evaluation finds what
  the rows mean, a stored table loads as the same; the node is a table.
- AxonsSound, AxonsAccurate, FiresOnce: an axon's tree and memory are true to its
  conditions; each condition gets the value of its operator; a rule fires when
  its condition has become true and only then.
- LogSound, ImplementsStream, CatchesUp: the files hold consecutive records, no
  follower gives up but for the named crash window, it is a consumer of the
  abstract stream, and comes to the end when the producer has stopped writing.
- OneConnection, LostKnownWays, ServerStays, CatchesUp: a node has the connection
  it thinks it has; a record the client will never get was lost in one of two
  known ways; a server that started with an empty log never meets the fatal error
  of the ring, and one that itself connects never writes into a peer without
  buffer; the client comes to have the server's state.
- PerformedInOrder, FilesSound, Delivered: the commands of a producer are
  performed in order, again only after a stop; a file is put over no other, and
  what is stored is in a file until it is performed, unless it went into a file
  already taken by a process that had the name before the fence. Both hold until
  a file is named behind the header (`astray`); that fences fall behind is no
  exception. Every stored command is performed or lost in the end, also then.
- HandlersSound, LinesComplete, Concludes: a handler is called for the file and
  process it was made for; every line that was written and read is performed;
  a child that has ended is closed, but for the ways named.

Deadlock is checked in cell_react, cell_graph, rule_cycle and rel_axon,
where a command can always arrive. The other runs bound the work (records,
commands, stops, the calendar), so they end: CHECK_DEADLOCK FALSE, and the
liveness properties say that they do not end too early.

Every property of a run has at least one mutant in `PROJECT.json`: a definition
of the model changed as a plausible bug would change the code, for which TLC
finds the property violated.

### Fairness

- cell_react, rule_cycle: nbCellReact and nbRuleReact are loops that wait for
  nothing, on one thread, so `WF_vars(ReactStep)` and `WF_vars(Cycle)` say only
  that a running call goes on. Commands need never come.
- seq_rule: WF of the program's steps; SF of `Alarm`, for the main loop comes to
  nbClockAlert again and again although commands come in between; WF of time.
- timers: WF of the reaction to a command and of the steps of nbClockAlert, as one:
  nbMedullaPulse calls nbClockAlert before every wait.
- msg_log, msg_cabal, medulla (`FairSpec`): WF of the steps of programs that run,
  for the medulla calls the handler of a file that is ready and of a timer that is due;
  none of stops, breaks, restarts, children and other environment. `Enable` is
  fair on both sides, for the timer is set on both. A side of a
  cabal that only accepts need never notice a broken connection. CatchesUp of
  msg_cabal is stated for one opener: when both open, they may replace each
  other's connections for ever.
- peer_queue: WF of the consumer's passes, for the queue's schedule starts one
  after another, and of a producer that has begun. `MaxEmpty` bounds the passes
  over an empty directory and those with a fence behind the header: the clock
  passes the header again at some time.

## 4. Findings

`PROJECT.json` lists where the code does not do what its documentation or
comments say, with both places. They came up while the code was translated; the
models follow the code, so the passing properties name them as exceptions:
`stranded` (SeqRule), `clean` (CellGraph, RelAxon), `WrongEdge`, `MetTwice`
(RelAxon), `stale` (DelayCell), `spoiled`, `mixed` and `Crash` (TreeTable),
`unreacted` (RuleCycle), `lost`, `jumped`, `skipped`, `unbuffered` (MsgCabal),
`Overlooked`, `Elsewhere`, `crashed` (Medulla), `KeepsLock`, `astray`
(PeerQueue), or leave them out, as `Settling` does.

## 5. Proofs

Theorems are about every value of the constants: any number of cells, rules,
consumers, connections or producers, any bound. The assumptions on constants
are those the modules name, which TLC evaluates in the runs; one theorem has
hypotheses of its own (`CountsAlone` and `ThresholdsAscend`; below).

| Module | Theorem | Property | Assumptions |
|---|---|---|---|
| CellReactProofs | TypeCorrect, NoLostAlert, SettledIsConsistent, GlitchFree, ReactionDrains | TypeOK, NothingLost, SettledConsistent, NoGlitch, ReactDrains | CellAssumption |
| RuleCycleProofs | ListsAreSound, RulesFireInTurn, WhenRulesFireOnce, CyclesComplete | ListsSound, FiresInTurn, WhenFiresOnce, CycleComplete | RuleAssumption, CommandAssumption |
| MsgLogProofs | LogIsSound, LogImplementsStream | LogSound, ImplementsStream | BoundsAssumption, NeverAssumption |
| MsgCabalProofs | NodeHasOneConnection, RecordsLostKnownWays, ServerStaysUp | OneConnection, LostKnownWays, ServerStays | CabalAssumption, CacheAssumption |
| PeerQueueProofs | FilesAreSound, CommandsInOrder | FilesSound, PerformedInOrder | QueueAssumption |
| TimersProofs | WaitersAreAlarmed | DelayTypeOK, WaitsAlarmed (of TimersSound) | ClockAssumption, DelayAssumption, CacheAssumption |
| TimersProofs | DelaysHold, QueueImplementsAlarmClock | DelayHolds, ImplementsAlarmClock | the same |
| TimersProofs | TimersAreSound | TimersSound | these, CommandsAssumption, CountsAlone and ThresholdsAscend |
| MedullaProofs | HandlersAreSound, LinesAreComplete | HandlersSound, LinesComplete | MedullaAssumption |

Each proof has an inductive invariant, one lemma per action that shows that it
is kept, and a temporal theorem that combines them.

### The reaction (CellReactProofs)

    Inv == TypeOK /\ LevelsOrdered /\ NothingLost /\ Consistent /\ DoneBehind

`SettledConsistent` speaks only of the end of a reaction; `Consistent` is its
strengthening to every moment: a cell that is not scheduled has the value of
its expression. It is kept by a publication because alerting schedules exactly
the cells whose operands change. `NoGlitch` follows from `DoneBehind`: what has
been evaluated lies at or below linkP, and by `LevelsOrdered` a publication only
alerts cells above it. `NothingLost` is what makes `*linkP=link->next` harmless:
in an ordered graph nothing is filed in front of the evaluated link.
`LevelsOrdered` is thus the assumption on which the engine rests; CellGraph
shows where the code breaks it (`clean`).

### The command cycle (RuleCycleProofs)

    RulesInv == /\ TypeOK /\ DefinedRules /\ ScheduledIsTrue /\ InPriorityOrder
                /\ Apart /\ IfListed /\ FiredOnce

OnePlace counts the links to an action; `Apart` says the same of sets, and adds
that the lists on the stack, which nested calls of nbRuleReact took, share
nothing and that `status` tells whether an action is in one of them: without
that, alertRule could not rely on `status` alone. `IfListed` adds that only
defined rules are on the list of if() rules. `FiredOnce` gives the reason for
WhenFiresOnce: a when() rule that has fired is still being performed for as long
as it exists, so alertRule finds it not ready.

CycleComplete needs an invariant of its own, `OwedOrUnreacted`. `Owed`: whatever
changes a term is followed, in the code still to be executed by the innermost
function, by an evaluation, and whatever schedules an action by a nbRuleReact
(`Drains`). The actions of `Unreacted` break it: their operation is a system
command, an assertion without members or a `?`, and nothing reacts to what they
assert, although the comment at nbrule.c:835 calls the reaction automatic. From
then on only `Lax` is left: a change of a term is followed by an evaluation if
it comes after the first step that reacts (`LateDrains`), so that this step
restores `Owed` (OwedTake), in the same command or in a later one. Every action
that does react, if only a nested one, thus evaluates what an earlier one left.
CommandAssumption leaves out commands that undefine an
if() rule, for destroyAction (nbrule.c:764, a hazard) then cuts the list.

### The message log (MsgLogProofs)

    LogInv == DiskTypes /\ ConTypes /\ Disk /\ \A c \in Consumer : Sound(c)

`Disk` is about the producer: files follow each other (`Chained`), the newest is
where the link points but for the steps in between (`WriterAt`). `Sound` is
about a consumer: `Counts`, what it knows is in the log; `Redo`, it is at most two
records ahead of its cursor file, by the step it is at; `Whereabouts`, its file,
position and count agree as long as nothing was pruned. That last part is what
makes it safe to tell the end of a file by its footer, and a datagram's count
from the one expected modulo 2^32 (`WireProperties`). LogImplementsStream maps
each consumer to one of MsgStream: every step is a step of the stream or leaves
it alone.

### Connections of a cabal (MsgCabalProofs)

    CabalInv == \E n \in Nat : Matched(conns, n, node)

`Matched`: of the n connections so far, those whose end at x is in the hands of
its msgnode (`Owns`) are exactly the one the node names, in every state but
"disconnected". OneConnection is the half of it one can see.

    KeptInv   == PeerOK /\ \E n \in Nat : Before(n)
    Before(n) == Matched(conns, n, node) /\ LinksOK(n) /\ LogOK /\ ClientOK /\ FlagsOK

LostKnownWays is about what lies between a record of the log and the client: the
ring, the newest subscriber, the buffer of the peer and the wire. `LinksOK` has
the way of each connection, `Sound`: what it may hold (`Typed`); that before the
client has read the server's hello nothing but hellos is under way (`Greeting`),
and after it the records on the wire and in the buffer are consecutive, from the
client's state to the last one the subscriber sent (`Running`); and that an end
belongs to a program that is up (`Manned`). The order is claimed only while
neither of the two known ways to lose a record was taken (`Quiet`) and the
connection is not broken. For that the newest subscriber is `Steady`: a record it
was refused is offered again where the ring has it.

`LogOK` has the ring (`Ring`) and the subscribers, old ones too (`Fit`). Of each
operator that serves one (InSequence, FromCache, FromLog, Publish) a lemma says
what its callers need, `Serves`: what is sent fits the room and `Follows` the
record sent last, and the subscriber is again `Fit`. A ring keeps a file
position that is ahead of its first record by the records that the log held when
it was opened (`base = start + loaded`): if those are none, a subscriber never
points past the record it needs (`next <= count + 1`), so InSequence never meets
a gap. This is ServerStaysUp. With `loaded > 0` it may: a stomped subscriber then
goes back to a place in the files behind the records it needs. The other half is
`PeerOK`: a server that knows where the client listens has the peer without
buffer only from its start until it first connects or accepts, when nobody has
subscribed (PeerNext). A crash leaves no subscriber and closes the server's ends
(CrashKeeps), so the order of what was sent before it stands.

nbMsgCacheInsert serves one subscriber after the other into the room the earlier
ones left. `Served` is a recursive function on the number already served; as the
prover has no induction for it, `ServedUnfolds` and `ServedServing` take the least
number at which the claim fails and show that it failed one step before.

### Queue files (PeerQueueProofs)

    QueueOrAstray == astray \/ QueueInv
    QueueInv == load \in Loads /\ DOMAIN files = Commands
                /\ Queue(header, files, prod, cons, waiting, done, again)

`Queue` has eight parts. `Directory`: a name is one file's, and is not above the
header; a name given out for a put is nobody else's. `Fence`: a process that got
its name after the fence rose has one that is not below any name of the list,
also if the fence is behind the header, so it cannot have a file that the consumer opened.
`Position`: the file being read is the first of the list, all before the
position is marked. `Known`: what lies in a file has been stored. `Waiting`: what
waits lies unmarked in a file, or was appended behind the consumer's back.
`Sequence`: the commands of a process lie in its files in order, and those the
pass leaves out are later than those it reads. `Order`: what is still unmarked
comes after all that was performed, or is known to be repeated. The parts are
about values, not variables, so that one lemma serves the steps that differ only
in locks (`ViewKept`) or in giving up a pass (`PassEnds`).

The theorems are about names whose count does not overflow its six digits, which
the code does not see to (nbqueue.c:372, a finding), and hold until a file is
given a name behind the header's time (nbqueue.c:358, another): from then on
nothing is claimed (OnceAstray).

### Timers (TimersProofs)

    Inv == ClockSound /\ DelaySound /\ CacheWaits

`ClockSound`: nb_timerQueue is in order of time and holds at most one timer of
an object; nbClockAlert serves no second the clock has not shown. What
nbClockSetTimer does is stated once for a queue of any length (`CancelledKeeps`,
`InsertedKeeps`): what becomes of the time of each object, and of the order
within a second. From then on a delay condition or the cache sees the queue as
one number, the time its timer is due or 0. `DelaySound` (`Settled`) says that
NB_CELL_MODE_TIMER is set exactly when there is a timer, and that a timer set by
a clock that showed the time is due no earlier than the operand's last change
plus the duration; that is all DelayHolds needs. `CacheWaits` (`Awaited`) has
the delicate part, for cacheAlarm clears CACHE_STATE_ALARM and sets no timer
until it has walked the list. Outside of it, a cache with rows has its timer,
due no later than the first row; inside, the flag is set only when a rule
asserted a row into a list it found empty, and that row is beyond the limit of
the walk, so the walk ends and leaves its timer alone or sets it to the same
row.

QueueImplementsAlarmClock maps `due` and `ahead` as Timers does and shows step
by step that setting, cancelling and ringing are AlarmClock's.

The rest of TimersSound, that the counters of the cache agree with its rows, its
elements and its thresholds, has an invariant of its own, for rows of any length
and number:

    Holds(cache) == Tree(nodes) /\ Held(nodes, list) /\ Counts(nodes, list, number)
                    /\ Marks(number, index)              (the main parts)

It says of all branches, also of those without a node, what CacheSound says of
the nodes: a branch that is cut off must leave zeros and first thresholds behind,
or a row asserted later would start from them. `Tree`: with a node there is its
path, and a row under it. An assertion adds the rest of one path (`TreeGrows`), a
retraction or a last expiration cuts off the topmost branch that nothing else
needs (`TopmostIs`, `TreePruned`). What goes with it is what lies under the node
that is named (`OnlyBranch`), which is why cacheRemoveNode may take that node's
counters off every one above. `Places` relates hits to elements: the hits of a node are the
elements for rows under it, whether an element is appended, taken off the front
by cacheAlarm, or dropped with its row (`PlacesAppend`, `PlacesTail`,
`PlacesSelected`). `Marked` is about one counter: as it rises by one at a time it
meets one threshold at most, and as it falls below the reset threshold it starts
again (`MarkRises`, `MarkFalls`).

The hypotheses: hits are counted without the options EXPIRE and EXIST
(`CountsAlone`), for with them a row keeps one element for all its hits
(nb_cache.c:1155, a finding); and thresholds ascend (`ThresholdsAscend`), which
cacheParseThreshold does not see to: a counter that reaches a high threshold
first and a lower one after it looks at them one at a time, and at most one in an
assertion.

### The event server (MedullaProofs)

    MedullaInv == /\ Flags
                  /\ Processes(proc, life, ends, pipe) /\ Distinct(proc) /\ Counted(proc, count)
                  /\ Pointed(servant, proc) /\ Listed(handlers, proc) /\ Stack(calls, proc)
                  /\ Visits(handlers, left, at, fdset, ends, pipe, calls)
                  /\ Handed(proc, pipe, calls)

`Listed` makes HandlersSound exact: the entries that are not dropped are those of
the files that are watched (`Watch`), one each. It holds although numbers are
used again, because a number is free only when its file is closed (`Distinct`,
`LowestIsFree`), and nbMedullaWaitEnable then takes over the dropped entry that
still has it, wherever that stands in the list.
`Visits` is why NeverReadsIdle holds while commands change what the pulse walks:
of the entries behind the one being visited none is dropped, none is new (new
ones come first, `Grown`), and one whose number is in the sets was found ready
and stays so, for only the program empties a pipe and it does so at its turn.
It needs that a file being written has been passed, so it says that too.
`Process` holds what closing relies on: a file that the program closed was at
its end and is empty, and a closed process has given out all its lines.
`Stack` says that a wait for a process lies beneath every call that hands over
its lines, so that it cannot be closed under them; with `Handed` that is
LinesComplete. LinesComplete speaks of whole lines; half a line that a child
never ended is dropped, as in nbMedullaQueueGet.

### Only model-checked

- Liveness under fairness (ReactReturns, CycleEnds, Proceeds, Served, CatchesUp,
  Delivered, Concludes): the prover has no rule for it.
- What recursive definitions compute: SubscriptionsSound and RulesInformed
  (CellGraph), RulesSound and ImplementsThreads (SeqRule), TreesSound and
  ImplementsTable (AvlTree), AxonsSound, AxonsAccurate and FiresOnce (RelAxon),
  Accurate and EdgesKept (TimeExpr, TimeSched). The enabling, casting and
  balancing functions call themselves in the code; the prover cannot use a module
  with RECURSIVE operators.

## 6. Plan

Next to be proved: `AtomicReaction`, in which a
reaction gives all cells their final values in one step, implemented by
CellReact with the settled values as refinement mapping; RuleCycle's `Condition`
stands for it.

## 7. Not modelled, and why

Arithmetic, strings and regular expressions (pure functions of values); parsing,
printing, logging, translators (text); memory pools and reference counts, except
where an action or a process is freed; TLS, HTTP, mail, the Windows service
(I/O); cryptography of the peer module; start-up and plug-in loading; the modules
that turn input into assertions, which are commands and node actions to the
engine. `PROJECT.json` lists each with its reason. What happens beyond the 100
entries of evalVector, after an action is freed while linked, or after a pointer
to a freed process is followed, is undefined; the models stop short of it or
mark the state (`crashed`).
