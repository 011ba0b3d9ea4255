------------------------------ MODULE MsgCabal ------------------------------
(* A message server and a client of one cabal (nbmsg.c), over connections  *)
(* of nbpeer.c.  Either may be configured to connect to the other; a timer *)
(* brings a lost connection back 30 seconds later; an accepted connection  *)
(* replaces the one a node had.  After the hello records the client sends  *)
(* its state, the server subscribes to its message cache on behalf of the  *)
(* client, and sends what the client has not seen.  Connections break, one *)
(* end may notice long before the other, and both programs may stop and be *)
(* started again.                                                          *)
EXTENDS MsgCache, FiniteSets

CONSTANTS
  BufMax,       \* records a peer's buffer holds
  Limits,       \* the configurations (the sides that know where the other
                \* listens), and the records and connections made in each
  MaxFaults     \* bound: broken connections and stopped programs

Server == "server"
Client == "client"
Side == {Server, Client}
Other(x) == IF x = Server THEN Client ELSE Server

ASSUME CabalAssumption ==
  /\ BufMax \in Nat \ {0} /\ MaxFaults \in Nat
  /\ DOMAIN Limits \subseteq (SUBSET Side) \ {{}}
  /\ \A o \in DOMAIN Limits : Limits[o].records \in 0..MaxRecords /\ Limits[o].conns \in Nat

VARIABLES
  openers,      \* the sides that know where the other listens
  up,           \* whether each program is running
  node,         \* node[x]: x's msgnode for the other: its state and the number
                \* of its current connection (peer)
  timer,        \* timer[x]: the timer of x's cabal synapse is set
  conns,        \* the connections ever made
  got,          \* the client's state: the last record it took
  lost,         \* history: records it will never take
  jumped,       \* history: a subscription of an earlier connection sent a record
  skipped,      \* history: a paused subscriber's record left the ring
  fatal,        \* history: the server ended with a fatal error or a crash
  unbuffered,   \* history: it wrote into a peer that has no buffer
  faults        \* history: connections broken and programs stopped

clientVars == <<got, lost>>
history == <<jumped, skipped, fatal, unbuffered, faults>>
nodes == <<openers, up, node, timer>>
vars == <<cacheVars, nodes, conns, clientVars, history>>

Hello == [type |-> "hello", n |-> 0]
State(n) == [type |-> "state", n |-> n]
Message(n) == [type |-> "message", n |-> n]

Down == [state |-> "disconnected", peer |-> 0]

(* A connection of opener x.  nbPeerConnecter sends the hello of each end;  *)
(* only at the end of a server that connects can something be put into the *)
(* buffer before.                                                          *)
Early(x, y) == x = Server /\ y = Server
Conn(x) ==
  [opener |-> x,
   end |-> [y \in Side |-> IF Early(x, y) THEN "hello" ELSE "greet"],
   out |-> <<>>,
   wire |-> [y \in Side |-> IF Early(x, y) THEN <<>> ELSE <<Hello>>],
   fresh |-> FALSE, broken |-> FALSE]
Gone == [opener |-> Server, end |-> [y \in Side |-> "closed"], out |-> <<>>,
         wire |-> [y \in Side |-> <<>>], fresh |-> FALSE, broken |-> FALSE]

Init ==
  /\ written = 0 /\ cache = Opened(0) /\ subs = <<>> /\ loaded = 0
  /\ openers \in DOMAIN Limits
  /\ up = [x \in Side |-> TRUE]
  /\ node = [x \in Side |-> Down]
  /\ timer = [x \in Side |-> x \in openers]
  /\ conns = <<>>
  /\ got = 0 /\ lost = {}
  /\ jumped = FALSE /\ skipped = FALSE
  /\ fatal = FALSE /\ unbuffered = FALSE /\ faults = 0

Live(x, k) == conns[k].end[x] # "closed"
IsOpener(x, k) == conns[k].opener = x
(* The ends whose handle is the msgnode: the opener's, and the acceptor's  *)
(* once the hello has told which node it is.                               *)
Identified(x, k) == IsOpener(x, k) \/ conns[k].end[x] \in {"state", "run"}

(* An end is closed: what it has buffered is dropped, what is under way to *)
(* it is not read; what it wrote before still arrives.                     *)
Closed(r, x) ==
  CASE r.end[Other(x)] = "closed" -> Gone
    [] r.end[Other(x)] # "closed" /\ x = Server ->
         [r EXCEPT !.end[x] = "closed", !.wire[Client] = <<>>, !.out = <<>>, !.fresh = FALSE]
    [] OTHER -> [r EXCEPT !.end[x] = "closed", !.wire[Server] = <<>>]

(* nbMsgPeerShutdown.                                                      *)
Disconnected(v) == [v EXCEPT !.state = "disconnected"]
(* Mutant: the synapse's timer is not set.                                 *)
RetryNot(x) == timer
Retry(x) == [timer EXCEPT ![x] = TRUE]

(* nbPeerShutdown of x's end of k.                                         *)
Shutdown(x, k) ==
  /\ conns' = [conns EXCEPT ![k] = Closed(@, x)]
  /\ IF Identified(x, k)
     THEN node' = [node EXCEPT ![x] = Disconnected(@)] /\ timer' = Retry(x)
     ELSE UNCHANGED <<node, timer>>

-----------------------------------------------------------------------------
(* Connecting.                                                             *)

(* nbPeerConnect of the peer made with the node (peer4Connect).  On a side *)
(* that only accepts it has no address: it takes the place of the accepted *)
(* peer, and the connection fails before it gets buffers.                  *)
Connect(x) ==
  /\ x \in openers /\ up[Other(x)] /\ Len(conns) < Limits[openers].conns
  /\ conns' = Append(conns, Conn(x))
  /\ node' = [node EXCEPT ![x] = [@ EXCEPT !.state = "connecting", !.peer = Len(conns) + 1]]
ConnectRefused(x) ==
  /\ x \in openers /\ ~up[Other(x)]
  /\ node' = [node EXCEPT ![x] = Disconnected(@)] /\ UNCHANGED conns
ConnectNowhere(x) ==
  /\ x \notin openers
  /\ node' = [node EXCEPT ![x].peer = 0] /\ UNCHANGED conns

(* nbMsgCabalRetry, nbMsgCabalEnable: the timer is cancelled, and set again *)
(* unless the node is connected or its peer has no address.  A call within *)
(* 30 seconds of downTime only sets the timer again.                       *)
HasAddress(x) == x \in openers \/ node[x].peer # 0
Enable(x) ==
  /\ up[x] /\ timer[x]
  /\ IF node[x].state = "disconnected"
     THEN Connect(x) \/ ConnectRefused(x) \/ ConnectNowhere(x)
     ELSE UNCHANGED <<node, conns>>
  /\ timer' = [timer EXCEPT ![x] = HasAddress(x) /\ node[x].state # "connected"]
  /\ UNCHANGED <<cacheVars, openers, up, clientVars, history>>

(* nbPeerConnecter calls nbMsgPeerHelloProducer and writes the buffer.     *)
SendHello(k) ==
  /\ conns[k].end[Server] = "hello" /\ ~conns[k].broken
  /\ conns' = [conns EXCEPT ![k].end[Server] = "greet", ![k].out = <<>>,
                 ![k].wire[Server] = conns[k].out \o <<Hello>>]
  /\ UNCHANGED <<cacheVars, nodes, clientVars, history>>

Arrived(x, k, type) ==
  /\ Live(x, k) /\ conns[k].wire[Other(x)] # <<>>
  /\ Head(conns[k].wire[Other(x)]).type = type
Taken(k, x) == [conns[k] EXCEPT !.wire[Other(x)] = Tail(@)]

(* What follows the hello: the client sends its state and is connected,    *)
(* the server waits for it.                                                *)
Greeted(r, x) ==
  IF x = Client
  THEN [r EXCEPT !.end[x] = "run", !.wire[x] = Append(@, State(got))]
  ELSE [r EXCEPT !.end[x] = "state"]
StateGreeted(x) == IF x = Client THEN "connected" ELSE "connecting"

(* nbMsgPeerHelloConsumer.                                                 *)
HelloToOpener(x, k) ==
  /\ Arrived(x, k, "hello") /\ IsOpener(x, k) /\ conns[k].end[x] = "greet"
  /\ conns' = [conns EXCEPT ![k] = Greeted(Taken(k, x), x)]
  /\ node' = [node EXCEPT ![x].state = IF x = Client THEN "connected" ELSE @]
  /\ UNCHANGED <<cacheVars, openers, up, timer, clientVars, history>>

(* nbMsgCabalAcceptHelloConsumer: a connection the node has is shut down   *)
(* first.                                                                  *)
(* Mutant: the old connection is left alone.                               *)
ReplacedKeep(x, k) == [conns EXCEPT ![k] = Greeted(Taken(k, x), x)]
Replaced(x, k) ==
  LET greeted == [conns EXCEPT ![k] = Greeted(Taken(k, x), x)]
      old == node[x].peer
  IN IF node[x].state # "disconnected" /\ old # k
     THEN [greeted EXCEPT ![old] = Closed(@, x)] ELSE greeted

HelloToAcceptor(x, k) ==
  /\ Arrived(x, k, "hello") /\ ~IsOpener(x, k) /\ conns[k].end[x] = "greet"
  /\ conns' = Replaced(x, k)
  /\ node' = [node EXCEPT ![x] = [@ EXCEPT !.state = StateGreeted(x), !.peer = k]]
  /\ timer' = IF node[x].state = "disconnected" THEN timer ELSE Retry(x)
  /\ UNCHANGED <<cacheVars, openers, up, clientVars, history>>

(* The first record is not the one the consumer expects.                   *)
Refuse(x, k) ==
  /\ Live(x, k) /\ conns[k].wire[Other(x)] # <<>>
  /\ \/ conns[k].end[x] = "greet" /\ ~IsOpener(x, k) /\ ~Arrived(x, k, "hello")
     \/ conns[k].end[x] = "state" /\ ~Arrived(x, k, "state")
  /\ Shutdown(x, k)
  /\ UNCHANGED <<cacheVars, openers, up, clientVars, history>>

(* nbMsgPeerStateConsumer: a subscription from the client's state on.  The *)
(* one of an earlier connection is not cancelled; the model keeps it when  *)
(* nbMsgCacheInsert still calls it.                                        *)
CanPublish(s) == s.mode = "cache" /\ ~s.paused
(* The elements of s at the places I, in their order.                      *)
Selected(s, I) ==
  [n \in 1..Cardinality(I) |-> s[CHOOSE i \in I : Cardinality({j \in I : j < i}) = n - 1]]
Subscribe(k) ==
  /\ Arrived(Server, k, "state") /\ conns[k].end[Server] = "state"
  /\ LET state == Head(conns[k].wire[Client]).n
         called == {i \in DOMAIN subs : CanPublish(subs[i])}
     IN subs' = Append(Selected(subs, called), Subscriber(state))
  /\ conns' = [conns EXCEPT ![k] = [Taken(k, Server) EXCEPT !.end[Server] = "run", !.fresh = TRUE]]
  /\ node' = [node EXCEPT ![Server].state = "connected"]
  /\ UNCHANGED <<written, cache, loaded, openers, up, timer, clientVars, history>>

(* nbMsgPeerConsumer, nbMsgLogWriteReplica: a record with a higher number  *)
(* than the state is taken.                                                *)
Take(k) ==
  /\ Arrived(Client, k, "message") /\ conns[k].end[Client] = "run"
  /\ LET n == Head(conns[k].wire[Server]).n
     IN IF n > got THEN got' = n /\ lost' = lost \cup (got + 1)..(n - 1)
        ELSE UNCHANGED clientVars
  /\ conns' = [conns EXCEPT ![k] = Taken(k, Client)]
  /\ UNCHANGED <<cacheVars, nodes, history>>

-----------------------------------------------------------------------------
(* The server's cache.                                                     *)

Produce ==
  /\ written < Limits[openers].records
  /\ written' = written + 1
  /\ UNCHANGED <<cache, subs, loaded, nodes, conns, clientVars, history>>

(* nbPeerSend: what fits between wloc and the end of wbuf.  The buffer of  *)
(* a peer that is shut down is gone, wloc is left: it refuses.  A peer that *)
(* never was connected has neither, and refuses nothing.                   *)
Peer == node[Server].peer
Room == IF Peer = 0 THEN BufMax
        ELSE IF ~Live(Server, Peer) \/ Len(conns[Peer].out) > BufMax THEN 0
        ELSE BufMax - Len(conns[Peer].out)
WithRecords(r, ns) == [r EXCEPT !.out = @ \o [i \in 1..Len(ns) |-> Message(ns[i])]]

(* "terminating": the process exits and its sockets are closed.            *)
Ended(x) ==
  /\ up' = [up EXCEPT ![x] = FALSE]
  /\ node' = [node EXCEPT ![x] = Down]
  /\ timer' = [timer EXCEPT ![x] = FALSE]
  /\ conns' = [k \in 1..Len(conns) |-> IF Live(x, k) THEN Closed(conns[k], x) ELSE conns[k]]
  /\ subs' = IF x = Server THEN <<>> ELSE subs
Sent(r, k, subscribers) ==
  /\ fatal' = r.exit
  /\ IF r.exit THEN Ended(Server)
     ELSE subs' = subscribers /\ conns' = k /\ UNCHANGED <<up, node, timer>>

(* nbPeerSend copies the record to NULL: the program ends.                 *)
Crash == Ended(Server) /\ fatal' = TRUE /\ unbuffered' = TRUE /\ UNCHANGED jumped
Deliver(r) ==
  /\ Sent(r, IF r.sent = <<>> THEN conns ELSE [conns EXCEPT ![Peer] = WithRecords(@, r.sent)],
          r.subs)
  /\ jumped' = (jumped \/ r.stale \/ (r.sent # <<>> /\ conns[Peer].end[Server] # "run"))
  /\ UNCHANGED unbuffered

(* nbMsgCacheInsert.                                                       *)
Insert ==
  /\ up[Server] /\ cache.end < written
  /\ cache' = Inserted(cache)
  /\ \E r \in {Served(Room)} : IF Peer = 0 /\ r.sent # <<>> THEN Crash ELSE Deliver(r)
  /\ skipped' = (skipped \/ (subs # <<>> /\ Stomped(subs[Len(subs)], cache) /\ subs[Len(subs)].again))
  /\ UNCHANGED <<written, loaded, openers, clientVars, faults>>

(* nbPeerWriter: the buffer is written, then the producer is called, which *)
(* publishes for the subscription of the node.                             *)
Write(k) ==
  /\ Live(Server, k) /\ conns[k].end[Server] # "hello" /\ ~conns[k].broken
  /\ conns[k].wire[Server] = <<>>
  /\ conns[k].out # <<>> \/ conns[k].fresh
  /\ LET flushed == [conns[k] EXCEPT !.wire[Server] = conns[k].out, !.out = <<>>, !.fresh = FALSE]
         n == Len(subs)
     IN IF conns[k].end[Server] = "run"
        THEN \E r \in {Publish(subs[n], cache, BufMax)} :
               Sent(r, [conns EXCEPT ![k] = WithRecords(flushed, r.sent)], [subs EXCEPT ![n] = r.sub])
        ELSE /\ conns' = [conns EXCEPT ![k] = flushed]
             /\ UNCHANGED <<subs, fatal, up, node, timer>>
  /\ UNCHANGED <<written, cache, loaded, openers, clientVars, jumped, skipped, unbuffered, faults>>

-----------------------------------------------------------------------------
(* Losing connections.                                                     *)

(* The other end is closed and all it wrote was read.                      *)
EndOfFile(x, k) ==
  /\ Live(x, k) /\ ~Live(Other(x), k) /\ ~conns[k].broken /\ conns[k].wire[Other(x)] = <<>>
  /\ Shutdown(x, k)
  /\ UNCHANGED <<cacheVars, openers, up, clientVars, history>>

Break(k) ==
  /\ faults < MaxFaults /\ ~conns[k].broken /\ \E x \in Side : Live(x, k)
  /\ conns' = [conns EXCEPT ![k].broken = TRUE, ![k].wire = [x \in Side |-> <<>>]]
  /\ faults' = faults + 1
  /\ UNCHANGED <<cacheVars, nodes, clientVars, jumped, skipped, fatal, unbuffered>>

Notice(x, k) ==
  /\ Live(x, k) /\ conns[k].broken
  /\ Shutdown(x, k)
  /\ UNCHANGED <<cacheVars, openers, up, clientVars, history>>

(* A program stops; its log, and so its state, stays.                      *)
Stop(x) ==
  /\ up[x] /\ faults < MaxFaults
  /\ Ended(x)
  /\ faults' = faults + 1
  /\ UNCHANGED <<written, cache, loaded, openers, clientVars, jumped, skipped, fatal, unbuffered>>

Start(x) ==
  /\ ~up[x] /\ ~fatal
  /\ up' = [up EXCEPT ![x] = TRUE]
  /\ timer' = [timer EXCEPT ![x] = x \in openers]
  /\ IF x = Server THEN cache' = Opened(written) /\ loaded' = written
     ELSE UNCHANGED <<cache, loaded>>
  /\ UNCHANGED <<written, subs, openers, node, conns, clientVars, history>>

Consume(x, k) == HelloToOpener(x, k) \/ HelloToAcceptor(x, k) \/ Refuse(x, k) \/ EndOfFile(x, k)
Serve(k) == SendHello(k) \/ Subscribe(k) \/ Take(k) \/ Write(k)
Connections == 1..Len(conns)

Next ==
  \/ \E x \in Side : Enable(x) \/ Stop(x) \/ Start(x)
  \/ \E k \in Connections :
       Serve(k) \/ Break(k) \/ \E x \in Side : Consume(x, k) \/ Notice(x, k)
  \/ Produce \/ Insert

Spec == Init /\ [][Next]_vars

(* The medulla calls the handlers of sockets and timers, and of the log,    *)
(* whose steps are those that add a record to the ring.  A side that only   *)
(* accepts may never notice that a connection is broken.                    *)
Inserting == up[Server] /\ cache.end < written /\ cache' = Inserted(cache)
System ==
  \/ \E x \in Side : Enable(x)
  \/ \E k \in Connections :
       Serve(k) \/ \E x \in Side : Consume(x, k) \/ (x \in openers /\ Notice(x, k))
FairSpec == Spec /\ WF_cache(Inserting) /\ WF_vars(System)

-----------------------------------------------------------------------------
TypeOK ==
  /\ CacheTypeOK
  /\ openers \subseteq Side /\ up \in [Side -> BOOLEAN] /\ timer \in [Side -> BOOLEAN]
  /\ \A x \in Side : /\ node[x].state \in {"disconnected", "connecting", "connected"}
                      /\ node[x].peer \in 0..Len(conns)
  /\ \A k \in Connections :
       /\ \A x \in Side : conns[k].end[x] \in {"hello", "greet", "state", "run", "closed"}
       /\ Len(conns[k].out) <= BufMax
  /\ got \in 0..written /\ lost \subseteq 1..written

(* A node that is not disconnected has exactly one connection, which is    *)
(* its current one, and a disconnected node has none: no handler of an     *)
(* earlier connection can change the state of the node any more.           *)
OneConnection ==
  \A x \in Side : \A k \in Connections :
    Live(x, k) /\ Identified(x, k) <=> node[x].state # "disconnected" /\ node[x].peer = k

(* The only ways for a client to miss a record: a subscription of an       *)
(* earlier connection sent a newer one first, or the ring dropped the      *)
(* record a paused subscriber was to be offered again.  All variables keep *)
(* their types.                                                            *)
LostKnownWays == TypeOK /\ (lost # {} => jumped \/ skipped)

(* "Record count sequence error - terminating" (and the other fatal ends   *)
(* of nbMsgCachePublish) needs a server that found records in its log when *)
(* it started.  Only a server that does not know where the client listens  *)
(* can be brought down otherwise, by a subscription that outlived its      *)
(* connection and is served through a peer without a buffer.               *)
ServerStays == fatal => loaded > 0 \/ (unbuffered /\ Server \notin openers)

(* When one side connects and both keep running, the client comes to have  *)
(* the state of the server's log, whatever connections broke.              *)
CatchesUp ==
  Cardinality(openers) = 1 /\ <>[](\A x \in Side : up[x]) => <>[](got = written)
============================================================================
