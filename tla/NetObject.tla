----------------------------- MODULE NetObject -----------------------------
(***************************************************************************)
(* A network object (native/net/native_net.cpp) over its socket engine     *)
(* (net_event.cpp): a TCP server with its slots, a TCP client, or a UDP    *)
(* socket.  libevent calls the engine from the Poll of any module's tick,  *)
(* and the engine queues events; the object's own tick hands them to the   *)
(* script's callback.  Sends made in a callback wait for the end of the    *)
(* tick, and a close too.                                                  *)
(*                                                                         *)
(* Connections are numbered in the order they were made (for UDP they are  *)
(* the peers); the script knows a server's connections by their slot.      *)
(* Messages are whole here: NetFraming has the bytes.                      *)
(***************************************************************************)
EXTENDS Integers, FiniteSets, SequencesExt

CONSTANTS MaxSlots,     \* max_conn
          MaxConns,     \* bound: connections ever made
          MaxMsgs,      \* bound: messages a peer sends
          MaxPending,   \* kMaxPendingSends
          MaxCalls      \* bound: calls of send and close_connection

VARIABLES net,       \* the NetObject: kind, handshake, live, depth, closing, pending, lastPeer
          conn,      \* the EventConn of each connection
          slots,     \* conns_ of the server, conn_ of the client: connections, 0 where there is none
          queue,     \* events_
          batch,     \* the events that the tick took out of events_
          stack,     \* the callbacks that run: connection, slot and who called
          npc,       \* "out" of the tick, or in its "drain" loop
          seen,      \* history: what the callback was told of each connection that is not spoiled
          echoed,    \* history: the answers that were written, [from, to]
          spoiled,   \* history: connections closed by close_connection, or with events lost to an error
          freed      \* history: what freed the object while its own code was running

netVars == <<net, conn, slots, queue, batch, stack, npc, seen, echoed, spoiled, freed>>

Conns == 1..MaxConns
NoConn == [st |-> "none", ready |-> FALSE, msgs |-> 0]

\* A client has started to connect; a UDP socket hears every peer.
NetInit ==
    /\ \E k \in {"server", "client", "udp"}, hs \in BOOLEAN :
          /\ k = "udp" => ~hs
          /\ net = [kind |-> k, handshake |-> hs, live |-> TRUE, depth |-> 0, closing |-> FALSE,
                    pending |-> <<>>, lastPeer |-> 0, calls |-> 0]
          /\ conn = [c \in Conns |-> IF k = "client" /\ c = 1 THEN [NoConn EXCEPT !.st = "open"]
                                     ELSE IF k = "udp" THEN [st |-> "open", ready |-> TRUE, msgs |-> 0] ELSE NoConn]
          /\ slots = IF k = "client" THEN <<1>> ELSE <<>>
    /\ queue = <<>> /\ batch = <<>> /\ stack = <<>> /\ npc = "out"
    /\ seen = [c \in Conns |-> <<>>] /\ echoed = {} /\ spoiled = {} /\ freed = {}

Script == UNCHANGED <<seen, echoed, spoiled, freed>>
SlotOf(c) == IF net.kind = "udp" THEN 1 ELSE CHOOSE i \in DOMAIN slots : slots[i] = c
IsOpen(c) == c # 0 /\ conn[c].st = "open"
Ready(c) == IsOpen(c) /\ conn[c].ready

-----------------------------------------------------------------------------
(* The engine: what libevent calls, in the Poll of some module's tick.     *)

Polling == npc = "out" /\ stack = <<>> /\ net.live
Event(kind, c, slot, msg) == [kind |-> kind, conn |-> c, slot |-> slot, msg |-> msg]
Emits(es) == queue' = queue \o es

\* The first slot whose connection is gone, or a new one.
FreeSlot ==
    LET free == {i \in DOMAIN slots : ~IsOpen(slots[i])}
    IN  IF free = {} THEN Len(slots) + 1 ELSE CHOOSE i \in free : \A j \in free : i <= j

\* A connection that needs no handshake is ready at once. Beyond max_conn the socket is closed.
OnAccept ==
    /\ Polling /\ net.kind = "server"
    /\ \E c \in Conns :
          /\ conn[c].st = "none" /\ \A d \in Conns : d < c => conn[d].st # "none"
          /\ FreeSlot <= MaxSlots
          /\ conn' = [conn EXCEPT ![c].st = "open", ![c].ready = ~net.handshake]
          /\ slots' = IF FreeSlot > Len(slots) THEN Append(slots, c) ELSE [slots EXCEPT ![FreeSlot] = c]
          /\ Emits(IF net.handshake THEN <<>> ELSE <<Event("conn", c, FreeSlot, 0)>>)
    /\ UNCHANGED <<net, batch, stack, npc>> /\ Script

\* connect(), TLS or the WebSocket upgrade is done.
MarkReady(c) ==
    /\ Polling /\ IsOpen(c) /\ ~conn[c].ready /\ net.kind # "udp"
    /\ conn' = [conn EXCEPT ![c].ready = TRUE]
    /\ Emits(<<Event("conn", c, SlotOf(c), 0)>>)
    /\ UNCHANGED <<net, slots, batch, stack, npc>> /\ Script

\* A message of the peer.
HandleRead(c) ==
    /\ Polling /\ Ready(c) /\ conn[c].msgs < MaxMsgs
    /\ conn' = [conn EXCEPT ![c].msgs = @ + 1]
    /\ Emits(<<Event("recv", c, SlotOf(c), conn[c].msgs + 1)>>)
    /\ UNCHANGED <<net, slots, batch, stack, npc>> /\ Script

CloseConn(c) == conn' = [conn EXCEPT ![c].st = "closed", ![c].ready = FALSE]

\* The peer closes, the socket fails, or the peer breaks the protocol.
EventCb(c) ==
    /\ Polling /\ IsOpen(c) /\ net.kind # "udp"
    /\ CloseConn(c)
    /\ Emits(<<Event("close", c, SlotOf(c), 0)>>)
    /\ UNCHANGED <<net, slots, batch, stack, npc>> /\ Script

-----------------------------------------------------------------------------
(* Sending.  A pending send has the slot or peer it goes to, and, as       *)
(* history, the connection it answers (0: none) and whether it was queued  *)
(* in this object's own tick.                                              *)

\* Where a send to this slot arrives: nowhere, or at the connection that is in the slot now.
Target(to) ==
    IF net.kind = "udp" THEN to
    ELSE IF to \in DOMAIN slots /\ slots[to] # 0 /\ Ready(slots[to]) THEN slots[to] ELSE 0

\* What DoSend writes for these sends.
DoSend(ps) == echoed' = echoed \cup {[from |-> p.from, to |-> Target(p.to)] : p \in {q \in Range(ps) : q.from # 0 /\ Target(q.to) # 0}}

\* In a dispatch the send waits in pending_sends, unless there are too many.
SendOrQueue(n, p, dispatching) ==
    IF dispatching
    THEN /\ net' = IF Len(n.pending) < MaxPending THEN [n EXCEPT !.pending = Append(@, p)] ELSE n
         /\ UNCHANGED echoed
    ELSE net' = n /\ DoSend(<<p>>)

InTick == npc = "drain"
CanCall == net.live /\ (stack # <<>> \/ npc = "out")

\* obj:send from a callback of this object, from the host, or from a callback of another module.
NetSend ==
    /\ CanCall /\ net.calls < MaxCalls
    /\ \E to \in 1..MaxSlots, foreign \in BOOLEAN :
          /\ foreign => npc = "out"
          /\ SendOrQueue([net EXCEPT !.calls = @ + 1], [to |-> to, from |-> 0, own |-> InTick], InTick \/ foreign)
    /\ UNCHANGED <<conn, slots, queue, batch, stack, npc, seen, spoiled, freed>>

-----------------------------------------------------------------------------
(* Callbacks.                                                              *)

Calls(c, slot, kind, msg, by) ==
    /\ stack' = Append(stack, [conn |-> c, slot |-> slot, by |-> by])
    /\ seen' = [seen EXCEPT ![c] = IF c \in spoiled THEN @ ELSE Append(@, <<kind, msg>>)]

TickNetObject ==
    /\ npc = "out" /\ stack = <<>> /\ net.live /\ net.depth = 0
    /\ net' = [net EXCEPT !.depth = 1]
    /\ batch' = queue /\ queue' = <<>> /\ npc' = "drain"
    /\ UNCHANGED <<conn, slots, stack>> /\ Script

\* Mutant: the events of a tick are taken from the end of the vector.
DispatchLastEvent ==
    /\ InTick /\ stack = <<>> /\ batch # <<>>
    /\ LET e == Last(batch)
       IN  /\ Calls(e.conn, e.slot, e.kind, e.msg, "tick")
           /\ net' = IF e.kind = "recv" THEN [net EXCEPT !.lastPeer = e.conn] ELSE net
    /\ batch' = Front(batch)
    /\ UNCHANGED <<conn, slots, queue, npc, echoed, spoiled, freed>>

DispatchEventFor ==
    /\ InTick /\ stack = <<>> /\ batch # <<>>
    /\ LET e == Head(batch)
       IN  /\ Calls(e.conn, e.slot, e.kind, e.msg, "tick")
           /\ net' = IF e.kind = "recv" THEN [net EXCEPT !.lastPeer = e.conn] ELSE net
    /\ batch' = Tail(batch)
    /\ UNCHANGED <<conn, slots, queue, npc, echoed, spoiled, freed>>

\* server:close_connection(slot): the engine queues its close event, and the callback is called here as well.
NetCloseConnection ==
    /\ CanCall /\ net.kind = "server" /\ net.calls < MaxCalls
    /\ \E i \in DOMAIN slots :
          /\ slots[i] # 0
          /\ IF IsOpen(slots[i]) THEN CloseConn(slots[i]) /\ Emits(<<Event("close", slots[i], i, 0)>>)
             ELSE UNCHANGED <<conn, queue>>
          /\ Calls(slots[i], i, "close", 0, "close_connection")
          /\ spoiled' = spoiled \cup {slots[i]}
    /\ net' = [net EXCEPT !.calls = @ + 1]
    /\ UNCHANGED <<slots, batch, npc, echoed, freed>>

Release(n) == [n EXCEPT !.live = FALSE, !.pending = <<>>]
Gone ==
    /\ net' = Release(net)
    /\ conn' = [c \in Conns |-> IF IsOpen(c) THEN [conn[c] EXCEPT !.st = "closed"] ELSE conn[c]]
    /\ slots' = <<>> /\ queue' = <<>> /\ batch' = <<>> /\ stack' = <<>> /\ npc' = "out"
    /\ UNCHANGED <<seen, echoed, spoiled>>
Released(why) == Gone /\ freed' = IF stack = <<>> /\ npc = "out" THEN freed ELSE freed \cup {why}

\* Mutant: close does not look at tick_depth.
NetCloseAtOnce == CanCall /\ Released(IF InTick THEN "close in tick" ELSE "close in close_connection")

\* obj:close(): in the tick it is put off, otherwise the object is freed.
NetClose ==
    /\ CanCall
    /\ IF net.depth > 0
       THEN net' = [net EXCEPT !.closing = TRUE] /\ UNCHANGED <<conn, slots, queue, batch, stack, npc>> /\ Script
       ELSE Released(IF InTick THEN "close in tick" ELSE "close in close_connection")

\* del_native_group, or the deletion of the state: the finalizer frees the object.
Finalizer == CanCall /\ Released("finalizer")

\* A parser of the script is called in Poll, outside the object's tick: a close there frees the connection being read.
ParserCloses ==
    /\ Polling /\ net.kind # "udp" /\ \E c \in Conns : Ready(c) /\ conn[c].msgs < MaxMsgs
    /\ Gone /\ freed' = freed \cup {"close in the parser"}

\* The callback's answer: nothing, "close", or "echo" with data for the connection that it was called for.
HandleCallbackReturn ==
    /\ stack # <<>>
    /\ LET f == Last(stack)
           to == IF net.kind = "udp" THEN net.lastPeer ELSE f.slot
       IN  \/ UNCHANGED <<net, echoed>>
           \/ ~net.closing /\ net' = [net EXCEPT !.closing = TRUE] /\ UNCHANGED echoed
           \/ ~net.closing /\ SendOrQueue(net, [to |-> to, from |-> f.conn, own |-> InTick], InTick)
    /\ stack' = Front(stack)
    /\ UNCHANGED <<conn, slots, queue, batch, npc, seen, spoiled, freed>>

-----------------------------------------------------------------------------
(* The end of the tick: dead connections are dropped (not after an error), *)
(* the queued sends are written, and a close that was put off happens.     *)

Reaped == [i \in DOMAIN slots |-> IF IsOpen(slots[i]) THEN slots[i] ELSE 0]

\* Mutant: the queued sends wait for the next tick.
FinishTickKeeps ==
    /\ net' = IF net.closing THEN Release([net EXCEPT !.depth = 0]) ELSE [net EXCEPT !.depth = 0]
    /\ UNCHANGED echoed
    /\ npc' = "out" /\ stack' = <<>> /\ batch' = <<>>

\* FlushPendingSends and finish_tick.
FinishTick ==
    /\ DoSend(net.pending)
    /\ LET n == [net EXCEPT !.depth = 0, !.pending = <<>>] IN net' = IF n.closing THEN Release(n) ELSE n
    /\ npc' = "out" /\ stack' = <<>> /\ batch' = <<>>

NetTickReturns ==
    /\ InTick /\ stack = <<>> /\ batch = <<>>
    /\ slots' = Reaped
    /\ FinishTick
    /\ UNCHANGED <<conn, queue, seen, spoiled, freed>>

\* An error of a callback leaves the tick, and the rest of the batch is lost.
TickThrows ==
    /\ InTick /\ stack # <<>>
    /\ spoiled' = spoiled \cup {e.conn : e \in Range(batch)}
    /\ FinishTick
    /\ UNCHANGED <<conn, slots, queue, seen, freed>>

Libevent == OnAccept \/ \E c \in Conns : MarkReady(c) \/ HandleRead(c) \/ EventCb(c)
NetTick == TickNetObject \/ DispatchEventFor \/ HandleCallbackReturn \/ NetTickReturns
NetCalls == NetSend \/ NetCloseConnection \/ NetClose \/ Finalizer \/ TickThrows \/ ParserCloses

NetNext == Libevent \/ NetTick \/ NetCalls

-----------------------------------------------------------------------------

\* What the callback is told of a connection: first that it is there, then its messages, in order and none
\* left out, then, once, that it is gone. (A connection may fail before it was there.) Not for a connection that
\* close_connection closed - its callback is told at once and again by the queued event, and may hear old
\* messages in between - and not if an error threw the rest of the batch away.
CallbackOrder ==
    \A c \in Conns \ spoiled :
        LET s == seen[c]
            k == Cardinality({i \in DOMAIN s : s[i][1] = "recv"})
            whole == <<<<"conn", 0>>>> \o [i \in 1..k |-> <<"recv", i>>] \o <<<<"close", 0>>>>
        IN  IF net.kind = "udp" THEN s = [i \in 1..k |-> <<"recv", i>>]
            ELSE IsPrefix(s, whole) \/ s = <<<<"close", 0>>>>

\* An answer ("echo") goes to the connection whose event the callback got.
EchoReachesSource == \A e \in echoed : e.from = e.to

\* It goes elsewhere only when that connection is gone: then whoever has its slot now gets it.
EchoStraysOnlyWhenGone == \A e \in echoed : e.from # e.to => conn[e.from].st = "closed"

\* What a callback hears and what it answers reach the right connection, but for those two cases.
EventsSound == CallbackOrder /\ EchoStraysOnlyWhenGone

\* A send that was put off in this object's tick is written before the tick is over, also when it ends with an
\* error; none is left for later ticks.
SendsPumped == npc = "out" => \A i \in DOMAIN net.pending : ~net.pending[i].own

\* The object is freed while its own code runs in three cases only: close() in the callback of a
\* close_connection that was called outside the tick or in a custom parser, and a finalizer that is run by a callback.
FreedUnderWay == freed \subseteq {"close in close_connection", "close in the parser", "finalizer"}

\* What a tick promises, however callbacks send, close, throw and delete: its sends are pumped and the object outlives it.
TickSound == SendsPumped /\ FreedUnderWay

=============================================================================
