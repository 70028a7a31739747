---------------------------- MODULE HttpLibrary ----------------------------
(***************************************************************************)
(* The http library (native/http/native_http.cpp): client requests, a      *)
(* server and its connections, ticked by http::TickAll.                    *)
(*                                                                         *)
(* The other side of every connection is the network: it sends one of the  *)
(* given messages in pieces of any size, may close at any point, and time  *)
(* may run out in any Poll.  A message is a sequence of tokens: the head   *)
(* with its framing, chunk sizes, body bytes and the end of the trailer.   *)
(***************************************************************************)
EXTENDS Naming, Integers, Sequences, SequencesExt

CONSTANTS Responses, Requests,  \* what servers answer to our clients, and what clients ask of our server
          MaxHead,              \* kMaxHttpHeaderBytes
          MaxBody,              \* kMaxHttpBodyBytes
          MaxOps, MaxAccepted   \* bounds: client requests and accepted connections

VARIABLES op,     \* the HttpClientOps
          srv,    \* HttpServer: closed_, next_id_, pending_requests_ (queue) and the requests of this Tick (batch)
          hconn,  \* its HttpServerConns by id
          loop    \* TickAll: where it is, the clients it still ticks, whether it has polled, and whose callback runs

httpVars == <<op, srv, hconn, loop>>

Ops == 1..MaxOps
HttpConns == 1..MaxAccepted

\* A head is "len", "chunked", "none" (neither header) or "bad" (no header line).
Size(n) == [k |-> "size", n |-> n]
End == [k |-> "end", n |-> 0]

HttpInit ==
    /\ op = [c \in Ops |-> [st |-> "none", bev |-> FALSE, timed |-> FALSE, msg |-> <<>>, all |-> <<>>, recv |-> <<>>,
                            done |-> FALSE, pending |-> FALSE, err |-> TRUE, body |-> <<>>, called |-> 0]]
    /\ srv = [closed |-> FALSE, next |-> 0, queue |-> <<>>, batch |-> <<>>]
    /\ hconn = [k \in HttpConns |-> [st |-> "none", msg |-> <<>>, recv |-> <<>>, writing |-> FALSE, wrote |-> 0]]
    /\ loop = [at |-> "out", left |-> <<>>, polled |-> FALSE, cb |-> "-"]

ScriptRuns == loop.at = "out" \/ loop.cb # "-"
HttpPolling == ~loop.polled /\ (loop.at = "server" \/ (loop.at = "client" /\ loop.left # <<>>))

-----------------------------------------------------------------------------
(* Parsing.                                                                *)

More == [rc |-> 0, body |-> <<>>, used |-> 0]
Malformed == [rc |-> -1, body |-> <<>>, used |-> 0]

\* Mutant: a chunk that has not come completely is taken as it is.
DecodeChunkedShort(data) ==
    LET f[i \in 1..Len(data) + 1] ==
            IF i > Len(data) THEN More
            ELSE IF data[i].k # "size" THEN Malformed
            ELSE IF data[i].n = 0 \/ i + data[i].n > Len(data)
            THEN [rc |-> 1, body |-> SubSeq(data, i + 1, Len(data)), used |-> Len(data)]
            ELSE [f[i + data[i].n + 1] EXCEPT !.body = SubSeq(data, i + 1, i + data[i].n) \o @]
    IN  f[1]

\* Chunks up to one of size zero and the end of its trailer, no more than MaxBody together.
DecodeChunkedBody(data) ==
    LET got(i) == Cardinality({j \in 1..i - 1 : data[j].k = "b"})
        last(i) ==
            LET ends == {j \in i + 1..Len(data) : data[j] = End}
            IN  IF ends = {} THEN More
                ELSE [rc |-> 1, body |-> <<>>, used |-> CHOOSE j \in ends : \A e \in ends : j <= e]
        f[i \in 1..Len(data) + 1] ==
            IF i > Len(data) THEN More
            ELSE IF data[i].k # "size" THEN Malformed
            ELSE IF data[i].n = 0 THEN last(i)
            ELSE IF got(i) + data[i].n > MaxBody THEN Malformed
            ELSE IF i + data[i].n > Len(data) THEN More
            ELSE LET part == SubSeq(data, i + 1, i + data[i].n)
                 IN  IF \E j \in DOMAIN part : part[j].k # "b" THEN Malformed
                     ELSE [f[i + data[i].n + 1] EXCEPT !.body = part \o @]
    IN  f[1]

NotYet == [ok |-> FALSE]
Message(body, rest) == [ok |-> TRUE, body |-> body, rest |-> rest]

\* TryParseHttpMessage: what is malformed looks like what is not complete.
TryParseHttpMessage(buf, request, eof) ==
    IF buf = <<>> \/ Head(buf).k = "bad" THEN NotYet
    ELSE LET data == Tail(buf)
             n    == Head(buf).n
         IN  CASE Head(buf).k = "chunked" ->
                    Given(DecodeChunkedBody(data), LAMBDA d :
                    IF d.rc = 1 THEN Message(d.body, SubSeq(data, d.used + 1, Len(data))) ELSE NotYet)
               [] Head(buf).k = "len" ->
                    IF n > MaxBody \/ Len(data) < n THEN NotYet
                    ELSE Message(SubSeq(data, 1, n), SubSeq(data, n + 1, Len(data)))
               [] Head(buf).k = "none" /\ request -> Message(<<>>, data)
               [] Head(buf).k = "none" /\ ~request -> IF eof /\ Len(data) <= MaxBody THEN Message(data, <<>>) ELSE NotYet

\* HandleRead's limits: without a complete head (the first token) no more than MaxHead at once.
TooLarge(recv, n) == (recv = <<>> /\ n > MaxHead) \/ Len(recv) + n > MaxHead + MaxBody

-----------------------------------------------------------------------------
(* The client.                                                             *)

\* Mutant: a result that comes after another is taken too.
FinishAgain(o, err, body) ==
    [o EXCEPT !.done = TRUE, !.pending = TRUE, !.err = err, !.body = body, !.bev = FALSE, !.msg = <<>>, !.recv = <<>>]

\* Finish: once only; the callback is due at the next Tick.
Finish(o, err, body) ==
    IF o.done THEN o
    ELSE [o EXCEPT !.done = TRUE, !.pending = TRUE, !.err = err, !.body = body, !.bev = FALSE, !.msg = <<>>, !.recv = <<>>]

\* Start: the request is refused (a bad URL, no socket), throws (a bad header or port), or connects, with a timeout
\* or without one; the network has an answer for it.
StartClient(c) ==
    /\ ScriptRuns /\ op[c].st = "none" /\ \A d \in Ops : d < c => op[d].st # "none"
    /\ \/ op' = [op EXCEPT ![c] = Finish([@ EXCEPT !.st = "live"], TRUE, <<>>)]
       \/ op' = [op EXCEPT ![c].st = "thrown"]
       \/ \E msg \in Responses, timed \in BOOLEAN :
             op' = [op EXCEPT ![c].st = "live", ![c].bev = TRUE, ![c].timed = timed, ![c].msg = msg, ![c].all = msg]
    /\ UNCHANGED <<srv, hconn, loop>>

\* req:close()
ClientClose(c) ==
    /\ ScriptRuns /\ op[c].st = "live"
    /\ op' = [op EXCEPT ![c] = Finish(@, TRUE, <<>>)]
    /\ UNCHANGED <<srv, hconn, loop>>

\* The finalizer: the request is gone and its callback with it.
DestroyClient(c) ==
    /\ ScriptRuns /\ op[c].st = "live"
    /\ op' = [op EXCEPT ![c].st = "gone", ![c].bev = FALSE, ![c].msg = <<>>, ![c].recv = <<>>]
    /\ UNCHANGED <<srv, hconn, loop>>

\* HandleRead, when n more tokens are there.
ClientHandleRead(o, n, eof) ==
    LET recv == o.recv \o SubSeq(o.msg, 1, n)
        p    == TryParseHttpMessage(recv, FALSE, eof)
        read == [o EXCEPT !.recv = recv, !.msg = SubSeq(@, n + 1, Len(@))]
    IN  IF TooLarge(o.recv, n) THEN Finish(o, TRUE, <<>>)
        ELSE IF p.ok THEN Finish(read, FALSE, p.body)
        ELSE IF eof THEN Finish(read, TRUE, <<>>) ELSE read

\* ReadCb and EventCb: bytes arrive, with the end of the stream or without, or the connection fails.
ClientIo(c) ==
    /\ HttpPolling /\ op[c].bev
    /\ \/ \E n \in 1..Len(op[c].msg) : op' = [op EXCEPT ![c] = ClientHandleRead(@, n, FALSE)]
       \/ op' = [op EXCEPT ![c] = ClientHandleRead(@, 0, TRUE)]
       \/ op' = [op EXCEPT ![c] = Finish(@, TRUE, <<>>)]
    /\ UNCHANGED <<srv, hconn, loop>>

ClientTimeout(c) ==
    /\ HttpPolling /\ op[c].bev /\ op[c].timed
    /\ op' = [op EXCEPT ![c] = Finish(@, TRUE, <<>>)]
    /\ UNCHANGED <<srv, hconn, loop>>

-----------------------------------------------------------------------------
(* The server.                                                             *)

ServerAccept(k) ==
    /\ HttpPolling /\ ~srv.closed /\ k = srv.next + 1
    /\ \E msg \in Requests : hconn' = [hconn EXCEPT ![k].st = "open", ![k].msg = msg]
    /\ srv' = [srv EXCEPT !.next = k]
    /\ UNCHANGED <<op, loop>>

\* HttpServerConn::Close, which also takes it off conns_.
Closed(k) == [hconn EXCEPT ![k].st = "closed"]

\* HttpServerConn::HandleRead, when n more tokens are there: a complete request is queued. Once a reply has been
\* written nothing more is read.
ServerHandleRead(k, n, eof) ==
    LET recv == hconn[k].recv \o SubSeq(hconn[k].msg, 1, n)
        p    == TryParseHttpMessage(recv, TRUE, eof)
        read(r) == [hconn EXCEPT ![k].recv = r, ![k].msg = SubSeq(@, n + 1, Len(@))]
    IN  IF TooLarge(hconn[k].recv, n) THEN hconn' = Closed(k) /\ UNCHANGED srv
        ELSE IF p.ok THEN hconn' = read(p.rest) /\ srv' = [srv EXCEPT !.queue = Append(@, [conn |-> k, body |-> p.body])]
        ELSE hconn' = (IF eof THEN Closed(k) ELSE read(recv)) /\ UNCHANGED srv

\* ReadCb and EventCb.
ServerIo(k) ==
    /\ HttpPolling /\ hconn[k].st = "open"
    /\ \/ ~hconn[k].writing /\ \E n \in 1..Len(hconn[k].msg) : ServerHandleRead(k, n, FALSE)
       \/ ~hconn[k].writing /\ ServerHandleRead(k, 0, TRUE)
       \/ hconn' = Closed(k) /\ UNCHANGED srv      \* the end of the stream after the reply, an error or the timeout
    /\ UNCHANGED <<op, loop>>

\* Mutant: a second reply is written too.
ReplyAgain(k, bad) ==
    IF k \notin HttpConns \/ hconn[k].st # "open" THEN hconn
    ELSE [hconn EXCEPT ![k].writing = TRUE, ![k].wrote = IF bad THEN @ ELSE @ + 1]

\* Reply: of an open connection that has had none. A response that cannot be formatted throws after writing_ is set.
Reply(k, bad) ==
    IF k \notin HttpConns \/ hconn[k].st # "open" \/ hconn[k].writing THEN hconn
    ELSE [hconn EXCEPT ![k].writing = TRUE, ![k].wrote = IF bad THEN @ ELSE @ + 1]

\* srv:reply(connid, response), at any time.
ServerReply(k) ==
    /\ ScriptRuns /\ \E bad \in BOOLEAN : hconn' = Reply(k, bad)
    /\ UNCHANGED <<op, srv, loop>>

\* srv:close(): the connections are closed; requests that are queued are still dispatched.
ServerClose ==
    /\ ScriptRuns /\ srv' = [srv EXCEPT !.closed = TRUE]
    /\ hconn' = [k \in HttpConns |-> IF hconn[k].st = "open" THEN [hconn[k] EXCEPT !.st = "closed"] ELSE hconn[k]]
    /\ UNCHANGED <<op, loop>>

-----------------------------------------------------------------------------
(* http::TickAll: the server, then the clients that there are.             *)

TickAll ==
    /\ loop.at = "out" /\ loop' = [loop EXCEPT !.at = "server"]
    /\ UNCHANGED <<op, srv, hconn>>

\* Mutant: a request whose connection is gone is not ticked any more.
ClientsTickLive == [at |-> "client", left |-> SelectSeq([c \in Ops |-> c], LAMBDA c : op[c].st = "live" /\ op[c].bev),
                    polled |-> FALSE, cb |-> "-"]

\* Poll returns. The server takes the queue; a client whose result is pending has its callback called.
PollReturns ==
    /\ HttpPolling
    /\ IF loop.at = "server"
       THEN /\ srv' = [srv EXCEPT !.queue = <<>>, !.batch = srv.queue] /\ UNCHANGED op
            /\ loop' = [loop EXCEPT !.polled = TRUE]
       ELSE LET c == Head(loop.left)
            IN  /\ UNCHANGED srv
                /\ IF op[c].st = "live" /\ op[c].pending
                   THEN /\ op' = [op EXCEPT ![c].pending = FALSE, ![c].called = @ + 1]
                        /\ loop' = [loop EXCEPT !.polled = TRUE, !.cb = "client"]
                   ELSE UNCHANGED op /\ loop' = [loop EXCEPT !.left = Tail(@)]
    /\ UNCHANGED hconn

\* The clients that there are now, each with a Poll of its own.
ClientsTick == [at |-> "client", left |-> SelectSeq([c \in Ops |-> c], LAMBDA c : op[c].st \in {"live", "thrown"}),
                polled |-> FALSE, cb |-> "-"]

DispatchRequest ==
    /\ loop.at = "server" /\ loop.polled /\ loop.cb = "-" /\ srv.batch # <<>>
    /\ loop' = [loop EXCEPT !.cb = "request"]
    /\ UNCHANGED <<op, srv, hconn>>

\* The server's callback returns nothing, or the response of the request's connection.
RequestReturns ==
    /\ loop.cb = "request"
    /\ hconn' \in {hconn, Reply(Head(srv.batch).conn, FALSE)}
    /\ srv' = [srv EXCEPT !.batch = Tail(@)]
    /\ loop' = [loop EXCEPT !.cb = "-"]
    /\ UNCHANGED op

ServerTicked ==
    /\ loop.at = "server" /\ loop.polled /\ loop.cb = "-" /\ srv.batch = <<>>
    /\ loop' = ClientsTick
    /\ UNCHANGED <<op, srv, hconn>>

ClientReturns ==
    /\ loop.cb = "client"
    /\ loop' = [loop EXCEPT !.left = Tail(@), !.polled = FALSE, !.cb = "-"]
    /\ UNCHANGED <<op, srv, hconn>>

\* A callback throws (or its response does): the tick ends, and the other requests of the batch are lost.
HttpCallbackThrows ==
    /\ loop.cb # "-"
    /\ hconn' \in {hconn} \cup (IF loop.cb = "request" THEN {Reply(Head(srv.batch).conn, TRUE)} ELSE {})
    /\ srv' = [srv EXCEPT !.batch = <<>>]
    /\ loop' = [at |-> "out", left |-> <<>>, polled |-> FALSE, cb |-> "-"]
    /\ UNCHANGED op

ClientsTicked ==
    /\ loop.at = "client" /\ loop.left = <<>> /\ loop' = [loop EXCEPT !.at = "out"]
    /\ UNCHANGED <<op, srv, hconn>>

HttpTick ==
    \/ TickAll \/ PollReturns \/ DispatchRequest \/ RequestReturns \/ ServerTicked \/ ClientReturns \/ ClientsTicked

\* Timeouts: in some Poll the time of a request has run out.
HttpTimeouts == \E c \in Ops : ClientTimeout(c)

HttpNext ==
    \/ HttpTick \/ HttpCallbackThrows \/ HttpTimeouts
    \/ \E c \in Ops : StartClient(c) \/ ClientClose(c) \/ DestroyClient(c) \/ ClientIo(c)
    \/ \E k \in HttpConns : ServerAccept(k) \/ ServerIo(k) \/ ServerReply(k)
    \/ ServerClose

-----------------------------------------------------------------------------

\* What a complete message carries.
BodyOf(msg) == SelectSeq(msg, LAMBDA t : t.k = "b")

\* The response, the timeout, an error and close() race for a request; whichever is first, its callback is called
\* at most once, and only when nothing can reach it any more.
ClientAnsweredOnce == \A c \in Ops : op[c].called <= 1 /\ (op[c].called = 1 => op[c].done /\ ~op[c].bev)

\* A response that is given to the script is whole: all chunks, or as many bytes as the length says, although they
\* arrive in pieces. (One without a length ends where the stream does.)  And none is longer than MaxBody, however
\* many chunks it comes in.
ResponseWhole == \A c \in Ops : op[c].done /\ ~op[c].err =>
    /\ Len(op[c].body) <= MaxBody
    /\ IF Head(op[c].all).k = "none" THEN IsPrefix(op[c].body, BodyOf(op[c].all)) ELSE op[c].body = BodyOf(op[c].all)

\* A connection of the server is answered at most once, however many requests came over it and however often
\* the script replies.
RepliedOnce == \A k \in HttpConns : hconn[k].wrote <= 1

\* Both sides of the library answer once.
AnsweredOnce == ClientAnsweredOnce /\ RepliedOnce

\* A request with a timeout is answered: with a response, or an error.
Unanswered == {c \in DOMAIN op : op[c].st = "live" /\ op[c].called = 0 /\ (op[c].timed \/ op[c].done)}
ClientsAnswered == (Unanswered # {}) ~> (Unanswered = {})
=============================================================================
