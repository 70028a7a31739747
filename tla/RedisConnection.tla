-------------------------- MODULE RedisConnection --------------------------
(***************************************************************************)
(* One redis connection (native/redis/native_redis.cpp) over hiredis: the  *)
(* handshake, the commands in flight, and the callbacks that Tick runs.    *)
(* Replies are left out; that a command succeeded or failed is not.        *)
(*                                                                         *)
(* hiredis is external: it holds the commands it has sent, in order, and   *)
(* calls back from Poll.  When it frees a connection it first calls back   *)
(* for every command that is left.                                         *)
(***************************************************************************)
EXTENDS Integers, FiniteSets, SequencesExt

CONSTANTS HasPassword, HasDb,   \* whether the handshake sends AUTH and SELECT
          MaxCmds,              \* bound: commands ever sent
          MayThrow              \* may callbacks throw?

VARIABLES rc,       \* the fields of the RedisConnection
          rpc,      \* where TickAll is; "out": outside
          cursor,   \* the command whose callback runs
          sent,     \* hiredis: the handshake ("hs") and the commands that wait for a reply
          got,      \* history: how each command's callback was called, the first two times
          connGot,  \* history: how often the connect callback was called
          threw     \* history: commands whose callback threw

redisVars == <<rc, rpc, cursor, sent, got, connGot, threw>>

CmdIds == 1..MaxCmds
Handshake == 0

Fresh == [ac |-> "none", connecting |-> FALSE, step |-> 0, notified |-> FALSE, pconn |-> FALSE, err |-> FALSE,
          ready |-> FALSE, closed |-> FALSE, closing |-> FALSE, cmds |-> <<>>, next |-> 1]

NotifyConnect(c, err) ==
    IF c.notified THEN c
    ELSE [c EXCEPT !.connecting = FALSE, !.notified = TRUE, !.pconn = TRUE, !.err = err, !.ready = ~err]

Teardown(c) == [c EXCEPT !.closed = TRUE, !.connecting = FALSE, !.ac = "none", !.cmds = <<>>]

\* The next command of the handshake: AUTH, SELECT or PING.
NextHandshake(c) ==
    IF c.step = 0 /\ HasPassword THEN 1 ELSE IF c.step <= 1 /\ HasDb THEN 2 ELSE 3

RedisInit ==
    /\ rc \in {[Fresh EXCEPT !.ac = "connecting", !.connecting = TRUE], NotifyConnect(Fresh, TRUE)}
    /\ rpc = "out" /\ cursor = 0 /\ sent = <<>>
    /\ got = [i \in CmdIds |-> <<>>] /\ connGot = 0 /\ threw = {}

InCallback == rpc \in {"connect_cb", "cmd_cb"}
Quiet == UNCHANGED <<got, connGot, threw>>

-----------------------------------------------------------------------------
(* Calls of the script, outside and inside the callbacks.                  *)

\* A command on a connection that is not usable raises an error and is not recorded.
Command ==
    /\ rpc = "out" \/ InCallback
    /\ ~rc.closed /\ ~rc.closing /\ rc.ac # "none" /\ rc.ready
    /\ rc.next <= MaxCmds
    /\ rc' = [rc EXCEPT !.cmds = Append(@, [id |-> rc.next, done |-> FALSE, err |-> FALSE, cb |-> TRUE]), !.next = @ + 1]
    /\ sent' = Append(sent, rc.next)
    /\ UNCHANGED <<rpc, cursor>> /\ Quiet

\* conn:close(): at once, or after Tick, or, from a callback of another module, by the next TickAll.
ConnClose ==
    /\ \/ /\ InCallback
          /\ rc' = [rc EXCEPT !.closed = TRUE, !.closing = TRUE]
          /\ UNCHANGED sent
       \/ /\ rpc = "out"
          /\ rc' = [NotifyConnect(rc, TRUE) EXCEPT !.closed = TRUE, !.closing = TRUE]
          /\ UNCHANGED sent
       \/ /\ rpc = "out"
          /\ rc' = Teardown(NotifyConnect(rc, TRUE))
          /\ sent' = <<>>
    /\ UNCHANGED <<rpc, cursor>> /\ Quiet

-----------------------------------------------------------------------------
(* TickAll: Poll runs what hiredis has, then callbacks are dispatched.     *)

TickStart == rpc = "out" /\ rpc' = "poll" /\ UNCHANGED <<rc, cursor, sent>> /\ Quiet

InPoll == rpc = "poll" /\ UNCHANGED <<rpc, cursor>> /\ Quiet

Issue(c, step) == rc' = [c EXCEPT !.step = step] /\ sent' = Append(sent, Handshake)

OnConnect ==
    /\ InPoll /\ rc.ac = "connecting"
    /\ \/ /\ rc' = [NotifyConnect([rc EXCEPT !.connecting = FALSE], TRUE) EXCEPT !.ac = "none"] /\ UNCHANGED sent
       \/ /\ IF rc.closed \/ rc.closing THEN rc' = [rc EXCEPT !.ac = "open", !.step = 0] /\ UNCHANGED sent
             ELSE Issue([rc EXCEPT !.ac = "open"], NextHandshake([rc EXCEPT !.step = 0]))

\* An error reply ends the handshake; the connection stays open.
OnHandshake ==
    /\ InPoll /\ rc.ac = "open" /\ sent # <<>> /\ Head(sent) = Handshake
    /\ \/ rc' = NotifyConnect([rc EXCEPT !.connecting = FALSE], TRUE) /\ sent' = Tail(sent)
       \/ /\ rc.step = 3
          /\ rc' = NotifyConnect([rc EXCEPT !.connecting = FALSE], FALSE) /\ sent' = Tail(sent)
       \/ /\ rc.step < 3
          /\ IF rc.closed \/ rc.closing THEN UNCHANGED rc /\ sent' = Tail(sent)
             ELSE rc' = [rc EXCEPT !.step = NextHandshake(rc)] /\ sent' = Append(Tail(sent), Handshake)

Completed(c, ids, err) ==
    [c EXCEPT !.cmds = [i \in DOMAIN @ |-> IF @[i].id \in ids THEN [@[i] EXCEPT !.done = TRUE, !.err = err] ELSE @[i]]]

OnCommand ==
    /\ InPoll /\ rc.ac = "open" /\ sent # <<>> /\ Head(sent) # Handshake
    /\ \E err \in BOOLEAN : rc' = Completed(rc, {Head(sent)}, err)
    /\ sent' = Tail(sent)

\* Mutant: hiredis' last calls for the commands are not waited for.
OnDisconnectSilent ==
    /\ InPoll /\ rc.ac = "open"
    /\ rc' = [NotifyConnect(rc, TRUE) EXCEPT !.ac = "none"]
    /\ sent' = <<>>

\* The connection is lost: every command that waits fails, and so does a handshake.
OnDisconnect ==
    /\ InPoll /\ rc.ac = "open"
    /\ rc' = [NotifyConnect(Completed(rc, Range(sent), TRUE), TRUE) EXCEPT !.ac = "none"]
    /\ sent' = <<>>

\* After Poll: the connect timeout, then close_pending_, then the connect callback.
TickPolled ==
    /\ rpc = "poll"
    /\ \E late \in BOOLEAN :
          LET c == IF late /\ rc.connecting /\ ~rc.notified THEN Teardown(NotifyConnect(rc, TRUE)) ELSE rc
          IN  /\ sent' = IF c = rc THEN sent ELSE <<>>
              /\ IF c.closing THEN rpc' = "release" /\ rc' = c /\ UNCHANGED connGot
                 ELSE IF c.pconn THEN rpc' = "connect_cb" /\ rc' = [c EXCEPT !.pconn = FALSE] /\ connGot' = connGot + 1
                 ELSE rpc' = "cmds" /\ rc' = c /\ UNCHANGED connGot
    /\ cursor' = 0
    /\ UNCHANGED <<got, threw>>

ConnectReturns ==
    /\ rpc = "connect_cb"
    /\ rpc' = IF rc.closing THEN "release" ELSE "cmds"
    /\ UNCHANGED <<rc, cursor, sent>> /\ Quiet

\* The loop over cmds_: commands pushed by a callback are beyond its end.
ToDispatch == {i \in DOMAIN rc.cmds : i > cursor /\ rc.cmds[i].done /\ rc.cmds[i].cb}

DispatchCmd ==
    /\ rpc = "cmds" /\ ToDispatch # {}
    /\ LET i == CHOOSE j \in ToDispatch : \A k \in ToDispatch : j <= k
           op == rc.cmds[i]
       IN  /\ cursor' = i
           /\ IF rc.closing THEN rc' = [rc EXCEPT !.cmds[i].cb = FALSE] /\ UNCHANGED <<rpc, got>>
              ELSE /\ rpc' = "cmd_cb"
                   /\ got' = [got EXCEPT ![op.id] = IF Len(@) < 2 THEN Append(@, IF op.err THEN "err" ELSE "ok") ELSE @]
                   /\ UNCHANGED rc
    /\ UNCHANGED <<sent, connGot, threw>>

\* Mutant: the callback stays set after it returned.
CmdReturnsKeeps ==
    /\ rpc = "cmd_cb"
    /\ rpc' = "cmds"
    /\ UNCHANGED <<rc, cursor, sent>> /\ Quiet

CmdReturns ==
    /\ rpc = "cmd_cb"
    /\ rc' = [rc EXCEPT !.cmds[cursor].cb = FALSE]
    /\ rpc' = "cmds"
    /\ UNCHANGED <<cursor, sent>> /\ Quiet

\* An error leaves TickAll; the callback of the command is still set.
CallbackThrows ==
    /\ MayThrow /\ InCallback
    /\ threw' = IF rpc = "cmd_cb" THEN threw \cup {rc.cmds[cursor].id} ELSE threw
    /\ rpc' = "out"
    /\ UNCHANGED <<rc, cursor, sent, got, connGot>>

\* Mutant: a command is dropped when its turn comes, answered or not.
PopDoneUnchecked(s) == IF s # <<>> THEN Tail(s) ELSE s

\* The answered commands at the front are dropped.
PopDone(s) ==
    LET keep == {i \in DOMAIN s : ~(s[i].done /\ ~s[i].cb)}
    IN  IF keep = {} THEN <<>> ELSE SubSeq(s, CHOOSE i \in keep : \A j \in keep : i <= j, Len(s))

TickPops ==
    /\ rpc = "cmds" /\ ToDispatch = {}
    /\ rc' = [rc EXCEPT !.cmds = PopDone(@)]
    /\ rpc' = "release"
    /\ cursor' = 0
    /\ UNCHANGED sent /\ Quiet

\* MaybeReleaseOwnedConn: a close that was put off.
TickRelease ==
    /\ rpc = "release"
    /\ IF rc.closing THEN rc' = Teardown(NotifyConnect(rc, TRUE)) /\ sent' = <<>> ELSE UNCHANGED <<rc, sent>>
    /\ rpc' = "out"
    /\ UNCHANGED cursor /\ Quiet

Hiredis == OnConnect \/ OnHandshake \/ OnCommand \/ OnDisconnect
TickStep == TickStart \/ TickPolled \/ ConnectReturns \/ DispatchCmd \/ CmdReturns \/ TickPops \/ TickRelease

RedisNext == Hiredis \/ TickStep \/ Command \/ ConnClose \/ CallbackThrows

-----------------------------------------------------------------------------

\* hiredis only knows commands that still exist: OnCommand writes through the pointer it was given.
NoDangling == \A i \in CmdIds : i \in Range(sent) => \E k \in DOMAIN rc.cmds : rc.cmds[k].id = i /\ ~rc.cmds[k].done

\* One call of each callback: of a command's, unless it throws (then it runs again in the next tick: cb is cleared only
\* after the call), and of connect's, however the handshake, its timeout and close() meet.
OneCallback == connGot <= 1 /\ \A i \in CmdIds : i \notin threw => Len(got[i]) <= 1

\* Callbacks are called once, hiredis' own ones for commands that exist.
CallbacksSound == OneCallback /\ NoDangling

\* A command is answered in the end, with an error if the connection broke, unless the script closes the
\* connection or a callback throws.
CommandsAnswered ==
    LET waiting == {i \in CmdIds : i < rc.next /\ got[i] = <<>>}
    IN  (waiting # {}) ~> (waiting = {} \/ rc.closed \/ threw # {})

=============================================================================
