-------------------------- MODULE AppServerClient --------------------------
(***************************************************************************)
(* AppServerClient: one JSON-RPC client of the Codex App Server, over the  *)
(* pipes of a process it spawns or over a WebSocket to a shared one.  The  *)
(* caller is one thread; each process or connection has a reader thread    *)
(* that puts what arrives into the queue the client holds at that moment.  *)
(*                                                                         *)
(* A process and a connection are both a peer here, numbered as they are   *)
(* opened.  A message is what _request tells apart of it: its id, who sent *)
(* it, and whether it carries a result, an error or neither.  The frames   *)
(* of a WebSocket arrive as whole messages or stop the reader.             *)
(***************************************************************************)
EXTENDS Integers, Sequences

CONSTANTS
    Transports,  \* the transports checked: "stdio", "websocket"
    Timeout,     \* timeout_seconds, in ticks
    ServerIds,   \* ids of the server's own messages, 0 for notifications
    MaxPeers,    \* bound on processes spawned or connections opened
    MaxCalls,    \* bound on calls of start() and request()
    MaxUnread,   \* bound on messages waiting in a pipe or in the queue
    MaxFaults    \* bound on deaths of a peer and unreadable messages

ASSUME ClientAssumption ==
    /\ Transports \subseteq {"stdio", "websocket"}
    /\ Timeout \in Nat
    /\ ServerIds \subseteq Nat
    /\ MaxPeers \in Nat /\ MaxCalls \in Nat
    /\ MaxUnread \in Nat /\ MaxFaults \in Nat

Peers == 1 .. MaxPeers
NoPeer == 0
Ids == 1 .. MaxPeers + MaxCalls

\* A "call" is a request or notification of the server's own, "garbage" no JSON;
\* "stopped" is _ReaderStopped, which the reader puts.
Messages ==
    [kind : {"result", "error", "call", "garbage", "stopped"},
     id : Ids \cup ServerIds \cup {0}, from : Peers]

VARIABLES
    transport,  \* websocket_url is set or not
    peer,       \* _process or _socket
    queue,      \* _messages
    lastId,     \* _request_id
    pc,         \* where the caller stands
    wants,      \* the caller is in request(), not only in start()
    outer,      \* handshakes around this one whose notify() is under way
    elapsed,    \* time since the request was sent
    opened,     \* number of peers so far
    alive,      \* peers that run, or whose connection is open
    reading,    \* peers whose reader thread runs
    pipe,       \* what each peer has sent and its reader has not taken
    inbox,      \* ids of the requests each peer has yet to answer
    received,   \* methods each peer has been sent
    calls,      \* used part of MaxCalls
    faults,     \* used part of MaxFaults
    writtenTo   \* ghost: the peer the pending request went to

clientVars == <<peer, lastId, pc, wants, outer, elapsed, writtenTo>>
peerVars == <<opened, alive, reading, pipe, inbox, received>>

vars == <<transport, queue, clientVars, peerVars, calls, faults>>

Fault ==
    /\ faults < MaxFaults
    /\ faults' = faults + 1

-----------------------------------------------------------------------------
Init ==
    /\ transport \in Transports
    /\ peer = NoPeer
    /\ queue = <<>>
    /\ lastId = 0
    /\ pc = "idle"
    /\ wants = FALSE
    /\ outer = 0
    /\ elapsed = 0
    /\ opened = 0
    /\ alive = {}
    /\ reading = {}
    /\ pipe = [p \in Peers |-> <<>>]
    /\ inbox = [p \in Peers |-> {}]
    /\ received = [p \in Peers |-> {}]
    /\ calls = 0
    /\ faults = 0
    /\ writtenTo = NoPeer

\* The call returns or raises.
Return ==
    /\ pc' = "idle"
    /\ wants' = FALSE
    /\ outer' = 0
    /\ elapsed' = 0
    /\ writtenTo' = NoPeer

-----------------------------------------------------------------------------
(* start(). *)

\* A process that has ended is replaced; a connection that has closed is not.
Started ==
    IF transport = "websocket" THEN peer # NoPeer ELSE peer \in alive

\* Variant: the ids begin anew with each peer.
GreetingIdAnew == 1

GreetingId == lastId + 1

\* A peer is opened, with a queue of its own, and asked to initialize.
Open ==
    /\ opened < MaxPeers
    /\ opened' = opened + 1
    /\ peer' = opened'
    /\ alive' = alive \cup {peer'}
    /\ reading' = reading \cup {peer'}
    /\ queue' = <<>>
    /\ lastId' = GreetingId
    /\ inbox' = [inbox EXCEPT ![peer'] = {lastId'}]
    /\ received' = [received EXCEPT ![peer'] = {"initialize"}]
    /\ pc' = "greet"
    /\ elapsed' = 0
    /\ writtenTo' = peer'
    /\ UNCHANGED pipe

\* start() or request() is called.
Call(request) ==
    /\ pc = "idle"
    /\ calls < MaxCalls
    /\ calls' = calls + 1
    /\ IF Started
       THEN /\ request
            /\ pc' = "send"
            /\ wants' = TRUE
            /\ UNCHANGED <<queue, peer, lastId, outer, elapsed, writtenTo,
                           peerVars>>
       ELSE /\ Open
            /\ wants' = request
            /\ UNCHANGED outer
    /\ UNCHANGED <<transport, faults>>

\* No process can be spawned, or no connection made: the queue is new, and
\* the last peer is still the one held.
CannotOpen ==
    /\ pc = "idle"
    /\ ~Started
    /\ calls < MaxCalls
    /\ calls' = calls + 1
    /\ queue' = <<>>
    /\ UNCHANGED <<transport, clientVars, peerVars, faults>>

\* Variant: the client lets go of its peer without stopping it.
LetGo ==
    /\ peer' = NoPeer
    /\ UNCHANGED <<alive, inbox>>

\* The peer is stopped; its reader finds out later.
Close ==
    /\ peer' = NoPeer
    /\ alive' = alive \ {peer}
    /\ inbox' = [p \in Peers |-> IF p = peer THEN {} ELSE inbox[p]]

\* Variant: what was opened stays open.
HandshakeFailsOpen ==
    /\ Return
    /\ UNCHANGED <<peer, lastId, peerVars>>

\* A failed handshake closes what was opened, and so do those around it.
HandshakeFails ==
    /\ Close
    /\ Return
    /\ UNCHANGED <<lastId, opened, reading, pipe, received>>

\* notify() calls start() before it sends: a process that has ended since it
\* answered is replaced, inside the handshake with it.
Notify ==
    /\ pc = "notify"
    /\ IF Started
       THEN /\ pc' = "inform"
            /\ UNCHANGED <<queue, peer, lastId, outer, elapsed, writtenTo,
                           peerVars>>
       ELSE /\ Open
            /\ outer' = outer + 1
    /\ UNCHANGED <<transport, wants, calls, faults>>

NotifyCannotOpen ==
    /\ pc = "notify"
    /\ ~Started
    /\ queue' = <<>>
    /\ HandshakeFails
    /\ UNCHANGED <<transport, calls, faults>>

\* "initialized" is sent, then the handshake around this one sends it again.
Inform ==
    /\ pc = "inform"
    /\ peer \in alive \/ transport = "websocket"
    /\ received' = IF peer \in alive
                   THEN [received EXCEPT ![peer] = @ \cup {"initialized"}]
                   ELSE received
    /\ IF outer > 0
       THEN outer' = outer - 1 /\ UNCHANGED <<pc, wants>>
       ELSE /\ pc' = IF wants THEN "send" ELSE "idle"
            /\ wants' = (wants /\ pc' = "send")
            /\ UNCHANGED outer
    /\ elapsed' = 0
    /\ writtenTo' = NoPeer
    /\ UNCHANGED <<transport, queue, peer, lastId, opened, alive, reading,
                   pipe, inbox, calls, faults>>

InformFails ==
    /\ pc = "inform"
    /\ peer \notin alive
    /\ HandshakeFails
    /\ UNCHANGED <<transport, queue, calls, faults>>

-----------------------------------------------------------------------------
(* _request(). *)

\* The request is written.  Written to a connection that has closed it is lost.
Send ==
    /\ pc = "send"
    /\ peer \in alive \/ transport = "websocket"
    /\ lastId' = lastId + 1
    /\ IF peer \in alive
       THEN /\ inbox' = [inbox EXCEPT ![peer] = @ \cup {lastId'}]
            /\ received' = [received EXCEPT ![peer] = @ \cup
                   IF "initialized" \in received[peer] THEN {"request"}
                   ELSE {"early request"}]
       ELSE UNCHANGED <<inbox, received>>
    /\ pc' = "wait"
    /\ elapsed' = 0
    /\ writtenTo' = peer
    /\ UNCHANGED <<transport, queue, peer, wants, outer, opened, alive,
                   reading, pipe, calls, faults>>

SendFails ==
    /\ pc = "send"
    /\ peer \notin alive
    /\ lastId' = lastId + 1
    /\ Return
    /\ UNCHANGED <<transport, queue, peer, peerVars, calls, faults>>

Waiting == pc \in {"greet", "wait"}

\* What a failure of the pending request does.
RequestFails ==
    IF pc = "greet" THEN HandshakeFails
    ELSE Return /\ UNCHANGED <<peer, lastId, peerVars>>

TimesOut ==
    /\ Waiting
    /\ elapsed >= Timeout
    /\ RequestFails
    /\ UNCHANGED <<transport, queue, calls, faults>>

\* The queue has a message and there is time left.
Takes ==
    /\ Waiting
    /\ elapsed < Timeout
    /\ queue # <<>>

Received == Head(queue)

\* Variant: the wait for an answer begins anew with every message.
SkipAndRestartWait ==
    /\ Takes
    /\ Received.kind # "stopped"
    /\ Received.id # lastId
    /\ queue' = Tail(queue)
    /\ elapsed' = 0
    /\ UNCHANGED <<transport, peer, lastId, pc, wants, outer, writtenTo,
                   peerVars, calls, faults>>

\* A message with another id goes to the notifications.
Skip ==
    /\ Takes
    /\ Received.kind # "stopped"
    /\ Received.id # lastId
    /\ queue' = Tail(queue)
    /\ UNCHANGED <<transport, clientVars, peerVars, calls, faults>>

\* The reader has stopped, or the answer is an error or no answer at all: a
\* request of the server's own may have the pending id.
TakesFailure ==
    /\ Takes
    /\ \/ Received.kind = "stopped"
       \/ Received.id = lastId /\ Received.kind # "result"
    /\ queue' = Tail(queue)
    /\ RequestFails
    /\ UNCHANGED <<transport, calls, faults>>

TakesResult ==
    /\ Takes
    /\ Received.kind = "result"
    /\ Received.id = lastId
    /\ queue' = Tail(queue)
    /\ IF pc = "greet"
       THEN /\ pc' = "notify"
            /\ elapsed' = 0
            /\ writtenTo' = NoPeer
            /\ UNCHANGED <<wants, outer>>
       ELSE Return
    /\ UNCHANGED <<transport, peer, lastId, peerVars, calls, faults>>

\* The caller leaves the client's context.
Leave ==
    /\ pc = "idle"
    /\ peer # NoPeer
    /\ Close
    /\ UNCHANGED <<transport, queue, lastId, pc, wants, outer, elapsed, opened,
                   reading, pipe, received, calls, faults, writtenTo>>

CallerStep ==
    \/ Notify
    \/ NotifyCannotOpen
    \/ Inform
    \/ InformFails
    \/ Send
    \/ SendFails
    \/ TimesOut
    \/ Skip
    \/ TakesFailure
    \/ TakesResult

-----------------------------------------------------------------------------
(* The reader thread of a peer. *)

Put(message) == queue' = Append(queue, message)

ReaderTakes(p) ==
    /\ p \in reading
    /\ pipe[p] # <<>>
    /\ Head(pipe[p]).kind # "garbage"
    /\ Len(queue) < MaxUnread
    /\ Put(Head(pipe[p]))
    /\ pipe' = [pipe EXCEPT ![p] = Tail(@)]
    /\ UNCHANGED <<transport, clientVars, opened, alive, reading, inbox,
                   received, calls, faults>>

\* The reader ends where the stream does, at what it cannot read, or once the
\* client has closed the stream.
ReaderEnds(p) ==
    /\ p \in reading
    /\ \/ pipe[p] = <<>> /\ p \notin alive
       \/ pipe[p] # <<>> /\ Head(pipe[p]).kind = "garbage"
       \/ p # peer /\ p \notin alive
    /\ Len(queue) < MaxUnread
    /\ Put([kind |-> "stopped", id |-> 0, from |-> p])
    /\ reading' = reading \ {p}
    /\ pipe' = [pipe EXCEPT ![p] = <<>>]
    /\ UNCHANGED <<transport, clientVars, opened, alive, inbox, received,
                   calls, faults>>

Reader(p) == ReaderTakes(p) \/ ReaderEnds(p)

-----------------------------------------------------------------------------
(* The App Server: it answers in any order, sends of its own, and may end.  *)
(* What it sends when nobody reads any more is left out.                    *)

Sends(p, message) ==
    /\ p \in alive \cap reading
    /\ Len(pipe[p]) < MaxUnread
    /\ pipe' = [pipe EXCEPT ![p] = Append(@, message)]

Answers(p) ==
    /\ \E id \in inbox[p], kind \in {"result", "error"} :
           /\ Sends(p, [kind |-> kind, id |-> id, from |-> p])
           /\ inbox' = [inbox EXCEPT ![p] = @ \ {id}]
    /\ UNCHANGED <<transport, queue, clientVars, opened, alive, reading,
                   received, calls, faults>>

\* Notifications without end, and requests with ids of its own.
Notifies(p) ==
    /\ \E id \in ServerIds :
           Sends(p, [kind |-> "call", id |-> id, from |-> p])
    /\ UNCHANGED <<transport, queue, clientVars, opened, alive, reading, inbox,
                   received, calls, faults>>

Garbles(p) ==
    /\ Sends(p, [kind |-> "garbage", id |-> 0, from |-> p])
    /\ Fault
    /\ UNCHANGED <<transport, queue, clientVars, opened, alive, reading, inbox,
                   received, calls>>

Dies(p) ==
    /\ p \in alive
    /\ Fault
    /\ alive' = alive \ {p}
    /\ inbox' = [inbox EXCEPT ![p] = {}]
    /\ UNCHANGED <<transport, queue, clientVars, opened, reading, pipe,
                   received, calls>>

Tick ==
    /\ Waiting
    /\ elapsed < Timeout
    /\ elapsed' = elapsed + 1
    /\ UNCHANGED <<transport, queue, peer, lastId, pc, wants, outer, peerVars,
                   calls, faults, writtenTo>>

-----------------------------------------------------------------------------
Next ==
    \/ \E request \in BOOLEAN : Call(request)
    \/ CannotOpen
    \/ CallerStep
    \/ Leave
    \/ Tick
    \/ \E p \in Peers :
           \/ Reader(p)
           \/ Answers(p)
           \/ Notifies(p)
           \/ Garbles(p)
           \/ Dies(p)

Spec == Init /\ [][Next]_vars

\* The caller goes on and time passes; nothing is asked of the App Server.
FairSpec == Spec /\ WF_vars(CallerStep) /\ WF_vars(Tick)

-----------------------------------------------------------------------------
(* Properties. *)

Methods == {"initialize", "initialized", "request", "early request"}

TypeOK ==
    /\ transport \in Transports
    /\ peer \in Peers \cup {NoPeer} /\ writtenTo \in Peers \cup {NoPeer}
    /\ queue \in Seq(Messages) /\ Len(queue) <= MaxUnread
    /\ lastId \in Ids \cup {0}
    /\ pc \in {"idle", "greet", "notify", "inform", "send", "wait"}
    /\ wants \in BOOLEAN
    /\ outer \in 0 .. MaxPeers
    /\ elapsed \in 0 .. Timeout
    /\ opened \in 0 .. MaxPeers
    /\ alive \subseteq 1 .. opened /\ reading \subseteq 1 .. opened
    /\ pipe \in [Peers -> Seq(Messages)]
    /\ inbox \in [Peers -> SUBSET Ids]
    /\ received \in [Peers -> SUBSET Methods]
    /\ calls \in 0 .. MaxCalls
    /\ faults \in 0 .. MaxFaults
    \* No peer is left running behind the client's back.
    /\ alive \subseteq {peer}
    \* A request is pending exactly while the caller waits for its answer.
    /\ ~Waiting => writtenTo = NoPeer /\ elapsed = 0

\* What a request returns is the result its own peer gave it, and not a late
\* answer to a request that timed out, an answer of a process since replaced,
\* read from its pipe into the new queue, or a request of the server's own
\* that happens to have its id (app_server.py:351-375).
ResultsAreOwn ==
    [][TakesResult => Received.from = writtenTo]_vars

\* No peer is sent a request before its handshake is complete, however often
\* handshakes fail, time out or lose their process half way
\* (app_server.py:134-149).
HandshakeFirst ==
    \A p \in Peers : "early request" \notin received[p]

\* A call returns or raises whatever the App Server does: falls silent, dies,
\* or sends notifications without end (app_server.py:344-366).  Writes are
\* taken to complete: the code sets no deadline for them (399).
RequestsEnd == pc # "idle" ~> pc = "idle"
=============================================================================
