----------------------- MODULE AppServerClientProofs -----------------------
(***************************************************************************)
(* Proofs about AppServerClient: its types, that no peer is asked anything *)
(* before its handshake is complete, and that a result is the one the      *)
(* request's own peer gave.                                                *)
(***************************************************************************)
EXTENDS AppServerClient, TLAPS

-----------------------------------------------------------------------------
(* The type invariant in parts, each with what makes it inductive.         *)

\* The caller.  A request() that has yet to send leaves an id for it to use.
CallerType ==
    /\ transport \in Transports
    /\ pc \in {"idle", "greet", "notify", "inform", "send", "wait"}
    /\ pc = "send" => wants = TRUE
    /\ elapsed \in 0 .. Timeout
    /\ calls \in 0 .. MaxCalls
    /\ faults \in 0 .. MaxFaults
    /\ ~Waiting => writtenTo = NoPeer /\ elapsed = 0

PeerType ==
    /\ opened \in 0 .. MaxPeers
    /\ peer \in 0 .. opened
    /\ writtenTo \in 0 .. opened
    /\ outer \in 0 .. opened
    /\ lastId \in 0 .. opened + calls
    /\ wants = TRUE /\ pc # "wait" => lastId < opened + calls

ServerType ==
    /\ alive \subseteq {peer} /\ alive \subseteq 1 .. opened
    /\ reading \subseteq 1 .. opened
    /\ inbox \in [Peers -> SUBSET Ids]
    /\ received \in [Peers -> SUBSET Methods]

StreamType ==
    /\ queue \in Seq(Messages) /\ Len(queue) <= MaxUnread
    /\ pipe \in [Peers -> Seq(Messages)]

TypeInv ==
    /\ wants \in BOOLEAN
    /\ CallerType
    /\ PeerType
    /\ ServerType
    /\ StreamType

LEMMA PartsImplyType == ASSUME TypeInv PROVE TypeOK
  BY ClientAssumption DEF TypeInv, TypeOK, CallerType, PeerType, ServerType,
       StreamType, Peers, NoPeer, Ids

LEMMA InitType == Init => TypeInv
  <1> SUFFICES ASSUME Init PROVE TypeInv
    OBVIOUS
  <1> USE ClientAssumption DEF Init
  <1>1. CallerType
    BY DEF CallerType, Waiting
  <1>2. PeerType
    BY DEF PeerType, NoPeer
  <1>3. ServerType
    BY DEF ServerType, NoPeer
  <1>4. StreamType
    BY DEF StreamType
  <1>5. wants \in BOOLEAN
    BY Zenon
  <1> QED BY <1>1, <1>2, <1>3, <1>4, <1>5 DEF TypeInv

-----------------------------------------------------------------------------
LEMMA CallerTypeStep == ASSUME TypeInv, [Next]_vars PROVE CallerType'
  <1> USE ClientAssumption DEF TypeInv, CallerType
  <1>1. ASSUME NEW request \in BOOLEAN, Call(request) PROVE CallerType'
    <2>1. CASE Started
      BY <1>1, <2>1 DEF Call, Waiting
    <2>2. CASE ~Started
      BY <1>1, <2>2 DEF Call, Open, Waiting
    <2> QED BY <2>1, <2>2
  <1>2. CASE CannotOpen
    BY <1>2 DEF CannotOpen, clientVars, Waiting
  <1>3. CASE Notify
    <2>1. CASE Started
      BY <1>3, <2>1 DEF Notify, Waiting
    <2>2. CASE ~Started
      BY <1>3, <2>2 DEF Notify, Open, Waiting
    <2> QED BY <2>1, <2>2
  <1>4. CASE NotifyCannotOpen \/ InformFails \/ TimesOut \/ TakesFailure
    <2>1. Return /\ UNCHANGED <<transport, calls, faults>>
      BY <1>4, Zenon DEF NotifyCannotOpen, InformFails, TimesOut, TakesFailure,
           RequestFails, HandshakeFails
    <2> QED BY <2>1 DEF Return, Waiting
  <1>5. CASE Inform
    <2>1. CASE outer > 0
      BY <1>5, <2>1 DEF Inform, Waiting
    <2>2. CASE ~(outer > 0) /\ wants
      BY <1>5, <2>2 DEF Inform, Waiting
    <2>3. CASE ~(outer > 0) /\ ~wants
      BY <1>5, <2>3 DEF Inform, Waiting
    <2> QED BY <2>1, <2>2, <2>3
  <1>6. CASE Send
    BY <1>6 DEF Send, Waiting
  <1>7. CASE SendFails
    BY <1>7 DEF SendFails, Return, Waiting
  <1>8. CASE Skip
    BY <1>8 DEF Skip, clientVars, Waiting
  <1>9. CASE TakesResult
    <2>1. CASE pc = "greet"
      BY <1>9, <2>1 DEF TakesResult, Waiting
    <2>2. CASE pc # "greet"
      <3>1. Return /\ UNCHANGED <<transport, calls, faults>>
        BY <1>9, <2>2, Zenon DEF TakesResult
      <3> QED BY <3>1 DEF Return, Waiting
    <2> QED BY <2>1, <2>2
  <1>10. CASE Leave
    BY <1>10 DEF Leave, Waiting
  <1>11. CASE Tick
    BY <1>11 DEF Tick, Waiting
  <1>12. ASSUME NEW p \in Peers,
                Reader(p) \/ Answers(p) \/ Notifies(p) \/ Garbles(p) \/ Dies(p)
         PROVE CallerType'
    <2>1. UNCHANGED <<transport, clientVars, calls>>
      BY <1>12 DEF Reader, ReaderTakes, ReaderEnds, Answers, Notifies, Garbles,
           Dies
    <2>2. faults' = faults \/ Fault
      BY <1>12 DEF Reader, ReaderTakes, ReaderEnds, Answers, Notifies, Garbles,
           Dies
    <2> QED BY <2>1, <2>2 DEF clientVars, Waiting, Fault
  <1>13. CASE UNCHANGED vars
    BY <1>13 DEF vars, clientVars, Waiting
  <1> QED
    BY <1>1, <1>2, <1>3, <1>4, <1>5, <1>6, <1>7, <1>8, <1>9, <1>10, <1>11,
       <1>12, <1>13 DEF Next, CallerStep

LEMMA PeerTypeStep == ASSUME TypeInv, [Next]_vars PROVE PeerType'
  <1> USE ClientAssumption DEF TypeInv, CallerType, PeerType, NoPeer
  <1>1. ASSUME NEW request \in BOOLEAN, Call(request) PROVE PeerType'
    <2>1. CASE Started
      BY <1>1, <2>1 DEF Call, peerVars
    <2>2. CASE ~Started
      BY <1>1, <2>2 DEF Call, Open, GreetingId, Waiting
    <2> QED BY <2>1, <2>2
  <1>2. CASE CannotOpen
    BY <1>2 DEF CannotOpen, clientVars, peerVars
  <1>3. CASE Notify
    <2>1. CASE Started
      BY <1>3, <2>1 DEF Notify, peerVars
    <2>2. CASE ~Started
      BY <1>3, <2>2 DEF Notify, Open, GreetingId, Waiting
    <2> QED BY <2>1, <2>2
  <1>4. CASE NotifyCannotOpen \/ InformFails \/ TimesOut \/ TakesFailure
    <2>1. /\ Return
          /\ UNCHANGED <<lastId, opened, calls>> /\ peer' \in {peer, NoPeer}
      BY <1>4 DEF NotifyCannotOpen, InformFails, TimesOut, TakesFailure,
           RequestFails, HandshakeFails, Close, peerVars
    <2> QED BY <2>1 DEF Return
  <1>5. CASE Inform
    <2>1. CASE outer > 0
      BY <1>5, <2>1 DEF Inform
    <2>2. CASE ~(outer > 0) /\ wants
      BY <1>5, <2>2 DEF Inform
    <2>3. CASE ~(outer > 0) /\ ~wants
      BY <1>5, <2>3 DEF Inform
    <2> QED BY <2>1, <2>2, <2>3
  <1>6. CASE Send
    <2>1. /\ pc = "send" /\ pc' = "wait" /\ lastId' = lastId + 1
          /\ writtenTo' = peer
          /\ UNCHANGED <<peer, outer, opened, calls>>
      BY <1>6, Zenon DEF Send
    <2> QED BY <2>1
  <1>7. CASE SendFails
    BY <1>7 DEF SendFails, Return, peerVars
  <1>8. CASE Skip
    BY <1>8 DEF Skip, clientVars, peerVars
  <1>9. CASE TakesResult
    <2>1. CASE pc = "greet"
      BY <1>9, <2>1 DEF TakesResult, peerVars
    <2>2. CASE pc # "greet"
      <3>1. Return /\ UNCHANGED <<peer, lastId, opened, calls>>
        BY <1>9, <2>2, Zenon DEF TakesResult, peerVars
      <3> QED BY <3>1 DEF Return
    <2> QED BY <2>1, <2>2
  <1>10. CASE Leave
    BY <1>10 DEF Leave, Close
  <1>11. CASE Tick
    BY <1>11 DEF Tick, peerVars
  <1>12. ASSUME NEW p \in Peers,
                Reader(p) \/ Answers(p) \/ Notifies(p) \/ Garbles(p) \/ Dies(p)
         PROVE PeerType'
    <2>1. UNCHANGED <<clientVars, opened, calls>>
      BY <1>12 DEF Reader, ReaderTakes, ReaderEnds, Answers, Notifies, Garbles,
           Dies
    <2> QED BY <2>1 DEF clientVars
  <1>13. CASE UNCHANGED vars
    BY <1>13 DEF vars, clientVars, peerVars
  <1> QED
    BY <1>1, <1>2, <1>3, <1>4, <1>5, <1>6, <1>7, <1>8, <1>9, <1>10, <1>11,
       <1>12, <1>13 DEF Next, CallerStep

\* A new peer is opened only where the last one no longer runs.
LEMMA OpenType ==
    ASSUME TypeInv, Open, ~Started
    PROVE  /\ opened' = opened + 1 /\ peer' = opened + 1
           /\ peer' \in Peers /\ lastId' = lastId + 1 /\ lastId' \in Ids
           /\ alive' = {peer'}
  <1>1. /\ opened < MaxPeers /\ opened' = opened + 1 /\ peer' = opened'
        /\ lastId' = lastId + 1
    BY Zenon DEF Open, GreetingId
  <1>2. /\ opened \in 0 .. MaxPeers /\ peer \in 0 .. opened
        /\ lastId \in 0 .. opened + calls /\ calls \in 0 .. MaxCalls
    BY DEF TypeInv, CallerType, PeerType
  <1>3. peer' \in Peers /\ lastId' \in Ids
    BY <1>1, <1>2, ClientAssumption DEF Peers, Ids
  <1>4. alive = {}
    BY <1>2 DEF Started, TypeInv, ServerType, NoPeer
  <1>5. alive' = alive \cup {peer'}
    BY DEF Open
  <1> QED BY <1>1, <1>3, <1>4, <1>5

LEMMA ServerTypeStep == ASSUME TypeInv, [Next]_vars PROVE ServerType'
  <1> USE DEF ServerType
  <1>t. ServerType /\ opened \in 0 .. MaxPeers /\ peer \in 0 .. opened
    BY DEF TypeInv, PeerType
  <1>o. ASSUME Open, ~Started PROVE ServerType'
    <2>1. /\ opened' = opened + 1 /\ peer' = opened + 1
          /\ peer' \in Peers /\ lastId' \in Ids /\ alive' = {peer'}
      BY <1>o, OpenType
    <2>2. reading' = reading \cup {peer'}
      BY <1>o DEF Open
    <2>3. inbox' \in [Peers -> SUBSET Ids]
      BY <1>o, <1>t, <2>1 DEF Open
    <2>4. received' \in [Peers -> SUBSET Methods]
      BY <1>o, <1>t, <2>1 DEF Open, Methods
    <2>5. alive' \subseteq 1 .. opened' /\ reading' \subseteq 1 .. opened'
      BY <1>t, <2>1, <2>2, ClientAssumption
    <2> QED BY <2>1, <2>3, <2>4, <2>5
  <1>c. ASSUME Close, UNCHANGED <<opened, reading, received>> PROVE ServerType'
    <2>1. inbox' \in [Peers -> SUBSET Ids]
      BY <1>c, <1>t DEF Close
    <2>2. alive' = {}
      BY <1>c, <1>t DEF Close
    <2> QED BY <1>c, <1>t, <2>1, <2>2
  <1>k. ASSUME UNCHANGED <<peer, opened, alive, reading, inbox, received>>
        PROVE  ServerType'
    BY <1>k, <1>t
  <1>1. ASSUME NEW request \in BOOLEAN, Call(request) PROVE ServerType'
    <2>1. CASE Started
      BY <1>1, <2>1, <1>k, Zenon DEF Call, peerVars
    <2>2. CASE ~Started
      BY <1>1, <2>2, <1>o, Zenon DEF Call
    <2> QED BY <2>1, <2>2
  <1>2. CASE CannotOpen
    BY <1>2, <1>k DEF CannotOpen, clientVars, peerVars
  <1>3. CASE Notify
    <2>1. CASE Started
      BY <1>3, <2>1, <1>k, Zenon DEF Notify, peerVars
    <2>2. CASE ~Started
      BY <1>3, <2>2, <1>o, Zenon DEF Notify
    <2> QED BY <2>1, <2>2
  <1>4. CASE NotifyCannotOpen \/ InformFails \/ TimesOut \/ TakesFailure
    BY <1>4, <1>c, <1>k, Zenon DEF NotifyCannotOpen, InformFails, TimesOut,
         TakesFailure, RequestFails, HandshakeFails, peerVars
  <1>5. CASE Inform
    <2>1. UNCHANGED <<peer, opened, alive, reading, inbox>>
      BY <1>5, Zenon DEF Inform
    <2>2. received' \in [Peers -> SUBSET Methods]
      BY <1>5, <1>t, Zenon DEF Inform, Methods
    <2> QED BY <1>t, <2>1, <2>2
  <1>6. CASE Send
    <2>1. UNCHANGED <<peer, opened, alive, reading>> /\ lastId' = lastId + 1
      BY <1>6, Zenon DEF Send
    <2>2. lastId' \in Ids
      <3>1. lastId < opened + calls
        BY <1>6, Zenon DEF Send, TypeInv, CallerType, PeerType
      <3>2. lastId \in 0 .. opened + calls /\ calls \in 0 .. MaxCalls
        BY DEF TypeInv, CallerType, PeerType
      <3> QED BY <1>t, <2>1, <3>1, <3>2, ClientAssumption DEF Ids
    <2>3. /\ inbox' \in [Peers -> SUBSET Ids]
          /\ received' \in [Peers -> SUBSET Methods]
      <3>1. CASE peer \in alive
        <4>1. /\ inbox' = [inbox EXCEPT ![peer] = @ \cup {lastId'}]
              /\ \E m \in Methods :
                     received' = [received EXCEPT ![peer] = @ \cup {m}]
          BY <1>6, <3>1, Zenon DEF Send, Methods
        <4> QED BY <1>t, <2>2, <4>1
      <3>2. CASE peer \notin alive
        BY <1>6, <1>t, <3>2 DEF Send
      <3> QED BY <3>1, <3>2
    <2> QED BY <1>t, <2>1, <2>3
  <1>7. CASE SendFails
    BY <1>7, <1>k DEF SendFails, peerVars
  <1>8. CASE Skip
    BY <1>8, <1>k DEF Skip, clientVars, peerVars
  <1>9. CASE TakesResult
    BY <1>9, <1>k, Zenon DEF TakesResult, peerVars
  <1>10. CASE Leave
    BY <1>10, <1>c DEF Leave
  <1>11. CASE Tick
    BY <1>11, <1>k DEF Tick, peerVars
  <1>12. ASSUME NEW p \in Peers, Reader(p) PROVE ServerType'
    <2>1. /\ UNCHANGED <<peer, opened, alive, inbox, received>>
          /\ reading' = reading \/ reading' = reading \ {p}
      BY <1>12 DEF Reader, ReaderTakes, ReaderEnds, clientVars
    <2> QED BY <1>t, <2>1
  <1>13. ASSUME NEW p \in Peers, Answers(p) PROVE ServerType'
    <2>1. UNCHANGED <<peer, opened, alive, reading, received>>
      BY <1>13 DEF Answers, clientVars
    <2>2. inbox' \in [Peers -> SUBSET Ids]
      BY <1>13, <1>t DEF Answers
    <2> QED BY <1>t, <2>1, <2>2
  <1>14. ASSUME NEW p \in Peers, Notifies(p) \/ Garbles(p) PROVE ServerType'
    BY <1>14, <1>k, Zenon DEF Notifies, Garbles, clientVars
  <1>15. ASSUME NEW p \in Peers, Dies(p) PROVE ServerType'
    <2>1. UNCHANGED <<peer, opened, reading, received>> /\ alive' = alive \ {p}
      BY <1>15 DEF Dies, clientVars
    <2>2. inbox' \in [Peers -> SUBSET Ids]
      BY <1>15, <1>t DEF Dies
    <2> QED BY <1>t, <2>1, <2>2
  <1>16. CASE UNCHANGED vars
    BY <1>16, <1>k DEF vars, clientVars, peerVars
  <1> QED
    BY <1>1, <1>2, <1>3, <1>4, <1>5, <1>6, <1>7, <1>8, <1>9, <1>10, <1>11,
       <1>12, <1>13, <1>14, <1>15, <1>16 DEF Next, CallerStep

LEMMA SendsType ==
    ASSUME TypeInv, NEW p \in Peers, NEW message \in Messages, Sends(p, message)
    PROVE  pipe' \in [Peers -> Seq(Messages)]
  <1>1. pipe[p] \in Seq(Messages) /\ Append(pipe[p], message) \in Seq(Messages)
    BY DEF TypeInv, StreamType
  <1> QED BY <1>1 DEF Sends, TypeInv, StreamType

LEMMA StreamTypeStep == ASSUME TypeInv, [Next]_vars PROVE StreamType'
  <1> USE DEF StreamType
  <1>t. StreamType
    BY DEF TypeInv
  <1>0. <<>> \in Seq(Messages) /\ Len(<<>>) <= MaxUnread
    BY ClientAssumption
  <1>n. ASSUME queue' = <<>>, UNCHANGED pipe PROVE StreamType'
    BY <1>t, <1>0, <1>n
  <1>h. ASSUME Takes, queue' = Tail(queue), UNCHANGED pipe PROVE StreamType'
    BY <1>t, <1>h, ClientAssumption DEF Takes
  <1>k. ASSUME UNCHANGED <<queue, pipe>> PROVE StreamType'
    BY <1>t, <1>k
  <1>1. ASSUME NEW request \in BOOLEAN, Call(request) PROVE StreamType'
    <2>1. CASE Started
      BY <1>1, <2>1, <1>k, Zenon DEF Call, peerVars
    <2>2. CASE ~Started
      BY <1>1, <2>2, <1>n, Zenon DEF Call, Open
    <2> QED BY <2>1, <2>2
  <1>2. CASE CannotOpen
    BY <1>2, <1>n, Zenon DEF CannotOpen, peerVars
  <1>3. CASE Notify
    <2>1. CASE Started
      BY <1>3, <2>1, <1>k, Zenon DEF Notify, peerVars
    <2>2. CASE ~Started
      BY <1>3, <2>2, <1>n, Zenon DEF Notify, Open
    <2> QED BY <2>1, <2>2
  <1>4. CASE NotifyCannotOpen
    BY <1>4, <1>n, Zenon DEF NotifyCannotOpen, HandshakeFails
  <1>5. CASE InformFails \/ TimesOut
    BY <1>5, <1>k, Zenon DEF InformFails, TimesOut, RequestFails,
         HandshakeFails, peerVars
  <1>6. CASE TakesFailure
    BY <1>6, <1>h, Zenon DEF TakesFailure, RequestFails, HandshakeFails,
         peerVars
  <1>7. CASE Inform \/ Send \/ SendFails
    BY <1>7, <1>k, Zenon DEF Inform, Send, SendFails, peerVars
  <1>8. CASE Skip \/ TakesResult
    BY <1>8, <1>h, Zenon DEF Skip, TakesResult, peerVars
  <1>9. CASE Leave \/ Tick
    BY <1>9, <1>k, Zenon DEF Leave, Tick, peerVars
  <1>10. ASSUME NEW p \in Peers, ReaderTakes(p) PROVE StreamType'
    <2>1. /\ pipe[p] \in Seq(Messages) /\ Head(pipe[p]) \in Messages
          /\ Tail(pipe[p]) \in Seq(Messages)
      BY <1>10, <1>t DEF ReaderTakes
    <2>2. queue' \in Seq(Messages) /\ Len(queue') <= MaxUnread
      BY <1>10, <1>t, <2>1, ClientAssumption DEF ReaderTakes, Put
    <2>3. pipe' \in [Peers -> Seq(Messages)]
      BY <1>10, <1>t, <2>1 DEF ReaderTakes
    <2> QED BY <2>2, <2>3
  <1>11. ASSUME NEW p \in Peers, ReaderEnds(p) PROVE StreamType'
    <2>1. [kind |-> "stopped", id |-> 0, from |-> p] \in Messages
      BY DEF Messages
    <2>2. queue' \in Seq(Messages) /\ Len(queue') <= MaxUnread
      BY <1>11, <1>t, <2>1, ClientAssumption DEF ReaderEnds, Put
    <2>3. pipe' \in [Peers -> Seq(Messages)]
      BY <1>11, <1>t, <1>0 DEF ReaderEnds
    <2> QED BY <2>2, <2>3
  <1>12. ASSUME NEW p \in Peers, Answers(p) PROVE StreamType'
    <2>1. PICK id \in inbox[p], kind \in {"result", "error"} :
              Sends(p, [kind |-> kind, id |-> id, from |-> p])
      BY <1>12 DEF Answers
    <2>2. [kind |-> kind, id |-> id, from |-> p] \in Messages
      BY DEF Messages, TypeInv, ServerType
    <2>3. pipe' \in [Peers -> Seq(Messages)]
      BY <2>1, <2>2, SendsType
    <2> QED BY <1>12, <1>t, <2>3 DEF Answers
  <1>13. ASSUME NEW p \in Peers, Notifies(p) PROVE StreamType'
    <2>1. PICK id \in ServerIds :
              Sends(p, [kind |-> "call", id |-> id, from |-> p])
      BY <1>13 DEF Notifies
    <2>2. [kind |-> "call", id |-> id, from |-> p] \in Messages
      BY DEF Messages
    <2>3. pipe' \in [Peers -> Seq(Messages)]
      BY <2>1, <2>2, SendsType
    <2> QED BY <1>13, <1>t, <2>3 DEF Notifies
  <1>14. ASSUME NEW p \in Peers, Garbles(p) PROVE StreamType'
    <2>1. [kind |-> "garbage", id |-> 0, from |-> p] \in Messages
      BY DEF Messages
    <2>2. pipe' \in [Peers -> Seq(Messages)]
      BY <1>14, <2>1, SendsType DEF Garbles
    <2> QED BY <1>14, <1>t, <2>2 DEF Garbles
  <1>15. ASSUME NEW p \in Peers, Dies(p) PROVE StreamType'
    BY <1>15, <1>k, Zenon DEF Dies
  <1>16. CASE UNCHANGED vars
    BY <1>16, <1>k, Zenon DEF vars, peerVars
  <1> QED
    BY <1>1, <1>2, <1>3, <1>4, <1>5, <1>6, <1>7, <1>8, <1>9, <1>10, <1>11,
       <1>12, <1>13, <1>14, <1>15, <1>16 DEF Next, CallerStep, Reader

LEMMA WantsTypeStep == ASSUME TypeInv, [Next]_vars PROVE wants' \in BOOLEAN
  <1>1. wants' = wants \/ wants' = FALSE \/ wants' = TRUE
        \/ (\E request \in BOOLEAN : wants' = request)
        \/ wants' = (wants /\ pc' = "send")
    BY Zenon DEF Next, CallerStep, vars, clientVars, Call, CannotOpen, Notify,
         NotifyCannotOpen, Inform, InformFails, Send, SendFails, TimesOut, Skip,
         TakesFailure, TakesResult, RequestFails, HandshakeFails, Return, Leave,
         Tick, Reader, ReaderTakes, ReaderEnds, Answers, Notifies, Garbles, Dies
  <1> QED BY <1>1, Zenon DEF TypeInv

LEMMA TypeInvariant == Spec => []TypeInv
  <1>1. ASSUME TypeInv, [Next]_vars PROVE TypeInv'
    BY <1>1, WantsTypeStep, CallerTypeStep, PeerTypeStep, ServerTypeStep,
       StreamTypeStep DEF TypeInv
  <1> QED BY InitType, <1>1, PTL DEF Spec

\* Every variable keeps its type, no peer is left running behind the client's
\* back, and a request is pending exactly while the caller waits for its answer,
\* whatever the peers do and however many there are (app_server.py:134-375).
THEOREM TypeCorrect == Spec => []TypeOK
  BY TypeInvariant, PartsImplyType, PTL

-----------------------------------------------------------------------------
(* The handshake.  What makes HandshakeFirst inductive: wherever the       *)
(* caller may send, or waits for what it sent, the live peer has been      *)
(* informed.                                                               *)

Informed ==
    pc \in {"idle", "send", "wait"} /\ peer \in alive =>
        "initialized" \in received[peer]

HandshakeInv == HandshakeFirst /\ Informed

LEMMA AliveType ==
    ASSUME TypeInv
    PROVE  /\ received \in [Peers -> SUBSET Methods]
           /\ alive \subseteq {peer} /\ alive \subseteq Peers
  <1>1. opened \in 0 .. MaxPeers
    BY DEF TypeInv, PeerType
  <1>2. \A p \in 1 .. opened : p \in Peers
    BY <1>1, ClientAssumption DEF Peers
  <1> QED BY <1>2 DEF TypeInv, ServerType

LEMMA HandshakeStep ==
    ASSUME TypeInv, HandshakeInv, [Next]_vars PROVE HandshakeInv'
  <1> USE DEF HandshakeInv, HandshakeFirst, Informed
  <1>t. /\ received \in [Peers -> SUBSET Methods]
        /\ alive \subseteq {peer} /\ alive \subseteq Peers
    BY AliveType
  <1>o. ASSUME Open, ~Started PROVE HandshakeInv'
    <2>1. peer' \in Peers
      BY <1>o, OpenType
    <2> QED BY <1>o, <1>t, <2>1 DEF Open
  <1>c. ASSUME Close, UNCHANGED received PROVE HandshakeInv'
    BY <1>c, <1>t DEF Close
  <1>k. ASSUME UNCHANGED <<peer, alive, received>>,
               \/ pc' = pc
               \/ pc' \in {"greet", "notify", "inform"}
               \/ pc \in {"idle", "send", "wait"}
        PROVE  HandshakeInv'
    BY <1>k
  <1>1. ASSUME NEW request \in BOOLEAN, Call(request) PROVE HandshakeInv'
    <2>1. CASE Started
      BY <1>1, <2>1, <1>k, Zenon DEF Call, peerVars
    <2>2. CASE ~Started
      BY <1>1, <2>2, <1>o, Zenon DEF Call
    <2> QED BY <2>1, <2>2
  <1>2. CASE CannotOpen \/ Skip \/ Tick
    BY <1>2, <1>k, Zenon DEF CannotOpen, Skip, Tick, clientVars, peerVars
  <1>3. CASE Notify
    <2>1. CASE Started
      <3>1. pc' = "inform" /\ UNCHANGED <<peer, alive, received>>
        BY <1>3, <2>1, Zenon DEF Notify, peerVars
      <3> QED BY <3>1, <1>k
    <2>2. CASE ~Started
      BY <1>3, <2>2, <1>o, Zenon DEF Notify
    <2> QED BY <2>1, <2>2
  <1>4. CASE NotifyCannotOpen \/ InformFails
    BY <1>4, <1>c, Zenon DEF NotifyCannotOpen, InformFails, HandshakeFails
  <1>5. CASE TimesOut \/ TakesFailure
    <2>1. CASE pc = "greet"
      BY <1>5, <2>1, <1>c, Zenon DEF TimesOut, TakesFailure, RequestFails,
           HandshakeFails
    <2>2. CASE pc # "greet"
      <3>1. pc = "wait" /\ UNCHANGED <<peer, alive, received>>
        BY <1>5, <2>2 DEF TimesOut, TakesFailure, RequestFails, Takes, Waiting,
             peerVars
      <3> QED BY <3>1, <1>k
    <2> QED BY <2>1, <2>2
  <1>6. CASE Inform
    <2>1. UNCHANGED <<peer, alive>>
      BY <1>6, Zenon DEF Inform
    <2>2. received' = IF peer \in alive
                      THEN [received EXCEPT ![peer] = @ \cup {"initialized"}]
                      ELSE received
      BY <1>6, Zenon DEF Inform
    <2> QED BY <1>t, <2>1, <2>2
  <1>7. CASE Send
    <2>1. UNCHANGED <<peer, alive>> /\ pc = "send"
      BY <1>7, Zenon DEF Send
    <2>2. CASE peer \in alive
      <3>1. received' = [received EXCEPT ![peer] = @ \cup {"request"}]
        BY <1>7, <2>1, <2>2, Zenon DEF Send
      <3> QED BY <1>t, <2>1, <2>2, <3>1
    <2>3. CASE peer \notin alive
      <3>1. UNCHANGED received
        BY <1>7, <2>3, Zenon DEF Send
      <3> QED BY <2>1, <2>3, <3>1
    <2> QED BY <2>2, <2>3
  <1>8. CASE SendFails
    <2>1. pc = "send" /\ UNCHANGED <<peer, alive, received>>
      BY <1>8, Zenon DEF SendFails, peerVars
    <2> QED BY <2>1, <1>k
  <1>9. CASE TakesResult
    <2>1. UNCHANGED <<peer, alive, received>>
      BY <1>9, Zenon DEF TakesResult, peerVars
    <2>2. pc' = "notify" \/ pc = "wait"
      BY <1>9, Zenon DEF TakesResult, Takes, Waiting
    <2> QED BY <2>1, <2>2, <1>k
  <1>10. CASE Leave
    BY <1>10, <1>c, Zenon DEF Leave
  <1>11. ASSUME NEW p \in Peers,
                Reader(p) \/ Answers(p) \/ Notifies(p) \/ Garbles(p)
         PROVE  HandshakeInv'
    BY <1>11, <1>k, Zenon DEF Reader, ReaderTakes, ReaderEnds, Answers,
         Notifies, Garbles, clientVars
  <1>12. ASSUME NEW p \in Peers, Dies(p) PROVE HandshakeInv'
    <2>1. UNCHANGED <<pc, peer, received>> /\ alive' = alive \ {p}
      BY <1>12, Zenon DEF Dies, clientVars
    <2> QED BY <2>1
  <1>13. CASE UNCHANGED vars
    BY <1>13, <1>k, Zenon DEF vars, clientVars, peerVars
  <1> QED
    BY <1>1, <1>2, <1>3, <1>4, <1>5, <1>6, <1>7, <1>8, <1>9, <1>10, <1>11,
       <1>12, <1>13 DEF Next, CallerStep

\* No peer is sent a request before its own handshake is complete: not after a
\* handshake that failed, timed out, or lost its process between the answer and
\* notify() (app_server.py:134-149).
THEOREM HandshakeComplete == Spec => []HandshakeFirst
  <1>1. Init => HandshakeInv
    BY DEF Init, HandshakeInv, HandshakeFirst, Informed
  <1>2. TypeInv /\ HandshakeInv /\ [Next]_vars => HandshakeInv'
    BY HandshakeStep
  <1>3. HandshakeInv => HandshakeFirst
    BY DEF HandshakeInv
  <1> QED BY <1>1, <1>2, <1>3, TypeInvariant, PTL DEF Spec

-----------------------------------------------------------------------------
(* Answers.  What makes ResultsAreOwn inductive: wherever a result is, in  *)
(* an inbox still to be given, in a pipe or in the queue, its id is no     *)
(* newer than the last one used, and the pending one only if its own       *)
(* peer's.                                                                 *)

Own(id, p) ==
    /\ id <= lastId
    /\ Waiting /\ id = lastId => p = writtenTo

OwnMessage(m) == m.kind = "result" => Own(m.id, m.from)

OwnInboxes == \A p \in Peers : \A id \in inbox[p] : Own(id, p)

OwnPipes == \A p \in Peers : \A i \in 1 .. Len(pipe[p]) : OwnMessage(pipe[p][i])

OwnQueue == \A i \in 1 .. Len(queue) : OwnMessage(queue[i])

OwnInv == OwnInboxes /\ OwnPipes /\ OwnQueue

\* Ids are never used twice: a step leaves the pending request alone, ends it,
\* or begins one with a new id.
LEMMA NewRequestNewId ==
    ASSUME TypeInv, [Next]_vars
    PROVE  /\ lastId \in Nat /\ lastId' \in Nat
           /\ \/ lastId' = lastId + 1
              \/ lastId' = lastId /\ ~Waiting'
              \/ UNCHANGED <<lastId, pc, writtenTo>>
  <1>t. lastId \in Nat
    BY DEF TypeInv, CallerType, PeerType
  <1>1. ASSUME NEW request \in BOOLEAN, Call(request)
        PROVE  lastId' = lastId + 1 \/ (lastId' = lastId /\ ~Waiting')
    <2>1. CASE Started
      <3>1. lastId' = lastId /\ pc' = "send"
        BY <1>1, <2>1, Zenon DEF Call
      <3> QED BY <3>1 DEF Waiting
    <2>2. CASE ~Started
      BY <1>1, <2>2, Zenon DEF Call, Open, GreetingId
    <2> QED BY <2>1, <2>2
  <1>2. CASE Notify
    <2>1. CASE Started
      <3>1. lastId' = lastId /\ pc' = "inform"
        BY <1>2, <2>1, Zenon DEF Notify
      <3> QED BY <3>1, <1>t DEF Waiting
    <2>2. CASE ~Started
      <3>1. lastId' = lastId + 1
        BY <1>2, <2>2, Zenon DEF Notify, Open, GreetingId
      <3> QED BY <3>1, <1>t
    <2> QED BY <2>1, <2>2
  <1>3. CASE NotifyCannotOpen \/ InformFails \/ TimesOut \/ TakesFailure
    <2>1. lastId' = lastId /\ pc' = "idle"
      BY <1>3, Zenon DEF NotifyCannotOpen, InformFails, TimesOut, TakesFailure,
           RequestFails, HandshakeFails, Return
    <2> QED BY <2>1, <1>t DEF Waiting
  <1>4. CASE Inform
    <2>1. lastId' = lastId /\ pc' \in {"inform", "send", "idle"}
      BY <1>4, Zenon DEF Inform
    <2> QED BY <2>1, <1>t DEF Waiting
  <1>5. CASE Send \/ SendFails
    <2>1. lastId' = lastId + 1
      BY <1>5, Zenon DEF Send, SendFails
    <2> QED BY <2>1, <1>t
  <1>6. CASE TakesResult
    <2>1. lastId' = lastId /\ pc' \in {"notify", "idle"}
      BY <1>6, Zenon DEF TakesResult, Return
    <2> QED BY <2>1, <1>t DEF Waiting
  <1>7. CASE CannotOpen \/ Skip \/ Leave \/ Tick \/ UNCHANGED vars
    <2>1. UNCHANGED <<lastId, pc, writtenTo>>
      BY <1>7, Zenon DEF CannotOpen, Skip, Leave, Tick, vars, clientVars
    <2> QED BY <2>1, <1>t
  <1>8. ASSUME NEW p \in Peers,
               Reader(p) \/ Answers(p) \/ Notifies(p) \/ Garbles(p) \/ Dies(p)
        PROVE  UNCHANGED <<lastId, pc, writtenTo>>
    BY <1>8, Zenon DEF Reader, ReaderTakes, ReaderEnds, Answers, Notifies,
         Garbles, Dies, clientVars
  <1> QED
    BY <1>t, <1>1, <1>2, <1>3, <1>4, <1>5, <1>6, <1>7, <1>8 DEF Next, CallerStep

\* So what is its own peer's stays so.
LEMMA OwnStays ==
    ASSUME TypeInv, [Next]_vars, NEW id \in Nat, NEW p, Own(id, p)
    PROVE  Own(id, p)'
  BY NewRequestNewId DEF Own, Waiting

LEMMA OwnMessageStays ==
    ASSUME TypeInv, [Next]_vars, NEW m \in Messages, OwnMessage(m)
    PROVE  OwnMessage(m)'
  <1>1. m.id \in Nat
    <2>1. \A id \in Ids \cup ServerIds \cup {0} : id \in Nat
      BY ClientAssumption DEF Ids
    <2>2. m.id \in Ids \cup ServerIds \cup {0}
      BY DEF Messages
    <2> QED BY <2>1, <2>2
  <1> QED BY <1>1, OwnStays DEF OwnMessage

LEMMA InboxesStay ==
    ASSUME TypeInv, OwnInboxes, [Next]_vars,
           NEW p \in Peers, NEW id \in inbox[p]
    PROVE  Own(id, p)'
  <1>1. id \in Nat
    BY ClientAssumption DEF TypeInv, ServerType, Ids
  <1> QED BY <1>1, OwnStays DEF OwnInboxes

LEMMA InboxesStep ==
    ASSUME TypeInv, OwnInboxes, [Next]_vars PROVE OwnInboxes'
  <1> USE DEF OwnInboxes
  <1>t. inbox \in [Peers -> SUBSET Ids] /\ alive \subseteq Peers
    BY AliveType DEF TypeInv, ServerType
  <1>o. ASSUME Open, ~Started PROVE OwnInboxes'
    <2>1. /\ peer' \in Peers /\ lastId' = lastId + 1 /\ lastId' \in Ids
          /\ writtenTo' = peer' /\ inbox' = [inbox EXCEPT ![peer'] = {lastId'}]
      BY <1>o, OpenType DEF Open
    <2>2. Own(lastId, peer)'
      BY <2>1, ClientAssumption DEF Own, Ids
    <2> QED BY <1>t, <2>1, <2>2, InboxesStay
  <1>k. ASSUME \A p \in Peers : inbox'[p] \subseteq inbox[p] PROVE OwnInboxes'
    BY <1>k, InboxesStay
  <1>c. ASSUME Close PROVE OwnInboxes'
    BY <1>c, <1>k DEF Close
  <1>1. ASSUME NEW request \in BOOLEAN, Call(request) PROVE OwnInboxes'
    <2>1. CASE Started
      <3>1. UNCHANGED inbox
        BY <1>1, <2>1, Zenon DEF Call, peerVars
      <3> QED BY <3>1, <1>k
    <2>2. CASE ~Started
      BY <1>1, <2>2, <1>o, Zenon DEF Call
    <2> QED BY <2>1, <2>2
  <1>2. CASE Notify
    <2>1. CASE Started
      <3>1. UNCHANGED inbox
        BY <1>2, <2>1, Zenon DEF Notify, peerVars
      <3> QED BY <3>1, <1>k
    <2>2. CASE ~Started
      BY <1>2, <2>2, <1>o, Zenon DEF Notify
    <2> QED BY <2>1, <2>2
  <1>3. CASE NotifyCannotOpen \/ InformFails \/ Leave
    BY <1>3, <1>c, Zenon DEF NotifyCannotOpen, InformFails, Leave,
         HandshakeFails
  <1>4. CASE TimesOut \/ TakesFailure
    <2>1. Close \/ UNCHANGED inbox
      BY <1>4, Zenon DEF TimesOut, TakesFailure, RequestFails, HandshakeFails,
           peerVars
    <2> QED BY <2>1, <1>c, <1>k
  <1>5. CASE Send
    <2>1. /\ pc' = "wait" /\ writtenTo' = peer
          /\ lastId' = lastId + 1 /\ peer' = peer
      BY <1>5, Zenon DEF Send
    <2>2. Own(lastId, peer)'
      BY <2>1, NewRequestNewId DEF Own
    <2>3. CASE peer \in alive
      <3>1. inbox' = [inbox EXCEPT ![peer] = @ \cup {lastId'}]
        BY <1>5, <2>3, Zenon DEF Send
      <3> QED BY <1>t, <2>1, <2>2, <2>3, <3>1, InboxesStay
    <2>4. CASE peer \notin alive
      <3>1. UNCHANGED inbox
        BY <1>5, <2>4, Zenon DEF Send
      <3> QED BY <3>1, <1>k
    <2> QED BY <2>3, <2>4
  <1>6. CASE CannotOpen \/ Inform \/ SendFails \/ Skip \/ TakesResult \/ Tick
             \/ UNCHANGED vars
    <2>1. UNCHANGED inbox
      BY <1>6, Zenon DEF CannotOpen, Inform, SendFails, Skip, TakesResult, Tick,
           vars, peerVars
    <2> QED BY <2>1, <1>k
  <1>7. ASSUME NEW p \in Peers, Reader(p) \/ Notifies(p) \/ Garbles(p)
        PROVE  OwnInboxes'
    <2>1. UNCHANGED inbox
      BY <1>7, Zenon DEF Reader, ReaderTakes, ReaderEnds, Notifies, Garbles
    <2> QED BY <2>1, <1>k
  <1>8. ASSUME NEW p \in Peers, Answers(p) \/ Dies(p) PROVE OwnInboxes'
    <2>1. \A q \in Peers : inbox'[q] \subseteq inbox[q]
      BY <1>8, <1>t DEF Answers, Dies
    <2> QED BY <2>1, <1>k
  <1> QED
    BY <1>1, <1>2, <1>3, <1>4, <1>5, <1>6, <1>7, <1>8 DEF Next, CallerStep

\* A message joins a pipe only from the peer's own inbox, if it is a result.
LEMMA SendsOwn ==
    ASSUME TypeInv, OwnPipes, [Next]_vars, NEW p \in Peers,
           NEW message \in Messages, OwnMessage(message), Sends(p, message)
    PROVE  OwnPipes'
  <1>1. ASSUME NEW q \in Peers, NEW i \in 1 .. Len(pipe'[q])
        PROVE  pipe'[q][i] \in Messages /\ OwnMessage(pipe'[q][i])
    <2>1. pipe \in [Peers -> Seq(Messages)]
      BY DEF TypeInv, StreamType
    <2>2. CASE q = p
      <3>1. pipe'[q] = Append(pipe[q], message)
        BY <2>1, <2>2 DEF Sends
      <3>2. pipe[q] \in Seq(Messages)
        BY <2>1
      <3> QED BY <1>1, <3>1, <3>2 DEF OwnPipes
    <2>3. CASE q # p
      <3>1. pipe'[q] = pipe[q] /\ pipe[q] \in Seq(Messages)
        BY <2>1, <2>3 DEF Sends
      <3> QED BY <1>1, <3>1 DEF OwnPipes
    <2> QED BY <2>2, <2>3
  <1> QED BY <1>1, OwnMessageStays DEF OwnPipes

LEMMA PipesStep ==
    ASSUME TypeInv, OwnInboxes, OwnPipes, [Next]_vars PROVE OwnPipes'
  <1>t. pipe \in [Peers -> Seq(Messages)]
    BY DEF TypeInv, StreamType
  \* A pipe loses its head, or all of it, or stays.
  <1>k. ASSUME \A p \in Peers :
                   \/ pipe'[p] = pipe[p]
                   \/ pipe[p] # <<>> /\ pipe'[p] = Tail(pipe[p])
                   \/ pipe'[p] = <<>>
        PROVE  OwnPipes'
    <2>1. ASSUME NEW p \in Peers, NEW i \in 1 .. Len(pipe'[p])
          PROVE  pipe'[p][i] \in Messages /\ OwnMessage(pipe'[p][i])
      <3>1. pipe[p] \in Seq(Messages)
        BY <1>t
      <3>2. CASE pipe'[p] = pipe[p]
        BY <2>1, <3>1, <3>2 DEF OwnPipes
      <3>3. CASE pipe[p] # <<>> /\ pipe'[p] = Tail(pipe[p])
        BY <2>1, <3>1, <3>3 DEF OwnPipes
      <3>4. CASE pipe'[p] = <<>>
        BY <2>1, <3>4
      <3> QED BY <1>k, <3>2, <3>3, <3>4
    <2> QED BY <2>1, OwnMessageStays DEF OwnPipes
  <1>1. ASSUME NEW p \in Peers, Answers(p) PROVE OwnPipes'
    <2>1. PICK id \in inbox[p], kind \in {"result", "error"} :
              Sends(p, [kind |-> kind, id |-> id, from |-> p])
      BY <1>1 DEF Answers
    <2>2. [kind |-> kind, id |-> id, from |-> p] \in Messages
      BY DEF Messages, TypeInv, ServerType
    <2>3. OwnMessage([kind |-> kind, id |-> id, from |-> p])
      BY DEF OwnMessage, OwnInboxes
    <2> QED BY <2>1, <2>2, <2>3, SendsOwn
  <1>2. ASSUME NEW p \in Peers, Notifies(p) PROVE OwnPipes'
    <2>1. PICK id \in ServerIds :
              Sends(p, [kind |-> "call", id |-> id, from |-> p])
      BY <1>2 DEF Notifies
    <2>2. [kind |-> "call", id |-> id, from |-> p] \in Messages
      BY DEF Messages
    <2>3. OwnMessage([kind |-> "call", id |-> id, from |-> p])
      BY DEF OwnMessage
    <2> QED BY <2>1, <2>2, <2>3, SendsOwn
  <1>3. ASSUME NEW p \in Peers, Garbles(p) PROVE OwnPipes'
    <2>1. [kind |-> "garbage", id |-> 0, from |-> p] \in Messages
      BY DEF Messages
    <2>2. OwnMessage([kind |-> "garbage", id |-> 0, from |-> p])
      BY DEF OwnMessage
    <2> QED BY <1>3, <2>1, <2>2, SendsOwn DEF Garbles
  <1>4. ASSUME NEW p \in Peers, Reader(p) PROVE OwnPipes'
    BY <1>4, <1>t, <1>k DEF Reader, ReaderTakes, ReaderEnds
  <1>5. CASE UNCHANGED pipe
    BY <1>5, <1>k
  <1>6. ASSUME NEW request \in BOOLEAN, Call(request) PROVE UNCHANGED pipe
    BY <1>6, Zenon DEF Call, Open, peerVars
  <1>7. ASSUME NEW p \in Peers, Dies(p) PROVE UNCHANGED pipe
    BY <1>7, Zenon DEF Dies
  <1>8. CASE CannotOpen \/ CallerStep \/ Leave \/ Tick \/ UNCHANGED vars
    <2>1. UNCHANGED pipe
      BY <1>8, Zenon DEF CannotOpen, CallerStep, Notify, NotifyCannotOpen,
           Inform, InformFails, Send, SendFails, TimesOut, Skip, TakesFailure,
           TakesResult, RequestFails, HandshakeFails, Open, Leave, Tick, vars,
           peerVars
    <2> QED BY <2>1, <1>5
  <1> QED
    BY <1>1, <1>2, <1>3, <1>4, <1>5, <1>6, <1>7, <1>8 DEF Next

LEMMA QueueStep ==
    ASSUME TypeInv, OwnPipes, OwnQueue, [Next]_vars PROVE OwnQueue'
  <1>t. queue \in Seq(Messages) /\ pipe \in [Peers -> Seq(Messages)]
    BY DEF TypeInv, StreamType
  \* The queue is emptied, loses its head, stays, or gets a message.
  <1>n. ASSUME queue' = <<>> PROVE OwnQueue'
    BY <1>n DEF OwnQueue
  <1>k. ASSUME UNCHANGED queue PROVE OwnQueue'
    <2>1. \A i \in 1 .. Len(queue) : queue[i] \in Messages
      BY <1>t
    <2> QED BY <1>k, <2>1, OwnMessageStays DEF OwnQueue
  <1>h. ASSUME queue # <<>>, queue' = Tail(queue) PROVE OwnQueue'
    <2>1. \A i \in 1 .. Len(queue') :
              queue'[i] \in Messages /\ OwnMessage(queue'[i])
      BY <1>h, <1>t DEF OwnQueue
    <2> QED BY <2>1, OwnMessageStays DEF OwnQueue
  <1>a. ASSUME NEW m \in Messages, OwnMessage(m), Put(m) PROVE OwnQueue'
    <2>1. \A i \in 1 .. Len(queue') :
              queue'[i] \in Messages /\ OwnMessage(queue'[i])
      BY <1>a, <1>t DEF OwnQueue, Put
    <2> QED BY <2>1, OwnMessageStays DEF OwnQueue
  <1>1. ASSUME NEW p \in Peers, ReaderTakes(p) PROVE OwnQueue'
    <2>1. pipe[p] \in Seq(Messages) /\ pipe[p] # <<>> /\ Put(Head(pipe[p]))
      BY <1>1, <1>t DEF ReaderTakes
    <2>2. Head(pipe[p]) \in Messages /\ OwnMessage(Head(pipe[p]))
      BY <2>1 DEF OwnPipes
    <2> QED BY <2>1, <2>2, <1>a
  <1>2. ASSUME NEW p \in Peers, ReaderEnds(p) PROVE OwnQueue'
    <2>1. [kind |-> "stopped", id |-> 0, from |-> p] \in Messages
      BY DEF Messages
    <2>2. OwnMessage([kind |-> "stopped", id |-> 0, from |-> p])
      BY DEF OwnMessage
    <2> QED BY <1>2, <2>1, <2>2, <1>a DEF ReaderEnds
  <1>3. ASSUME NEW p \in Peers,
               Answers(p) \/ Notifies(p) \/ Garbles(p) \/ Dies(p)
        PROVE  UNCHANGED queue
    BY <1>3, Zenon DEF Answers, Notifies, Garbles, Dies
  <1>4. ASSUME NEW request \in BOOLEAN, Call(request)
        PROVE  queue' = <<>> \/ UNCHANGED queue
    BY <1>4, Zenon DEF Call, Open
  <1>5. CASE Skip \/ TakesFailure \/ TakesResult
    BY <1>5, <1>h, Zenon DEF Skip, TakesFailure, TakesResult, Takes
  <1>6. CASE CannotOpen \/ Notify \/ NotifyCannotOpen \/ Inform \/ InformFails
             \/ Send \/ SendFails \/ TimesOut \/ Leave \/ Tick \/ UNCHANGED vars
    <2>1. queue' = <<>> \/ UNCHANGED queue
      BY <1>6, Zenon DEF CannotOpen, Notify, NotifyCannotOpen, Inform,
           InformFails, Send, SendFails, TimesOut, Open, Leave, Tick, vars
    <2> QED BY <2>1, <1>n, <1>k
  <1> QED
    BY <1>1, <1>2, <1>3, <1>4, <1>5, <1>6, <1>n, <1>k
       DEF Next, CallerStep, Reader

LEMMA InitOwn == Init => OwnInv
  BY DEF Init, OwnInv, OwnInboxes, OwnPipes, OwnQueue

\* What a request returns is the result its own peer gave it, for any number of
\* peers and calls and however late, disordered or foreign the other messages
\* are (app_server.py:351-375).
THEOREM OwnResults == Spec => ResultsAreOwn
  <1>1. TypeInv /\ OwnInv /\ [Next]_vars => OwnInv'
    BY InboxesStep, PipesStep, QueueStep DEF OwnInv
  <1>2. ASSUME TypeInv, OwnInv, [Next]_vars
        PROVE  [TakesResult => Received.from = writtenTo]_vars
    <2> SUFFICES ASSUME TakesResult PROVE Received.from = writtenTo
      OBVIOUS
    <2>1. /\ queue # <<>> /\ Waiting
          /\ Received.kind = "result" /\ Received.id = lastId
      BY Zenon DEF TakesResult, Takes
    <2>2. OwnMessage(Received)
      <3>1. queue \in Seq(Messages)
        BY <1>2, Zenon DEF TypeInv, StreamType
      <3>2. 1 \in 1 .. Len(queue) /\ Received = queue[1]
        BY <2>1, <3>1 DEF Received
      <3> QED BY <1>2, <3>2, Zenon DEF OwnInv, OwnQueue
    <2> QED BY <2>1, <2>2 DEF OwnMessage, Own
  <1> QED BY InitOwn, <1>1, <1>2, TypeInvariant, PTL DEF Spec, ResultsAreOwn
=============================================================================
