----------------------------- MODULE QQTransport -----------------------------
(***************************************************************************)
(* QQTransport of src/mybot/adapters/qq/transport.py: one WebSocket that    *)
(* carries events in and send actions out.  Two tasks of the gateway share  *)
(* it: run() reads frames, and the outbound consumer sits in _call, waiting *)
(* for the frame whose echo is its own.  They meet in _connection and       *)
(* _pending; a step is what runs between two awaits.                        *)
(*                                                                          *)
(* The platform (NapCat) and the socket are external: requests and answers  *)
(* are delivered in order, may be slow, and are lost with the connection.   *)
(***************************************************************************)
EXTENDS Naturals, Sequences

CONSTANTS
  MaxCall,     \* bound: calls of _call
  MaxEvent,    \* bound: events the platform sends
  MaxConn,     \* bound: connections ever made
  MaxRestarts, \* bound: stops of the gateway
  StreamErrors \* TRUE: adding to the ingest stream may raise

ASSUME TransportAssumption ==
  /\ MaxCall \in Nat /\ MaxEvent \in Nat /\ MaxConn \in Nat /\ MaxRestarts \in Nat
  /\ StreamErrors \in BOOLEAN

VARIABLES
  conn,      \* _connection: the number of the connection, 0 for None
  open,      \* whether that connection's socket is still open
  conns,     \* connections made so far
  frames,    \* what the platform sent over it and run() has not read
  reader,    \* run(): "down", "reading", "publishing" or "closing"
  held,      \* the event _dispatch is publishing
  calling,   \* _call: "idle", "sending" or "waiting"
  made,      \* calls so far; the echo of the current one
  over,      \* the connection the current call took from _connection
  awaited,   \* the keys of _pending
  future,    \* the current call's future: "open", "ok", "refused" or "lost"
  requests,  \* sent and not yet processed by the platform, with their connection
  taken,     \* calls whose message the platform delivered
  succeeded, \* calls that returned
  events,    \* events the platform has sent so far
  published, \* the ingest stream: the events in the order they were added
  restarts

socketVars == <<conn, open, conns, frames>>
readerVars == <<reader, held, published>>
callVars == <<calling, made, over, awaited, future, succeeded>>
platformVars == <<requests, taken, events>>
qqVars == <<socketVars, readerVars, callVars, platformVars, restarts>>

Echo == 1..MaxCall
Frame == [kind : {"event"}, n : 1..MaxEvent]
           \cup [kind : {"answer"}, n : Echo, result : {"ok", "refused"}]

QQTypeOK ==
  /\ conn \in 0..conns /\ conns \in 0..MaxConn /\ open \in BOOLEAN
  /\ frames \in Seq(Frame)
  /\ reader \in {"down", "reading", "publishing", "closing"}
  /\ held \in 0..events /\ events \in 0..MaxEvent
  /\ calling \in {"idle", "sending", "waiting"}
  /\ made \in 0..MaxCall /\ over \in 0..conns
  /\ awaited \subseteq Echo /\ succeeded \subseteq Echo /\ taken \subseteq Echo
  /\ future \in {"open", "ok", "refused", "lost"}
  /\ requests \subseteq Echo \X (1..conns)
  /\ published \in Seq(1..MaxEvent)
  /\ restarts \in 0..MaxRestarts

QQInit ==
  /\ conn = 0 /\ open = FALSE /\ conns = 0 /\ frames = <<>>
  /\ reader = "down" /\ held = 0 /\ published = <<>>
  /\ calling = "idle" /\ made = 0 /\ over = 0 /\ awaited = {} /\ future = "lost"
  /\ succeeded = {} /\ requests = {} /\ taken = {} /\ events = 0 /\ restarts = 0

-----------------------------------------------------------------------------
(* The platform and the socket (external).                                  *)

SendEvent ==
  /\ open /\ events < MaxEvent
  /\ events' = events + 1
  /\ frames' = Append(frames, [kind |-> "event", n |-> events + 1])
  /\ UNCHANGED <<conn, open, conns, readerVars, callVars, requests, taken, restarts>>

\* The platform works on a request.  Only an accepted one is answered with
\* success; an error, or success without a message id, is a refusal to the
\* caller whether or not the message went out.  The answer needs the
\* connection the request came over.
Process(r) ==
  /\ r \in requests
  /\ requests' = requests \ {r}
  /\ \E result \in {"ok", "refused"}, goesOut \in BOOLEAN :
       /\ result = "ok" => goesOut
       /\ taken' = IF goesOut THEN taken \cup {r[1]} ELSE taken
       /\ frames' = IF open /\ r[2] = conn
                    THEN Append(frames, [kind |-> "answer", n |-> r[1], result |-> result])
                    ELSE frames
  /\ UNCHANGED <<conn, open, conns, readerVars, callVars, events, restarts>>

\* The socket breaks; some of what was under way still reaches the client.
SocketBreaks ==
  /\ open
  /\ open' = FALSE
  /\ \E k \in 0..Len(frames) : frames' = SubSeq(frames, 1, k)
  /\ UNCHANGED <<conn, conns, readerVars, callVars, platformVars, restarts>>

-----------------------------------------------------------------------------
(* run().                                                                  *)

Connect ==
  /\ reader = "down" /\ conns < MaxConn
  /\ conns' = conns + 1 /\ conn' = conns + 1 /\ open' = TRUE /\ frames' = <<>>
  /\ reader' = "reading"
  /\ UNCHANGED <<held, published, callVars, platformVars, restarts>>

\* Mutant: the first call in _pending gets the answer, whatever its echo.
ReadAnswerByOrder ==
  /\ reader = "reading" /\ frames # <<>> /\ Head(frames).kind = "answer"
  /\ frames' = Tail(frames)
  /\ future' = IF awaited # {} /\ future = "open" THEN Head(frames).result ELSE future
  /\ UNCHANGED <<conn, open, conns, readerVars, calling, made, over, awaited, succeeded,
                 platformVars, restarts>>

\* _dispatch of an answer: it completes the future registered under its echo,
\* if that call is still there.
ReadAnswer ==
  /\ reader = "reading" /\ frames # <<>> /\ Head(frames).kind = "answer"
  /\ frames' = Tail(frames)
  /\ future' = IF Head(frames).n \in awaited /\ future = "open"
               THEN Head(frames).result ELSE future
  /\ UNCHANGED <<conn, open, conns, readerVars, calling, made, over, awaited, succeeded,
                 platformVars, restarts>>

\* _dispatch of an event: dropped if it does not translate, else published;
\* no frame is read while the publish is awaited.
ReadEvent ==
  /\ reader = "reading" /\ frames # <<>> /\ Head(frames).kind = "event"
  /\ frames' = Tail(frames)
  /\ \/ UNCHANGED <<reader, held>>
     \/ reader' = "publishing" /\ held' = Head(frames).n
  /\ UNCHANGED <<conn, open, conns, published, callVars, platformVars, restarts>>

\* Mutant: the publish is retried although it went through.
PublishedTwice ==
  /\ reader = "publishing"
  /\ published' = Append(published, held)
  /\ reader' \in {"reading", "publishing"}
  /\ held' = IF reader' = "reading" THEN 0 ELSE held
  /\ Len(published) < MaxEvent
  /\ UNCHANGED <<socketVars, callVars, platformVars, restarts>>

Published ==
  /\ reader = "publishing"
  /\ published' = Append(published, held)
  /\ reader' = "reading" /\ held' = 0
  /\ UNCHANGED <<socketVars, callVars, platformVars, restarts>>

\* publisher.publish raises: the exception leaves the read loop, and the
\* `async with` closes the connection.  The event is gone.
PublishFails ==
  /\ reader = "publishing" /\ StreamErrors
  /\ reader' = "closing" /\ held' = 0 /\ open' = FALSE /\ frames' = <<>>
  /\ UNCHANGED <<conn, conns, published, callVars, platformVars, restarts>>

\* Mutant: _fail_pending is not called.
ConnectionLostSilently ==
  /\ ~open /\ (reader = "closing" \/ (reader = "reading" /\ frames = <<>>))
  /\ reader' = "down" /\ conn' = 0
  /\ UNCHANGED <<open, conns, frames, held, published, callVars, platformVars, restarts>>

\* The finally of run(): no connection, and _fail_pending wakes the caller.
ConnectionLost ==
  /\ ~open /\ (reader = "closing" \/ (reader = "reading" /\ frames = <<>>))
  /\ reader' = "down" /\ conn' = 0
  /\ future' = IF awaited # {} /\ future = "open" THEN "lost" ELSE future
  /\ awaited' = {}
  /\ UNCHANGED <<open, conns, frames, held, published, calling, made, over, succeeded,
                 platformVars, restarts>>

-----------------------------------------------------------------------------
(* _call.                                                                  *)

\* Up to the first await: without a connection the call fails at once.
StartCall ==
  /\ calling = "idle" /\ made < MaxCall
  /\ made' = made + 1
  /\ \/ /\ conn = 0
        /\ UNCHANGED <<calling, over, awaited, future>>
     \/ /\ conn # 0
        /\ calling' = "sending" /\ over' = conn
        /\ awaited' = awaited \cup {made + 1} /\ future' = "open"
  /\ UNCHANGED <<succeeded, socketVars, readerVars, platformVars, restarts>>

SendDone ==
  /\ calling = "sending" /\ open /\ conn = over
  /\ calling' = "waiting"
  /\ requests' = requests \cup {<<made, over>>}
  /\ UNCHANGED <<made, over, awaited, future, succeeded, socketVars, readerVars,
                 taken, events, restarts>>

\* The finally of _call.
EndCall == calling' = "idle" /\ awaited' = awaited \ {made}

\* connection.send raises ConnectionClosed.
SendRaises ==
  /\ calling = "sending" /\ ~(open /\ conn = over)
  /\ EndCall
  /\ UNCHANGED <<made, over, future, succeeded, socketVars, readerVars, platformVars, restarts>>

\* The future is done: return the answer, or raise DeliveryError.
CallReturns ==
  /\ calling = "waiting" /\ future # "open"
  /\ succeeded' = IF future = "ok" THEN succeeded \cup {made} ELSE succeeded
  /\ EndCall
  /\ UNCHANGED <<made, over, future, socketVars, readerVars, platformVars, restarts>>

\* Mutant: a call without an answer waits for ever.
CallTimesOutNever ==
  /\ calling = "waiting" /\ future # "open"
  /\ EndCall
  /\ UNCHANGED <<made, over, future, succeeded, socketVars, readerVars, platformVars, restarts>>

\* _ACTION_TIMEOUT_SECONDS pass, possibly just as the answer arrives.
CallTimesOut ==
  /\ calling = "waiting"
  /\ EndCall
  /\ UNCHANGED <<made, over, future, succeeded, socketVars, readerVars, platformVars, restarts>>

\* The gateway stops and starts again; both tasks are cancelled.
Restart ==
  /\ restarts < MaxRestarts /\ restarts' = restarts + 1
  /\ conn' = 0 /\ open' = FALSE /\ frames' = <<>>
  /\ reader' = "down" /\ held' = 0
  /\ calling' = "idle" /\ awaited' = {} /\ future' = "lost"
  /\ UNCHANGED <<conns, published, made, over, succeeded, platformVars>>

-----------------------------------------------------------------------------
QQNext ==
  \/ SendEvent \/ (\E r \in requests : Process(r)) \/ SocketBreaks
  \/ Connect \/ ReadAnswer \/ ReadEvent \/ Published \/ PublishFails \/ ConnectionLost
  \/ StartCall \/ SendDone \/ SendRaises \/ CallReturns \/ CallTimesOut
  \/ Restart

QQSpec == QQInit /\ [][QQNext]_qqVars

\* A send ends (or the keep-alive closes the connection), and ten seconds pass.
FairQQSpec == QQSpec /\ WF_qqVars(SendDone) /\ WF_qqVars(SendRaises) /\ WF_qqVars(CallTimesOut)

-----------------------------------------------------------------------------
\* _call: a call returns only if the platform took its own message.  The
\* answer to a call that timed out may arrive while its retry waits; the echo
\* keeps it from completing the retry.
SuccessIsAccepted == succeeded \subseteq taken

\* _call, _fail_pending: a call waits only for the connection it was sent
\* over, while that is still the current one, and it can be found under its
\* echo; when no call is under way nothing stays registered.
WaitsOnLiveConnection ==
  /\ calling # "idle" /\ future = "open" => conn = over /\ over # 0 /\ awaited = {made}
  /\ calling = "idle" => awaited = {}

\* run, _dispatch: over reconnects and restarts the events enter the ingest
\* stream in the order in which the platform sent them, none twice.
EventsInOrder ==
  \A i, j \in 1..Len(published) : i < j => published[i] < published[j]

\* _call ends, with or without an answer: the outbound consumer behind it is
\* never stuck.
CallsEnd == calling # "idle" ~> calling = "idle"
=============================================================================
