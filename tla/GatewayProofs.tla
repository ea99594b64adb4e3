--------------------------- MODULE GatewayProofs ---------------------------
(***************************************************************************)
(* The gateway process, for every value of the constants: what its          *)
(* Telegram and QQ transports put into the ingest stream, what a QQ call    *)
(* that returned means, and what becomes of the outbound messages.          *)
(***************************************************************************)
EXTENDS TelegramTransport, QQTransport, Gateway, StreamConsumerProofs, FiniteSetTheorems

-----------------------------------------------------------------------------
(* Telegram.                                                               *)

USE UpdateAssumption DEF Update

Gone(u) == added[u] > 0 \/ u \in Untranslatable

\* What the poller has already dealt with, wherever it is: the offset never
\* runs ahead of it when the next getUpdates call is made.
PollerInv ==
  /\ poller = "starting" => offset = 0
  /\ poller = "polling" => \A u \in 1..(offset - 1) : Gone(u)
  /\ poller = "publishing" =>
       /\ offset <= next /\ next >= 1 /\ next <= upto + 1
       /\ \A u \in 1..(next - 1) : Gone(u)

\* The inductive invariant of the poller.
TelegramInv == TelegramTypeOK /\ PollerInv /\ ForgottenIsPublished

\* A publish never takes an update out of the stream.
LEMMA PublishFacts ==
  ASSUME TelegramInv, PublishUpdate
  PROVE  /\ added' \in [Update -> Nat]
         /\ \A u \in Update : Gone(u) \/ u = next => Gone(u)'
         /\ next \in Update /\ next < next' /\ next' = next + 1
<1>1. /\ next \in Nat /\ upto \in Nat /\ upto <= MaxUpdate /\ added \in [Update -> Nat]
  BY DEF TelegramInv, TelegramTypeOK
<1>2. next >= 1 /\ next <= upto /\ next' = next + 1
  BY DEF TelegramInv, PollerInv, PublishUpdate
<1>3. next \in Update
  BY <1>1, <1>2
<1>4. CASE next \in Untranslatable
  BY <1>1, <1>2, <1>3, <1>4 DEF PublishUpdate, Gone
<1>5. CASE next \notin Untranslatable
  <2>1. added' = [added EXCEPT ![next] = @ + 1]
    BY <1>5 DEF PublishUpdate
  <2>2. /\ added' \in [Update -> Nat] /\ added'[next] > 0
        /\ \A u \in Update : added'[u] >= added[u] /\ added[u] \in Nat
    BY <1>1, <1>3, <2>1
  <2>3. \A u \in Update : added[u] > 0 \/ u = next => added'[u] > 0
    BY <2>2
  <2> QED
    BY <1>1, <1>2, <1>3, <2>2, <2>3 DEF Gone
<1> QED
  BY <1>4, <1>5

\* A getUpdates call confirms only what the poller has dealt with.
LEMMA PollStep ==
  ASSUME TelegramInv, Poll
  PROVE  TelegramInv'
<1>1. /\ arrived \in Nat /\ confirmed \in Nat /\ offset \in Nat /\ arrived <= MaxUpdate
      /\ confirmed <= arrived /\ offset <= arrived + 1 /\ next \in Nat /\ upto \in 0..arrived
      /\ poller = "polling" /\ added \in [Update -> Nat]
      /\ stops \in 0..MaxStops /\ failures \in 0..MaxFailures
  BY DEF TelegramInv, TelegramTypeOK, Poll
<1>2. /\ \A u \in 1..(offset - 1) : Gone(u)
      /\ \A u \in 1..confirmed : Gone(u)
  BY <1>1 DEF TelegramInv, PollerInv, ForgottenIsPublished, Gone
<1> DEFINE k == IF offset > confirmed + 1 THEN offset - 1 ELSE confirmed
<1>3. k \in Nat /\ k <= arrived /\ offset <= k + 1
  BY <1>1
<1>4. \A u \in 1..k : Gone(u)
  <2>1. k = offset - 1 \/ k = confirmed
    OBVIOUS
  <2> QED
    BY <1>2, <2>1
<1>5. confirmed' = k /\ UNCHANGED <<arrived, offset, added, stops, failures>>
  BY DEF Poll
<1> HIDE DEF k
<1>6. \A u : Gone(u)' <=> Gone(u)
  BY <1>5 DEF Gone
<1>7. ForgottenIsPublished'
  BY <1>4, <1>5 DEF ForgottenIsPublished, Gone
<1>8. CASE UNCHANGED <<next, upto, poller>>
  <2>1. TelegramTypeOK'
    BY <1>1, <1>3, <1>5, <1>8 DEF TelegramTypeOK
  <2>2. PollerInv'
    BY <1>1, <1>2, <1>5, <1>6, <1>8 DEF PollerInv
  <2> QED
    BY <2>1, <2>2, <1>7 DEF TelegramInv
<1>9. CASE upto' \in (confirmed' + 1)..arrived /\ next' = confirmed' + 1 /\ poller' = "publishing"
  <2>1. PICK h \in (k + 1)..arrived : upto' = h
    BY <1>5, <1>9
  <2>2. h \in 0..arrived /\ k + 1 <= h + 1 /\ next' = k + 1
    BY <1>1, <1>3, <1>5, <1>9, <2>1
  <2>3. TelegramTypeOK'
    BY <1>1, <1>3, <1>5, <1>9, <2>1, <2>2 DEF TelegramTypeOK
  <2>4. \A u \in 1..(next' - 1) : Gone(u)'
    <3>1. next' - 1 = k
      BY <1>3, <2>2
    <3> QED
      BY <1>4, <1>6, <3>1
  <2>5. offset' <= next' /\ next' >= 1 /\ next' <= upto' + 1
    BY <1>3, <1>5, <2>1, <2>2
  <2>6. PollerInv'
    BY <1>9, <2>4, <2>5 DEF PollerInv
  <2> QED
    BY <1>7, <2>3, <2>6 DEF TelegramInv
<1> QED
  BY <1>8, <1>9 DEF Poll

\* Going through one update of a response keeps the invariant.
LEMMA PublishStep ==
  ASSUME TelegramInv, PublishUpdate
  PROVE  TelegramInv'
<1>1. /\ poller = "publishing" /\ offset' = next + 1 /\ next <= upto
      /\ UNCHANGED <<arrived, confirmed, poller, upto, stops, failures>>
  BY DEF PublishUpdate
<1>2. /\ next \in Nat /\ next >= 1 /\ next <= MaxUpdate /\ next' = next + 1
      /\ added' \in [Update -> Nat]
      /\ arrived \in Nat /\ upto \in Nat /\ upto <= arrived /\ arrived <= MaxUpdate
      /\ confirmed \in Nat /\ confirmed <= arrived
  BY PublishFacts DEF TelegramInv, TelegramTypeOK
<1>3. /\ \A u \in 1..(next - 1) : Gone(u)
      /\ \A u \in 1..confirmed : Gone(u)
  BY <1>1 DEF TelegramInv, PollerInv, ForgottenIsPublished, Gone
<1>4. \A u \in 1..confirmed : Gone(u)'
  <2>1. \A u \in 1..confirmed : u \in Update
    BY <1>2
  <2> QED
    BY <1>3, <2>1, PublishFacts
<1>5. \A u \in 1..(next' - 1) : Gone(u)'
  <2> SUFFICES ASSUME NEW u \in 1..(next' - 1) PROVE Gone(u)'
    OBVIOUS
  <2>1. u \in Update /\ (u = next \/ u \in 1..(next - 1))
    BY <1>2
  <2> QED
    BY <1>3, <2>1, PublishFacts
<1>6. TelegramTypeOK'
  BY <1>1, <1>2 DEF TelegramInv, TelegramTypeOK
<1>7. PollerInv'
  <2>1. offset' <= next' /\ next' >= 1 /\ next' <= upto' + 1
    BY <1>1, <1>2
  <2> QED
    BY <1>1, <1>5, <2>1 DEF PollerInv
<1>8. ForgottenIsPublished'
  BY <1>1, <1>4 DEF ForgottenIsPublished, Gone
<1> QED
  BY <1>6, <1>7, <1>8 DEF TelegramInv

\* Every step of the poller, the server and the operator keeps the invariant.
LEMMA TelegramStep == TelegramInv /\ [TelegramNext]_telegramVars => TelegramInv'
<1> SUFFICES ASSUME TelegramInv, [TelegramNext]_telegramVars PROVE TelegramInv'
  OBVIOUS
<1> USE DEF TelegramInv, PollerInv, ForgottenIsPublished
<1>1. CASE Arrive
  BY <1>1 DEF Arrive, TelegramTypeOK, Gone
<1>2. CASE Discover
  BY <1>2 DEF Discover, TelegramTypeOK, Gone
<1>3. CASE Poll
  BY <1>3, PollStep
<1>4. CASE PublishUpdate
  BY <1>4, PublishStep
<1>5. CASE BatchDone
  BY <1>5 DEF BatchDone, TelegramTypeOK, Gone
<1>6. CASE PublishRaises
  BY <1>6 DEF PublishRaises, TelegramTypeOK, Gone
<1>7. CASE RestartPolling
  BY <1>7 DEF RestartPolling, TelegramTypeOK, Gone
<1>8. CASE UNCHANGED telegramVars
  BY <1>8 DEF telegramVars, TelegramTypeOK, Gone
<1> QED
  BY <1>1, <1>2, <1>3, <1>4, <1>5, <1>6, <1>7, <1>8 DEF TelegramNext, PollerStep

\* What Telegram's server has forgotten is in the ingest stream.
THEOREM NothingForgottenUnpublished == TelegramSpec => []ForgottenIsPublished
<1>1. TelegramInit => TelegramInv
  BY DEF TelegramInit, TelegramInv, PollerInv, ForgottenIsPublished, TelegramTypeOK
<1>2. TelegramInv => ForgottenIsPublished
  BY DEF TelegramInv
<1> QED
  BY <1>1, <1>2, TelegramStep, PTL DEF TelegramSpec

\* In the present life of the gateway run() has added an update at most once,
\* and only one that lies below its offset; in an earlier life at most once per
\* restart.
AddedOncePerLife ==
  \A u \in Update : added[u] <= stops + (IF u < offset THEN 1 ELSE 0)

\* No step adds an update that lies below the offset (run never goes back).
LEMMA AddedStep ==
  TelegramInv /\ AddedOncePerLife /\ [TelegramNext]_telegramVars => AddedOncePerLife'
<1> SUFFICES ASSUME TelegramInv, AddedOncePerLife, [TelegramNext]_telegramVars
             PROVE  AddedOncePerLife'
  OBVIOUS
<1>a. /\ offset \in Nat /\ next \in Nat /\ stops \in Nat /\ added \in [Update -> Nat]
      /\ poller = "publishing" => offset <= next
  BY DEF TelegramInv, TelegramTypeOK, PollerInv
<1>1. CASE Arrive \/ Discover \/ BatchDone \/ Poll \/ UNCHANGED telegramVars
  <2>1. UNCHANGED <<added, stops, offset>>
    BY <1>1 DEF Arrive, Discover, BatchDone, Poll, telegramVars
  <2> QED
    BY <2>1 DEF AddedOncePerLife
<1>2. CASE PublishUpdate
  <2>1. /\ offset' = next + 1 /\ stops' = stops /\ offset <= next
        /\ added' = added \/ added' = [added EXCEPT ![next] = @ + 1]
    BY <1>a, <1>2 DEF PublishUpdate
  <2> SUFFICES ASSUME NEW u \in Update
               PROVE  added'[u] <= stops + (IF u < next + 1 THEN 1 ELSE 0)
    BY <2>1 DEF AddedOncePerLife
  <2>2. u \in Nat /\ added[u] \in Nat /\ added[u] <= stops + (IF u < offset THEN 1 ELSE 0)
    BY <1>a DEF AddedOncePerLife
  <2>3. added'[u] = added[u] \/ (u = next /\ added'[u] = added[u] + 1)
    BY <1>a, <2>1
  <2> QED
    BY <1>a, <2>1, <2>2, <2>3
<1>3. CASE PublishRaises
  <2>1. offset' = next + 1 /\ offset <= next /\ UNCHANGED <<added, stops>>
    BY <1>a, <1>3 DEF PublishRaises
  <2> QED
    BY <1>a, <2>1 DEF AddedOncePerLife
<1>4. CASE RestartPolling
  <2>1. offset' = 0 /\ stops' = stops + 1 /\ UNCHANGED added
    BY <1>4 DEF RestartPolling
  <2>2. \A u \in Update : u \in Nat /\ ~(u < 0)
    OBVIOUS
  <2> QED
    BY <1>a, <2>1, <2>2 DEF AddedOncePerLife
<1> QED
  BY <1>1, <1>2, <1>3, <1>4 DEF TelegramNext, PollerStep

\* An update is in the ingest stream at most once more than there were
\* restarts of the gateway.
THEOREM RepeatsNeedRestarts == TelegramSpec => []RepeatedOnlyByRestarts
<1>1. TelegramInit => TelegramInv /\ AddedOncePerLife
  BY DEF TelegramInit, TelegramInv, PollerInv, ForgottenIsPublished, TelegramTypeOK,
     AddedOncePerLife
<1>2. TelegramInv /\ AddedOncePerLife => RepeatedOnlyByRestarts
  <2> SUFFICES ASSUME TelegramInv, AddedOncePerLife, NEW u \in Update
               PROVE  added[u] <= 1 + stops
    BY DEF RepeatedOnlyByRestarts
  <2>1. stops \in Nat /\ added[u] \in Nat
    BY DEF TelegramInv, TelegramTypeOK
  <2> QED
    BY <2>1 DEF AddedOncePerLife
<1> QED
  BY <1>1, <1>2, TelegramStep, AddedStep, PTL DEF TelegramSpec

-----------------------------------------------------------------------------
(* QQ.                                                                     *)

USE TransportAssumption DEF Echo

\* Every success the platform reported, wherever the report has got to, is of
\* a message it delivered.
ReportsAreTrue ==
  /\ \A i \in 1..Len(frames) :
       frames[i].kind = "answer" /\ frames[i].result = "ok" => frames[i].n \in taken
  /\ calling # "idle" /\ future = "ok" => made \in taken
  /\ succeeded \subseteq taken

\* Only the current call is registered, and run() is down exactly when there
\* is no connection.
Shape ==
  /\ frames \in Seq(Frame)
  /\ conn \in Nat /\ conns \in Nat /\ made \in Nat /\ events \in Nat
  /\ calling # "idle" => made \in Echo
  /\ requests \subseteq Echo \X Nat
  /\ awaited \subseteq {made}
  /\ reader = "down" <=> conn = 0

\* The inductive invariant of the two tasks.
CallInv == Shape /\ ReportsAreTrue /\ WaitsOnLiveConnection

\* The frames a step leaves are old ones, in the order they came, or the old
\* ones and one more.
LEMMA FrameFacts ==
  ASSUME frames \in Seq(Frame)
  PROVE  /\ \A f \in Frame :
              /\ Append(frames, f) \in Seq(Frame)
              /\ \A i \in 1..Len(Append(frames, f)) :
                   Append(frames, f)[i] = f \/
                   (i \in 1..Len(frames) /\ Append(frames, f)[i] = frames[i])
         /\ frames # <<>> =>
              /\ Tail(frames) \in Seq(Frame) /\ Head(frames) = frames[1] /\ 1 \in 1..Len(frames)
              /\ \A i \in 1..Len(Tail(frames)) :
                   i + 1 \in 1..Len(frames) /\ Tail(frames)[i] = frames[i + 1]
         /\ \A k \in 0..Len(frames) :
              /\ SubSeq(frames, 1, k) \in Seq(Frame)
              /\ \A i \in 1..Len(SubSeq(frames, 1, k)) :
                   i \in 1..Len(frames) /\ SubSeq(frames, 1, k)[i] = frames[i]
<1>1. ASSUME NEW f \in Frame
      PROVE  /\ Append(frames, f) \in Seq(Frame)
             /\ \A i \in 1..Len(Append(frames, f)) :
                   Append(frames, f)[i] = f \/
                   (i \in 1..Len(frames) /\ Append(frames, f)[i] = frames[i])
  OBVIOUS
<1>2. ASSUME frames # <<>>
      PROVE  /\ Tail(frames) \in Seq(Frame) /\ Head(frames) = frames[1] /\ 1 \in 1..Len(frames)
             /\ \A i \in 1..Len(Tail(frames)) :
                   i + 1 \in 1..Len(frames) /\ Tail(frames)[i] = frames[i + 1]
  BY <1>2
<1>3. ASSUME NEW k \in 0..Len(frames)
      PROVE  /\ SubSeq(frames, 1, k) \in Seq(Frame)
             /\ \A i \in 1..Len(SubSeq(frames, 1, k)) :
                   i \in 1..Len(frames) /\ SubSeq(frames, 1, k)[i] = frames[i]
  OBVIOUS
<1> QED
  BY <1>1, <1>2, <1>3

\* A step that adds a frame, and touches neither task.
LEMMA FrameAdded ==
  ASSUME CallInv, NEW f \in Frame, NEW more \in SUBSET Echo,
         f.kind = "answer" /\ f.result = "ok" => f.n \in taken',
         taken' = taken \cup more, frames' = Append(frames, f),
         requests' \subseteq requests, events' \in Nat,
         UNCHANGED <<conn, conns, readerVars, callVars>>
  PROVE  CallInv'
<1>1. Shape'
  BY FrameFacts DEF CallInv, Shape, readerVars, callVars
<1>2. ASSUME NEW i \in 1..Len(frames'), frames'[i].kind = "answer", frames'[i].result = "ok"
      PROVE  frames'[i].n \in taken'
  <2>1. frames'[i] = f \/ (i \in 1..Len(frames) /\ frames'[i] = frames[i])
    BY FrameFacts DEF CallInv, Shape
  <2> QED
    BY <1>2, <2>1 DEF CallInv, ReportsAreTrue
<1>3. ReportsAreTrue'
  BY <1>2 DEF CallInv, ReportsAreTrue, callVars
<1>4. WaitsOnLiveConnection'
  BY DEF CallInv, WaitsOnLiveConnection, callVars
<1> QED
  BY <1>1, <1>3, <1>4 DEF CallInv

\* A step that keeps some of the frames, and what the platform has done.
LEMMA FramesKept ==
  ASSUME CallInv, frames' \in Seq(Frame),
         \A i \in 1..Len(frames') : \E j \in 1..Len(frames) : frames'[i] = frames[j],
         UNCHANGED taken
  PROVE  \A i \in 1..Len(frames') :
           frames'[i].kind = "answer" /\ frames'[i].result = "ok" => frames'[i].n \in taken'
BY DEF CallInv, ReportsAreTrue

\* Every step of the tasks, the platform and the operator keeps the invariant.
LEMMA CallStep == CallInv /\ [QQNext]_qqVars => CallInv'
<1> SUFFICES ASSUME CallInv, [QQNext]_qqVars PROVE CallInv'
  OBVIOUS
<1>a. frames \in Seq(Frame) /\ <<>> \in Seq(Frame) /\ Len(<<>>) = 0
  BY DEF CallInv, Shape
<1>1. CASE SendEvent
  <2> DEFINE f == [kind |-> "event", n |-> events + 1]
  <2>1. f \in Frame /\ f.kind # "answer" /\ events + 1 \in Nat
    BY <1>1 DEF SendEvent, CallInv, Shape, Frame
  <2>2. /\ frames' = Append(frames, f) /\ events' = events + 1 /\ requests' \subseteq requests
        /\ taken' = taken \cup {} /\ UNCHANGED <<conn, conns, readerVars, callVars>>
    BY <1>1 DEF SendEvent
  <2> HIDE DEF f
  <2> QED
    BY <2>1, <2>2, FrameAdded
<1>2. ASSUME NEW r \in requests, Process(r) PROVE CallInv'
  <2>1. PICK result \in {"ok", "refused"}, goesOut \in BOOLEAN :
          /\ result = "ok" => goesOut
          /\ taken' = IF goesOut THEN taken \cup {r[1]} ELSE taken
          /\ frames' = IF open /\ r[2] = conn
                       THEN Append(frames, [kind |-> "answer", n |-> r[1], result |-> result])
                       ELSE frames
    BY <1>2 DEF Process
  <2>2. r[1] \in Echo
    BY DEF CallInv, Shape
  <2>3. PICK more \in SUBSET Echo : taken' = taken \cup more
    <3>1. CASE goesOut
      <4>1. {r[1]} \in SUBSET Echo /\ taken' = taken \cup {r[1]}
        BY <2>1, <2>2, <3>1
      <4> QED
        BY <4>1
    <3>2. CASE ~goesOut
      <4>1. {} \in SUBSET Echo /\ taken' = taken \cup {}
        BY <2>1, <3>2
      <4> QED
        BY <4>1
    <3> QED
      BY <3>1, <3>2
  <2>4. requests' \subseteq requests /\ events' \in Nat /\ UNCHANGED <<conn, conns, readerVars, callVars>>
    BY <1>2 DEF Process, CallInv, Shape
  <2>5. CASE open /\ r[2] = conn
    <3> DEFINE f == [kind |-> "answer", n |-> r[1], result |-> result]
    <3>1. f \in Frame
      BY <2>1, <2>2 DEF Frame
    <3>2. f.kind = "answer" /\ f.result = "ok" => f.n \in taken'
      BY <2>1
    <3>3. frames' = Append(frames, f)
      BY <2>1, <2>5
    <3> HIDE DEF f
    <3> QED
      BY <2>3, <2>4, <3>1, <3>2, <3>3, FrameAdded
  <2>6. CASE ~(open /\ r[2] = conn)
    <3>1. frames' = frames
      BY <2>1, <2>6
    <3>2. Shape'
      BY <2>4, <3>1 DEF CallInv, Shape, readerVars, callVars
    <3>3. ReportsAreTrue'
      BY <2>3, <2>4, <3>1 DEF CallInv, ReportsAreTrue, callVars
    <3>4. WaitsOnLiveConnection'
      BY <2>4 DEF CallInv, WaitsOnLiveConnection, callVars
    <3> QED
      BY <3>2, <3>3, <3>4 DEF CallInv
  <2> QED
    BY <2>5, <2>6
<1>3. CASE SocketBreaks
  <2>1. PICK k \in 0..Len(frames) : frames' = SubSeq(frames, 1, k)
    BY <1>3 DEF SocketBreaks
  <2>2. UNCHANGED <<conn, conns, readerVars, callVars, platformVars>>
    BY <1>3 DEF SocketBreaks
  <2>3. /\ frames' \in Seq(Frame)
        /\ \A i \in 1..Len(frames') : \E j \in 1..Len(frames) : frames'[i] = frames[j]
    BY <1>a, <2>1, FrameFacts
  <2>4. Shape'
    BY <2>2, <2>3 DEF CallInv, Shape, readerVars, callVars, platformVars
  <2>5. ReportsAreTrue'
    BY <2>2, <2>3, FramesKept DEF CallInv, ReportsAreTrue, callVars, platformVars
  <2> QED
    BY <2>2, <2>4, <2>5 DEF CallInv, WaitsOnLiveConnection, callVars
<1>4. CASE Connect
  <2>1. /\ conn = 0 /\ conns' = conns + 1 /\ conn' = conns + 1 /\ frames' = <<>>
        /\ reader' = "reading" /\ UNCHANGED <<callVars, platformVars>>
    BY <1>4 DEF Connect, CallInv, Shape
  <2>2. Shape'
    BY <1>a, <2>1 DEF CallInv, Shape, callVars, platformVars
  <2>3. ReportsAreTrue'
    BY <1>a, <2>1 DEF CallInv, ReportsAreTrue, callVars, platformVars
  <2>4. ~(calling # "idle" /\ future = "open")
    BY <2>1 DEF CallInv, WaitsOnLiveConnection
  <2>5. WaitsOnLiveConnection'
    BY <2>1, <2>4 DEF CallInv, WaitsOnLiveConnection, callVars
  <2> QED
    BY <2>2, <2>3, <2>5 DEF CallInv
<1>5. CASE ReadAnswer
  <2>1. /\ frames # <<>> /\ frames' = Tail(frames) /\ Head(frames).kind = "answer"
        /\ future' = IF Head(frames).n \in awaited /\ future = "open"
                     THEN Head(frames).result ELSE future
        /\ UNCHANGED <<conn, conns, readerVars, calling, made, over, awaited, succeeded,
                       platformVars>>
    BY <1>5 DEF ReadAnswer
  <2>2. /\ frames' \in Seq(Frame) /\ Head(frames) = frames[1] /\ 1 \in 1..Len(frames)
        /\ \A i \in 1..Len(frames') : \E j \in 1..Len(frames) : frames'[i] = frames[j]
    BY <1>a, <2>1, FrameFacts
  <2>3. Shape'
    BY <2>1, <2>2 DEF CallInv, Shape, readerVars, platformVars
  <2>4. Head(frames).n \in awaited /\ Head(frames).result = "ok" => made \in taken
    BY <2>1, <2>2 DEF CallInv, Shape, ReportsAreTrue
  <2>5. ReportsAreTrue'
    BY <2>1, <2>2, <2>4, FramesKept DEF CallInv, ReportsAreTrue, platformVars
  <2>6. WaitsOnLiveConnection'
    BY <2>1 DEF CallInv, WaitsOnLiveConnection
  <2> QED
    BY <2>3, <2>5, <2>6 DEF CallInv
<1>6. CASE ReadEvent
  <2>1. /\ frames # <<>> /\ frames' = Tail(frames) /\ reader = "reading"
        /\ reader' \in {"reading", "publishing"}
        /\ UNCHANGED <<conn, conns, callVars, platformVars>>
    BY <1>6 DEF ReadEvent
  <2>2. /\ frames' \in Seq(Frame)
        /\ \A i \in 1..Len(frames') : \E j \in 1..Len(frames) : frames'[i] = frames[j]
    BY <1>a, <2>1, FrameFacts
  <2>3. Shape'
    BY <2>1, <2>2 DEF CallInv, Shape, callVars, platformVars
  <2>4. ReportsAreTrue'
    BY <2>1, <2>2, FramesKept DEF CallInv, ReportsAreTrue, callVars, platformVars
  <2> QED
    BY <2>1, <2>3, <2>4 DEF CallInv, WaitsOnLiveConnection, callVars
<1>7. CASE Published \/ PublishFails
  <2>1. /\ reader = "publishing" /\ reader' \in {"reading", "closing"}
        /\ frames' = frames \/ frames' = <<>>
        /\ UNCHANGED <<conn, conns, callVars, platformVars>>
    BY <1>7 DEF Published, PublishFails, socketVars
  <2>2. Shape'
    BY <1>a, <2>1 DEF CallInv, Shape, callVars, platformVars
  <2>3. ReportsAreTrue'
    BY <1>a, <2>1 DEF CallInv, ReportsAreTrue, callVars, platformVars
  <2> QED
    BY <2>1, <2>2, <2>3 DEF CallInv, WaitsOnLiveConnection, callVars
<1>8. CASE ConnectionLost
  <2>1. /\ conn' = 0 /\ reader' = "down" /\ awaited' = {}
        /\ future' = IF awaited # {} /\ future = "open" THEN "lost" ELSE future
        /\ UNCHANGED <<frames, conns, calling, made, over, succeeded, platformVars>>
    BY <1>8 DEF ConnectionLost
  <2>2. Shape'
    BY <2>1 DEF CallInv, Shape, platformVars
  <2>3. ReportsAreTrue'
    BY <2>1 DEF CallInv, ReportsAreTrue, platformVars
  <2>4. ~(calling' # "idle" /\ future' = "open")
    BY <2>1 DEF CallInv, WaitsOnLiveConnection
  <2> QED
    BY <2>1, <2>2, <2>3, <2>4 DEF CallInv, WaitsOnLiveConnection
<1>9. CASE StartCall
  <2>1. /\ calling = "idle" /\ made' = made + 1 /\ made + 1 \in Echo /\ awaited = {}
        /\ UNCHANGED <<succeeded, socketVars, readerVars, platformVars>>
    BY <1>9 DEF StartCall, CallInv, Shape, WaitsOnLiveConnection
  <2>2. \/ UNCHANGED <<calling, over, awaited, future>>
        \/ /\ conn # 0 /\ calling' = "sending" /\ over' = conn
           /\ awaited' = {made + 1} /\ future' = "open"
    BY <1>9, <2>1 DEF StartCall
  <2>3. Shape'
    BY <2>1, <2>2 DEF CallInv, Shape, socketVars, readerVars, platformVars
  <2>4. ReportsAreTrue'
    BY <2>1, <2>2 DEF CallInv, ReportsAreTrue, socketVars, platformVars
  <2>5. WaitsOnLiveConnection'
    BY <2>1, <2>2 DEF WaitsOnLiveConnection, socketVars
  <2> QED
    BY <2>3, <2>4, <2>5 DEF CallInv
<1>10. CASE SendDone
  <2>1. /\ calling = "sending" /\ calling' = "waiting" /\ requests' = requests \cup {<<made, over>>}
        /\ over = conn /\ made \in Echo /\ conn \in Nat
        /\ UNCHANGED <<made, over, awaited, future, succeeded, socketVars, readerVars, taken, events>>
    BY <1>10 DEF SendDone, CallInv, Shape
  <2>2. Shape'
    BY <2>1 DEF CallInv, Shape, socketVars, readerVars
  <2>3. ReportsAreTrue'
    BY <2>1 DEF CallInv, ReportsAreTrue, socketVars
  <2> QED
    BY <2>1, <2>2, <2>3 DEF CallInv, WaitsOnLiveConnection, socketVars
<1>11. CASE SendRaises \/ CallTimesOut \/ CallReturns
  <2>1. /\ calling # "idle" /\ calling' = "idle" /\ awaited' = awaited \ {made}
        /\ UNCHANGED <<made, over, future, socketVars, readerVars, platformVars>>
    BY <1>11 DEF SendRaises, CallTimesOut, CallReturns, EndCall
  <2>2. succeeded' = succeeded \/ (future = "ok" /\ succeeded' = succeeded \cup {made})
    BY <1>11 DEF SendRaises, CallTimesOut, CallReturns
  <2>3. Shape' /\ awaited' = {}
    BY <2>1 DEF CallInv, Shape, socketVars, readerVars, platformVars
  <2>4. ReportsAreTrue'
    BY <2>1, <2>2 DEF CallInv, ReportsAreTrue, socketVars, platformVars
  <2> QED
    BY <2>1, <2>3, <2>4 DEF CallInv, WaitsOnLiveConnection
<1>12. CASE Restart
  <2>1. /\ conn' = 0 /\ frames' = <<>> /\ reader' = "down" /\ calling' = "idle" /\ awaited' = {}
        /\ future' = "lost" /\ UNCHANGED <<conns, made, succeeded, platformVars>>
    BY <1>12 DEF Restart
  <2>2. Shape'
    BY <1>a, <2>1 DEF CallInv, Shape, platformVars
  <2>3. ReportsAreTrue'
    BY <1>a, <2>1 DEF CallInv, ReportsAreTrue, platformVars
  <2> QED
    BY <2>1, <2>2, <2>3 DEF CallInv, WaitsOnLiveConnection
<1>13. CASE UNCHANGED qqVars
  BY <1>13 DEF qqVars, socketVars, readerVars, callVars, platformVars, CallInv, Shape,
     ReportsAreTrue, WaitsOnLiveConnection
<1> QED
  BY <1>1, <1>2, <1>3, <1>4, <1>5, <1>6, <1>7, <1>8, <1>9, <1>10, <1>11, <1>12, <1>13 DEF QQNext

\* The inductive invariant holds in every reachable state.
THEOREM CallInvariant == QQSpec => []CallInv
<1>1. QQInit => CallInv
  BY DEF QQInit, CallInv, Shape, ReportsAreTrue, WaitsOnLiveConnection
<1> QED
  BY <1>1, CallStep, PTL DEF QQSpec

\* A call of _call that returns was accepted by the platform.
THEOREM ReturnedIsAccepted == QQSpec => []SuccessIsAccepted
<1>1. CallInv => SuccessIsAccepted
  BY DEF CallInv, ReportsAreTrue, SuccessIsAccepted
<1> QED
  BY <1>1, CallInvariant, PTL

\* No call waits on a connection that is gone, and none stays registered.
THEOREM NoCallIsOrphaned == QQSpec => []WaitsOnLiveConnection
<1>1. CallInv => WaitsOnLiveConnection
  BY DEF CallInv
<1> QED
  BY <1>1, CallInvariant, PTL

-----------------------------------------------------------------------------
IsEvent(k) == k \in 1..Len(frames) /\ frames[k].kind = "event"

\* The ingest stream, then the event _dispatch holds, then the events still on
\* the socket: one growing sequence, none of them beyond what was sent.
OrderInv ==
  /\ published \in Seq(Nat) /\ held \in Nat
  /\ EventsInOrder
  /\ \A i \in 1..Len(published) : published[i] <= events
  /\ reader = "publishing" =>
       /\ held <= events
       /\ \A i \in 1..Len(published) : published[i] < held
  /\ \A k \in Nat : IsEvent(k) =>
       /\ frames[k].n \in Nat /\ frames[k].n <= events
       /\ \A i \in 1..Len(published) : published[i] < frames[k].n
       /\ reader = "publishing" => held < frames[k].n
  /\ \A k, l \in Nat : IsEvent(k) /\ IsEvent(l) /\ k < l => frames[k].n < frames[l].n

\* Reading, losing or answering frames never brings an old event back
\* (_dispatch; the platform sends an event once).
LEMMA OrderStep == CallInv /\ OrderInv /\ [QQNext]_qqVars => OrderInv'
<1> SUFFICES ASSUME CallInv, OrderInv, [QQNext]_qqVars PROVE OrderInv'
  OBVIOUS
<1>a. frames \in Seq(Frame) /\ events \in Nat /\ Len(<<>>) = 0
  BY DEF CallInv, Shape
<1>b. /\ Len(published) \in Nat /\ held \in Nat
      /\ \A i \in 1..Len(published) : published[i] \in Nat /\ published[i] <= events
  BY DEF OrderInv
<1>1. CASE SendEvent
  <2> DEFINE f == [kind |-> "event", n |-> events + 1]
  <2>1. f \in Frame /\ f.n = events + 1
    BY <1>a, <1>1 DEF SendEvent, Frame
  <2>2. frames' = Append(frames, f) /\ events' = events + 1 /\ UNCHANGED readerVars
    BY <1>1 DEF SendEvent
  <2> HIDE DEF f
  <2>3. /\ Len(frames') = Len(frames) + 1 /\ frames'[Len(frames) + 1] = f
        /\ \A k \in 1..Len(frames) : frames'[k] = frames[k]
    BY <1>a, <2>1, <2>2
  <2>4. \A k \in Nat : IsEvent(k)' =>
          (IsEvent(k) /\ frames'[k] = frames[k] /\ k < Len(frames) + 1)
          \/ (k = Len(frames) + 1 /\ frames'[k] = f)
    BY <1>a, <2>3 DEF IsEvent
  <2>5. \A k \in Nat : IsEvent(k)' =>
          /\ frames'[k].n \in Nat /\ frames'[k].n <= events'
          /\ \A i \in 1..Len(published) : published[i] < frames'[k].n
          /\ reader = "publishing" => held < frames'[k].n
    <3> SUFFICES ASSUME NEW k \in Nat, IsEvent(k)'
                 PROVE  /\ frames'[k].n \in Nat /\ frames'[k].n <= events'
                        /\ \A i \in 1..Len(published) : published[i] < frames'[k].n
                        /\ reader = "publishing" => held < frames'[k].n
      OBVIOUS
    <3>1. CASE IsEvent(k) /\ frames'[k] = frames[k]
      <4>1. /\ frames[k].n \in Nat /\ frames[k].n <= events
            /\ \A i \in 1..Len(published) : published[i] < frames[k].n
            /\ reader = "publishing" => held < frames[k].n
        BY <3>1 DEF OrderInv
      <4>2. frames[k].n <= events'
        BY <1>a, <2>2, <4>1
      <4> QED
        BY <3>1, <4>1, <4>2
    <3>2. CASE frames'[k] = f
      <4>1. reader = "publishing" => held <= events
        BY DEF OrderInv
      <4> QED
        BY <1>a, <1>b, <2>1, <2>2, <3>2, <4>1
    <3> QED
      BY <2>4, <3>1, <3>2
  <2>6. \A k, l \in Nat : IsEvent(k)' /\ IsEvent(l)' /\ k < l => frames'[k].n < frames'[l].n
    <3> SUFFICES ASSUME NEW k \in Nat, NEW l \in Nat, IsEvent(k)', IsEvent(l)', k < l
                 PROVE  frames'[k].n < frames'[l].n
      OBVIOUS
    <3>0. Len(frames) \in Nat /\ (IsEvent(l) => l < Len(frames) + 1)
      BY <1>a DEF IsEvent
    <3>1. IsEvent(k) /\ frames'[k] = frames[k]
      BY <2>4, <3>0
    <3>2. CASE IsEvent(l) /\ frames'[l] = frames[l]
      BY <3>1, <3>2 DEF OrderInv
    <3>3. CASE frames'[l] = f
      <4>1. frames[k].n \in Nat /\ frames[k].n <= events
        BY <3>1 DEF OrderInv
      <4> QED
        BY <1>a, <2>1, <3>1, <3>3, <4>1
    <3> QED
      BY <2>4, <3>2, <3>3
  <2>7. \A i \in 1..Len(published) : published[i] <= events'
    BY <1>a, <2>2 DEF OrderInv
  <2> QED
    <3>1. UNCHANGED <<reader, held, published>>
      BY <2>2 DEF readerVars
    <3>2. reader = "publishing" => held <= events'
      BY <1>a, <1>b, <2>2 DEF OrderInv
    <3> QED
      BY <2>5, <2>6, <2>7, <3>1, <3>2 DEF OrderInv, EventsInOrder
<1>2. ASSUME NEW r \in requests, Process(r) PROVE OrderInv'
  <2>1. UNCHANGED <<readerVars, events>>
    BY <1>2 DEF Process
  <2>2. \A k \in Nat : IsEvent(k)' => IsEvent(k) /\ frames'[k] = frames[k]
    <3>1. PICK result \in {"ok", "refused"} :
            frames' = IF open /\ r[2] = conn
                      THEN Append(frames, [kind |-> "answer", n |-> r[1], result |-> result])
                      ELSE frames
      BY <1>2 DEF Process
    <3> DEFINE f == [kind |-> "answer", n |-> r[1], result |-> result]
    <3>2. f \in Frame /\ f.kind # "event"
      <4>1. r[1] \in Echo
        BY DEF CallInv, Shape
      <4> QED
        BY <4>1 DEF Frame
    <3>3. frames' = frames \/ frames' = Append(frames, f)
      BY <3>1
    <3> HIDE DEF f
    <3> QED
      BY <1>a, <3>2, <3>3 DEF IsEvent
  <2> QED
    BY <2>1, <2>2 DEF OrderInv, EventsInOrder, readerVars
<1>3. CASE SocketBreaks
  <2>1. UNCHANGED <<readerVars, events>>
    BY <1>3 DEF SocketBreaks, platformVars
  <2>2. \A k \in Nat : IsEvent(k)' => IsEvent(k) /\ frames'[k] = frames[k]
    <3>1. PICK k \in 0..Len(frames) : frames' = SubSeq(frames, 1, k)
      BY <1>3 DEF SocketBreaks
    <3> QED
      BY <1>a, <3>1, FrameFacts DEF IsEvent
  <2> QED
    BY <2>1, <2>2 DEF OrderInv, EventsInOrder, readerVars
<1>4. CASE Connect \/ PublishFails \/ Restart
  <2>1. frames' = <<>> /\ reader' # "publishing" /\ UNCHANGED <<published, events>>
        /\ (held' = held \/ held' = 0)
    BY <1>4 DEF Connect, PublishFails, Restart, platformVars
  <2>2. \A k \in Nat : ~IsEvent(k)'
    BY <1>a, <2>1 DEF IsEvent
  <2> QED
    BY <2>1, <2>2 DEF OrderInv, EventsInOrder
<1>5. CASE ReadAnswer
  <2>1. frames # <<>> /\ frames' = Tail(frames) /\ UNCHANGED <<readerVars, events>>
    BY <1>5 DEF ReadAnswer, platformVars
  <2>2. \A k \in Nat : IsEvent(k)' => IsEvent(k + 1) /\ frames'[k] = frames[k + 1]
    BY <1>a, <2>1, FrameFacts DEF IsEvent
  <2>3. \A k, l \in Nat : k < l => k + 1 < l + 1 /\ k + 1 \in Nat /\ l + 1 \in Nat
    OBVIOUS
  <2>4. \A k \in Nat : k + 1 \in Nat
    OBVIOUS
  <2> QED
    <3>1. UNCHANGED <<reader, held, published, events>>
      BY <2>1 DEF readerVars
    <3>2. \A k \in Nat : IsEvent(k)' =>
            /\ frames'[k].n \in Nat /\ frames'[k].n <= events
            /\ \A i \in 1..Len(published) : published[i] < frames'[k].n
            /\ reader = "publishing" => held < frames'[k].n
      BY <2>2, <2>4 DEF OrderInv
    <3>3. \A k, l \in Nat : IsEvent(k)' /\ IsEvent(l)' /\ k < l => frames'[k].n < frames'[l].n
      BY <2>2, <2>3 DEF OrderInv
    <3> QED
      BY <3>1, <3>2, <3>3 DEF OrderInv, EventsInOrder
<1>6. CASE ReadEvent
  <2>1. /\ frames # <<>> /\ frames' = Tail(frames) /\ reader = "reading"
        /\ Head(frames).kind = "event" /\ UNCHANGED <<published, events>>
        /\ \/ UNCHANGED <<reader, held>>
           \/ reader' = "publishing" /\ held' = Head(frames).n
    BY <1>6 DEF ReadEvent, platformVars
  <2>2. \A k \in Nat : IsEvent(k)' => IsEvent(k + 1) /\ frames'[k] = frames[k + 1] /\ 1 < k + 1
    BY <1>a, <2>1, FrameFacts DEF IsEvent
  <2>3. IsEvent(1) /\ Head(frames) = frames[1]
    BY <1>a, <2>1, FrameFacts DEF IsEvent
  <2>4. \A k, l \in Nat : k < l => k + 1 < l + 1 /\ k + 1 \in Nat /\ l + 1 \in Nat
    OBVIOUS
  <2>5. 1 \in Nat /\ \A k \in Nat : k + 1 \in Nat
    OBVIOUS
  <2>6. /\ held' \in Nat
        /\ reader' = "publishing" =>
             /\ held' <= events
             /\ \A i \in 1..Len(published) : published[i] < held'
    BY <2>1, <2>3, <2>5 DEF OrderInv
  <2>7. \A k \in Nat : IsEvent(k)' =>
          /\ frames'[k].n \in Nat /\ frames'[k].n <= events
          /\ \A i \in 1..Len(published) : published[i] < frames'[k].n
          /\ reader' = "publishing" => held' < frames'[k].n
    <3> SUFFICES ASSUME NEW k \in Nat, IsEvent(k)'
                 PROVE  /\ frames'[k].n \in Nat /\ frames'[k].n <= events
                        /\ \A i \in 1..Len(published) : published[i] < frames'[k].n
                        /\ reader' = "publishing" => held' < frames'[k].n
      OBVIOUS
    <3>1. /\ k + 1 \in Nat /\ IsEvent(k + 1) /\ frames'[k] = frames[k + 1] /\ 1 < k + 1
      BY <2>2, <2>5
    <3>2. /\ frames[k + 1].n \in Nat /\ frames[k + 1].n <= events
          /\ \A i \in 1..Len(published) : published[i] < frames[k + 1].n
      BY <3>1 DEF OrderInv
    <3>3. frames[1].n < frames[k + 1].n
      BY <2>3, <2>5, <3>1 DEF OrderInv
    <3>4. reader' = "publishing" => held' = frames[1].n
      BY <2>1, <2>3
    <3> QED
      BY <3>1, <3>2, <3>3, <3>4
  <2>8. \A k, l \in Nat : IsEvent(k)' /\ IsEvent(l)' /\ k < l => frames'[k].n < frames'[l].n
    <3> SUFFICES ASSUME NEW k \in Nat, NEW l \in Nat, IsEvent(k)', IsEvent(l)', k < l
                 PROVE  frames'[k].n < frames'[l].n
      OBVIOUS
    <3>1. /\ k + 1 \in Nat /\ IsEvent(k + 1) /\ frames'[k] = frames[k + 1]
          /\ l + 1 \in Nat /\ IsEvent(l + 1) /\ frames'[l] = frames[l + 1] /\ k + 1 < l + 1
      BY <2>2, <2>5
    <3> QED
      BY <3>1 DEF OrderInv
  <2> QED
    BY <2>1, <2>6, <2>7, <2>8 DEF OrderInv, EventsInOrder
<1>7. CASE Published
  <2>1. /\ reader = "publishing" /\ reader' = "reading" /\ held' = 0
        /\ published' = Append(published, held) /\ UNCHANGED <<frames, events>>
    BY <1>7 DEF Published, socketVars, platformVars
  <2>2. /\ published' \in Seq(Nat) /\ Len(published) \in Nat /\ Len(published') = Len(published) + 1
        /\ published'[Len(published) + 1] = held
        /\ \A i \in 1..Len(published) : published'[i] = published[i]
    BY <2>1 DEF OrderInv
  <2>3. \A i \in 1..Len(published') :
          (i \in 1..Len(published) /\ published'[i] = published[i])
          \/ (i = Len(published) + 1 /\ published'[i] = held)
    BY <2>2
  <2>4. /\ held <= events
        /\ \A i \in 1..Len(published) : published[i] < held
    BY <2>1 DEF OrderInv
  <2>5. EventsInOrder'
    <3> SUFFICES ASSUME NEW i \in 1..Len(published'), NEW j \in 1..Len(published'), i < j
                 PROVE  published'[i] < published'[j]
      BY DEF EventsInOrder
    <3>1. i \in 1..Len(published) /\ published'[i] = published[i]
      BY <1>b, <2>2
    <3>2. CASE j \in 1..Len(published)
      BY <2>2, <3>1, <3>2 DEF OrderInv, EventsInOrder
    <3>3. CASE j = Len(published) + 1
      BY <2>2, <2>4, <3>1, <3>3
    <3> QED
      BY <2>3, <3>2, <3>3
  <2>6. \A k : IsEvent(k)' <=> IsEvent(k)
    BY <2>1 DEF IsEvent
  <2>7. \A k \in Nat : IsEvent(k)' =>
          /\ frames'[k].n \in Nat /\ frames'[k].n <= events'
          /\ \A i \in 1..Len(published') : published'[i] < frames'[k].n
    BY <2>1, <2>3, <2>6 DEF OrderInv
  <2>8. \A i \in 1..Len(published') : published'[i] <= events'
    BY <2>1, <2>3, <2>4 DEF OrderInv
  <2> QED
    BY <2>1, <2>2, <2>5, <2>6, <2>7, <2>8 DEF OrderInv
<1>8. CASE ConnectionLost
  <2>1. reader' = "down" /\ UNCHANGED <<frames, held, published, events>>
    BY <1>8 DEF ConnectionLost, platformVars
  <2> QED
    BY <2>1 DEF OrderInv, EventsInOrder, IsEvent
<1>9. CASE UNCHANGED <<frames, readerVars, events>>
  BY <1>9 DEF OrderInv, EventsInOrder, IsEvent, readerVars
<1>10. CASE StartCall \/ SendDone \/ SendRaises \/ CallReturns \/ CallTimesOut \/ UNCHANGED qqVars
  <2>1. UNCHANGED <<frames, readerVars, events>>
    BY <1>10 DEF StartCall, SendDone, SendRaises, CallReturns, CallTimesOut, qqVars, socketVars,
       platformVars
  <2> QED
    BY <1>9, <2>1
<1> QED
  BY <1>1, <1>2, <1>3, <1>4, <1>5, <1>6, <1>7, <1>8, <1>10 DEF QQNext

\* Over reconnects, restarts, lost frames and failed publishes the events enter
\* the ingest stream in the order in which the platform sent them, none twice.
THEOREM EventsKeepTheirOrder == QQSpec => []EventsInOrder
<1>1. QQInit => OrderInv
  BY DEF QQInit, OrderInv, EventsInOrder, IsEvent
<1>2. OrderInv => EventsInOrder
  BY DEF OrderInv
<1> QED
  BY <1>1, <1>2, CallInvariant, OrderStep, PTL DEF QQSpec

-----------------------------------------------------------------------------
(* Outbound delivery.                                                      *)

\* The gateways whose current send_reply got segment v through and has yet to
\* come to segment w.
Between(v, w) ==
  {c \in Consumer : /\ stage[c] # "idle" /\ Message(c) = v[1]
                    /\ v[2] <= sent[c] /\ sent[c] < w[2]}

\* What a gateway has done of its reply, by the place where it stands.
StageInv ==
  \A c \in Consumer :
    /\ stage[c] = "idle" => sent[c] = 0
    /\ stage[c] = "complete" => sent[c] = Segments[Message(c)]
    /\ stage[c] # "idle" =>
         \A w \in Slot : w[1] = Message(c) /\ w[2] <= sent[c] => wire[w] > 0

\* A handler run that returned has sent and recorded the whole reply.
CompletedInv ==
  \A m \in completed : m \in delivered /\ \A w \in Slot : w[1] = m => wire[w] > 0

\* The platform has seen v more often than w by at least the deliveries that
\* stand between the two.
GrowingInv ==
  \A v, w \in Slot :
    v[1] = w[1] /\ v[2] <= w[2] => wire[w] + Cardinality(Between(v, w)) <= wire[v]

\* The inductive invariant of the deliveries.
DeliveryInv == StreamInv /\ GatewayTypeOK /\ StageInv /\ CompletedInv /\ GrowingInv

\* Only delivered entries are pending or in a gateway's hands, and an entry in
\* the hands of two is excused.
HoldersInv ==
  /\ \A i \in EntryId : pending[i] > 0 => i <= last
  /\ \A c \in Consumer : \A i \in batch[c] : i <= last
  /\ \A c, d \in Consumer : \A i \in batch[c] \cap batch[d] : c # d => log[i] \in excused

\* Gateway c is past the acceptance of entry i, or about to ack it anyway.
Past(c, i) == cur[c] = i /\ (stage[c] = "complete" \/ pc[c] = "ack")

\* Entry i may still lead to an acceptance that nothing excuses.
MayAccept(i) ==
  \/ i > last
  \/ \E c \in Consumer : i \in batch[c] /\ ~Past(c, i)
  \/ pending[i] > 0 /\ \A c \in Consumer : ~Past(c, i)

Ids(m) == {i \in 1..Len(log) : log[i] = m}
OpenIds(m) == {i \in Ids(m) : MayAccept(i)}

\* Acceptances so far, and those to come, are covered by entries.
AcceptedInv ==
  \A m \in Envelope :
    m \notin excused => accepted[m] + Cardinality(OpenIds(m)) <= Cardinality(Ids(m))

\* A slot is a segment of one outbound message.
LEMMA SlotFacts ==
  /\ \A m \in Envelope : \A k \in Nat : 1 <= k /\ k <= Segments[m] => <<m, k>> \in Slot
  /\ \A w \in Slot : /\ w[1] \in Envelope /\ w[2] \in Nat /\ 1 <= w[2]
                     /\ w[2] <= Segments[w[1]] /\ w = <<w[1], w[2]>>
  /\ \A m \in Envelope : Segments[m] \in Nat
<1>1. \A m \in Envelope : Segments[m] \in Nat
  BY SegmentsAssumption
<1>2. ASSUME NEW m \in Envelope, NEW k \in Nat, 1 <= k, k <= Segments[m]
      PROVE  <<m, k>> \in Slot
  <2>1. k \in 1..Segments[m]
    BY <1>1, <1>2
  <2>2. <<m, k>> \in {m} \X (1..Segments[m])
    BY <2>1
  <2> QED
    BY <2>2 DEF Slot
<1>3. ASSUME NEW w \in Slot
      PROVE  /\ w[1] \in Envelope /\ w[2] \in Nat /\ 1 <= w[2]
             /\ w[2] <= Segments[w[1]] /\ w = <<w[1], w[2]>>
  <2>1. PICK m \in Envelope : w \in {m} \X (1..Segments[m])
    BY DEF Slot
  <2>2. w[1] = m /\ w[2] \in 1..Segments[m] /\ w = <<w[1], w[2]>>
    BY <2>1
  <2> QED
    BY <1>1, <2>2
<1> QED
  BY <1>1, <1>2, <1>3

\* The message a gateway delivers is one that was published.
LEMMA MessageFacts ==
  ASSUME GatewayTypeOK, NEW c \in Consumer, stage[c] # "idle"
  PROVE  /\ pc[c] = "handler" /\ cur[c] \in 1..Len(log) /\ cur[c] \in batch[c]
         /\ Message(c) \in Envelope /\ Segments[Message(c)] \in Nat /\ sent[c] \in Nat
<1>1. TypeOK /\ pc[c] = "handler" /\ sent[c] \in Nat
  BY DEF GatewayTypeOK
<1>2. cur[c] \in 1..Len(log) /\ cur[c] \in batch[c] /\ log[cur[c]] \in Envelope
  BY <1>1, CurrentEntry
<1> QED
  BY <1>1, <1>2, SlotFacts DEF Message

\* The segment a gateway sends next is a slot, and counting it there is all
\* that happens to the wire.
LEMMA WireFacts ==
  ASSUME GatewayTypeOK, NEW c \in Consumer, stage[c] # "idle",
         sent[c] < Segments[Message(c)], wire' = [wire EXCEPT ![NextSlot(c)] = @ + 1]
  PROVE  /\ NextSlot(c) \in Slot /\ NextSlot(c)[1] = Message(c)
         /\ NextSlot(c)[2] = sent[c] + 1
         /\ wire' \in [Slot -> Nat] /\ wire'[NextSlot(c)] = wire[NextSlot(c)] + 1
         /\ \A w \in Slot : w # NextSlot(c) => wire'[w] = wire[w]
         /\ \A w \in Slot : wire[w] <= wire'[w]
<1>1. Message(c) \in Envelope /\ Segments[Message(c)] \in Nat /\ sent[c] \in Nat
  BY MessageFacts
<1>2. /\ NextSlot(c) \in Slot /\ NextSlot(c)[1] = Message(c)
      /\ NextSlot(c)[2] = sent[c] + 1
  <2>1. sent[c] + 1 \in Nat /\ 1 <= sent[c] + 1 /\ sent[c] + 1 <= Segments[Message(c)]
    BY <1>1
  <2> QED
    BY <1>1, <2>1, SlotFacts DEF NextSlot
<1>3. wire \in [Slot -> Nat]
  BY DEF GatewayTypeOK
<1>4. /\ wire' \in [Slot -> Nat] /\ wire'[NextSlot(c)] = wire[NextSlot(c)] + 1
      /\ \A w \in Slot : w # NextSlot(c) => wire'[w] = wire[w]
  BY <1>2, <1>3
<1>5. ASSUME NEW w \in Slot PROVE wire[w] <= wire'[w]
  <2>1. wire[w] \in Nat /\ (w = NextSlot(c) => wire'[w] = wire[w] + 1)
    BY <1>3, <1>4
  <2> QED
    BY <1>4, <2>1
<1> QED
  BY <1>2, <1>4, <1>5

\* Every step of a gateway is a step of the stream consumer that drives it, or
\* leaves the stream alone: deliver_payload is one of its handlers.
LEMMA GatewayRefines == [GatewayNext]_gatewayVars => [Next]_vars
<1> SUFFICES ASSUME [GatewayNext]_gatewayVars PROVE [Next]_vars
  OBVIOUS
<1>1. ASSUME NEW c \in Consumer, DeliveryStep(c) PROVE [Next]_vars
  <2>1. CASE Dispatch(c)
    BY <2>1 DEF Dispatch, Next, ConsumerStep
  <2>2. CASE SendFails(c) \/ SendLapses(c) \/ MarkFails(c)
    BY <2>2 DEF SendFails, SendLapses, MarkFails, Next, ConsumerStep
  <2>3. CASE MarkDelivered(c)
    BY <2>3 DEF MarkDelivered, Next, ConsumerStep
  <2>4. CASE Cancel(c) \/ Crash(c)
    BY <2>4 DEF Cancel, Crash, Next
  <2>5. CASE SendSegment(c) \/ SendReturns(c)
    BY <2>5 DEF SendSegment, SendReturns
  <2> QED
    BY <1>1, <2>1, <2>2, <2>3, <2>4, <2>5 DEF DeliveryStep
<1>2. ASSUME NEW c \in Consumer, LoopStep(c) PROVE [Next]_vars
  BY <1>2 DEF LoopStep, Next, ConsumerStep
<1>3. ASSUME NEW m \in Envelope, PublishOutbound(m) \/ ReplayDeadLetter(m) PROVE [Next]_vars
  BY <1>3 DEF PublishOutbound, Next
<1>4. ASSUME NEW i \in EntryId, BecomesStale(i) PROVE [Next]_vars
  BY <1>4 DEF Next
<1>5. CASE UNCHANGED gatewayVars
  BY <1>5 DEF gatewayVars
<1> QED
  BY <1>1, <1>2, <1>3, <1>4, <1>5 DEF GatewayNext

\* The gateway implements the stream consumer: everything proved of Spec holds
\* of the outbound stream.
THEOREM GatewayIsConsumer == GatewaySpec => Spec
<1>1. GatewayInit => Init
  BY DEF GatewayInit
<1> QED
  BY <1>1, GatewayRefines, PTL DEF GatewaySpec, Spec

\* No delivery state changes, and no payload completes.
Quiet ==
  /\ UNCHANGED <<stage, sent, wire, accepted, delivered, completed>>
  /\ \A d \in Consumer : stage[d] # "idle" => cur'[d] = cur[d] /\ log'[cur[d]] = log[cur[d]]

\* Only gateway c moves.
Alone(c) ==
  /\ log' = log
  /\ \A d \in Consumer \ {c} :
       stage'[d] = stage[d] /\ sent'[d] = sent[d] /\ cur'[d] = cur[d]

\* _deliver starts.
Opens(c) ==
  /\ Alone(c) /\ stage[c] = "idle" /\ stage'[c] = "send" /\ sent'[c] = sent[c]
  /\ UNCHANGED <<wire, delivered, completed>>

\* _deliver ends, one way or another.
Leaves(c) ==
  /\ Alone(c) /\ stage[c] # "idle" /\ stage'[c] = "idle" /\ sent'[c] = 0
  /\ \/ UNCHANGED <<wire, delivered, completed>>
     \/ /\ sent[c] < Segments[Message(c)]
        /\ wire' = [wire EXCEPT ![NextSlot(c)] = @ + 1]
        /\ UNCHANGED <<delivered, completed>>
     \/ /\ stage[c] = "complete" /\ UNCHANGED wire
        /\ delivered' = delivered \cup {Message(c)}
        /\ completed' = completed \cup {Message(c)}

\* The steps of the gateways, by what they do to the deliveries.
LEMMA DeliveryKinds ==
  ASSUME StreamInv, GatewayTypeOK, StageInv, [GatewayNext]_gatewayVars
  PROVE  \/ Quiet
         \/ \E c \in Consumer : Opens(c) \/ SendSegment(c) \/ Leaves(c) \/ SendReturns(c)
<1>a. /\ stage \in [Consumer -> {"idle", "send", "complete"}] /\ sent \in [Consumer -> Nat]
      /\ cur \in [Consumer -> EntryId \cup {0}] /\ pc \in [Consumer -> PC]
      /\ \A c \in Consumer : stage[c] = "idle" <=> pc[c] # "handler"
      /\ \A c \in Consumer : stage[c] = "idle" => sent[c] = 0
  BY DEF GatewayTypeOK, TypeOK, ConsumerType, StageInv
<1>1. ASSUME NEW c \in Consumer, Dispatch(c) PROVE Opens(c)
  <2>1. /\ pc[c] = "dedupe" /\ pc' = [pc EXCEPT ![c] = "handler"]
        /\ UNCHANGED <<log, cur, completed>>
    BY <1>1, OutboundAssumption DEF Dispatch, CheckOnce, streamVars
  <2>2. stage' = [stage EXCEPT ![c] = "send"] /\ UNCHANGED <<sent, wire, delivered>>
    BY <1>1, <1>a, <2>1 DEF Dispatch, Enter
  <2> QED
    BY <1>a, <2>1, <2>2 DEF Opens, Alone
<1>2. ASSUME NEW c \in Consumer, SendFails(c) \/ SendLapses(c) \/ MarkFails(c) PROVE Leaves(c)
  <2>1. /\ UNCHANGED <<log, completed, delivered>> /\ cur' = [cur EXCEPT ![c] = 0]
        /\ stage' = [stage EXCEPT ![c] = "idle"] /\ sent' = [sent EXCEPT ![c] = 0]
        /\ stage[c] # "idle"
        /\ \/ UNCHANGED wire
           \/ /\ sent[c] < Segments[Message(c)]
              /\ wire' = [wire EXCEPT ![NextSlot(c)] = @ + 1]
    BY <1>2 DEF SendFails, SendLapses, MarkFails, HandlerFails, Enter, Rewind, Forget,
       streamVars, historyVars
  <2> QED
    BY <1>a, <2>1 DEF Leaves, Alone
<1>3. ASSUME NEW c \in Consumer, MarkDelivered(c) PROVE Leaves(c)
  <2>1. /\ UNCHANGED <<log, wire, cur>> /\ stage[c] = "complete"
        /\ stage' = [stage EXCEPT ![c] = "idle"] /\ sent' = [sent EXCEPT ![c] = 0]
        /\ delivered' = delivered \cup {Message(c)}
        /\ completed' = completed \cup {Message(c)}
    BY <1>3 DEF MarkDelivered, HandlerSucceeds, Enter, Rewind, streamVars, Message
  <2> QED
    BY <1>a, <2>1 DEF Leaves, Alone
<1>4. ASSUME NEW c \in Consumer, Cancel(c) \/ Crash(c) PROVE Quiet \/ Leaves(c)
  <2>1. CASE stage[c] = "complete" /\ UNCHANGED <<vars, stage, sent, wire, accepted, delivered>>
    BY <2>1 DEF Quiet, vars, streamVars, consumerVars, historyVars
  <2>2. CASE /\ UNCHANGED <<log, completed, delivered, accepted>>
             /\ cur' = [cur EXCEPT ![c] = 0]
             /\ stage' = [stage EXCEPT ![c] = "idle"] /\ sent' = [sent EXCEPT ![c] = 0]
             /\ \/ UNCHANGED wire
                \/ /\ sent[c] < Segments[Message(c)] /\ stage[c] = "send"
                   /\ wire' = [wire EXCEPT ![NextSlot(c)] = @ + 1]
    <3>1. CASE stage[c] # "idle"
      BY <1>a, <2>2, <3>1 DEF Leaves, Alone
    <3>2. CASE stage[c] = "idle"
      <4>1. stage' = stage /\ sent' = sent /\ UNCHANGED wire
        BY <1>a, <2>2, <3>2
      <4> QED
        BY <1>a, <2>2, <3>2, <4>1 DEF Quiet
    <3> QED
      BY <3>1, <3>2
  <2>3. CASE Crash(c)
    BY <2>2, <2>3 DEF Crash, IterationFails, Enter, Rewind, Forget, streamVars, historyVars
  <2>4. CASE Cancel(c)
    BY <2>1, <2>2, <2>4 DEF Cancel, IterationFails, Enter, Rewind, Forget, streamVars, historyVars
  <2> QED
    BY <1>4, <2>3, <2>4
<1>5. ASSUME NEW c \in Consumer, LoopStep(c) PROVE Quiet
  <2>1. UNCHANGED <<stage, sent, wire, accepted, delivered, completed, log>> /\ pc[c] # "handler"
    BY <1>5 DEF LoopStep, ClaimStale, TakeStale, ReadNew, TakeFresh, EndIteration, Bury, Ack,
       streamVars, historyVars
  <2>2. \A d \in Consumer \ {c} : cur'[d] = cur[d]
    BY <1>5, <1>a DEF LoopStep, ClaimStale, TakeStale, ReadNew, TakeFresh, EndIteration, Bury,
       Ack, Forget
  <2> QED
    BY <1>a, <2>1, <2>2 DEF Quiet
<1>6. ASSUME NEW m \in Envelope, PublishOutbound(m) \/ ReplayDeadLetter(m), UNCHANGED deliveryVars
      PROVE  Quiet
  <2>1. Add(m) /\ UNCHANGED <<stage, sent, wire, accepted, delivered, completed, cur>>
    BY <1>6 DEF PublishOutbound, Publish, ReplayDeadLetter, deliveryVars, consumerVars, historyVars
  <2>2. \A i \in 1..Len(log) : log'[i] = log[i]
    BY <2>1, AddFacts DEF GatewayTypeOK, TypeOK
  <2> QED
    BY <2>1, <2>2, MessageFacts DEF Quiet
<1>7. ASSUME NEW i \in EntryId, BecomesStale(i), UNCHANGED deliveryVars PROVE Quiet
  BY <1>7 DEF BecomesStale, deliveryVars, consumerVars, historyVars, Quiet
<1>8. CASE UNCHANGED gatewayVars
  BY <1>8 DEF gatewayVars, deliveryVars, vars, streamVars, consumerVars, historyVars, Quiet
<1> QED
  BY <1>1, <1>2, <1>3, <1>4, <1>5, <1>6, <1>7, <1>8 DEF GatewayNext, DeliveryStep

\* Every step keeps the types, and a gateway is idle exactly outside its
\* handler.
LEMMA GatewayTypeStep ==
  ASSUME StreamInv, GatewayTypeOK, StageInv, [GatewayNext]_gatewayVars
  PROVE  GatewayTypeOK'
<1>a. /\ stage \in [Consumer -> {"idle", "send", "complete"}] /\ sent \in [Consumer -> Nat]
      /\ pc \in [Consumer -> PC]
      /\ wire \in [Slot -> Nat] /\ accepted \in [Envelope -> Nat]
      /\ delivered \subseteq Envelope /\ excused \subseteq Envelope
      /\ cancels \in 0..MaxCancels /\ lapses \in 0..MaxLapses
      /\ \A c \in Consumer : stage[c] = "idle" <=> pc[c] # "handler"
  BY DEF GatewayTypeOK, TypeOK, ConsumerType
<1>b. MaxCancels \in Nat /\ MaxLapses \in Nat
  BY OutboundAssumption
<1>1. TypeOK'
  BY GatewayRefines, NextType DEF GatewayTypeOK
<1>2. wire' \in [Slot -> Nat]
  <2>1. CASE Quiet
    BY <1>a, <2>1 DEF Quiet
  <2>2. ASSUME NEW c \in Consumer, Opens(c) \/ SendReturns(c) PROVE wire' \in [Slot -> Nat]
    BY <1>a, <2>2 DEF Opens, SendReturns
  <2>3. ASSUME NEW c \in Consumer, SendSegment(c) PROVE wire' \in [Slot -> Nat]
    BY <2>3, WireFacts DEF SendSegment
  <2>4. ASSUME NEW c \in Consumer, Leaves(c) PROVE wire' \in [Slot -> Nat]
    BY <1>a, <2>4, WireFacts DEF Leaves
  <2> QED
    BY <2>1, <2>2, <2>3, <2>4, DeliveryKinds
<1>3. sent' \in [Consumer -> Nat]
  <2>1. CASE \E c \in Consumer : sent' = sent \/ Rewind(c) \/ sent' = [sent EXCEPT ![c] = @ + 1]
    BY <1>a, <2>1 DEF Rewind
  <2> QED
    BY <1>a, <2>1 DEF GatewayNext, DeliveryStep, LoopStep, Dispatch, SendFails, SendSegment,
       SendLapses, SendReturns, MarkDelivered, MarkFails, Cancel, Crash, deliveryVars, gatewayVars
<1>4. accepted' \in [Envelope -> Nat]
  <2>1. ASSUME NEW c \in Consumer, SendReturns(c) PROVE accepted' \in [Envelope -> Nat]
    <3>1. Message(c) \in Envelope /\ accepted' = [accepted EXCEPT ![Message(c)] = @ + 1]
      BY <2>1, MessageFacts DEF SendReturns
    <3> QED
      BY <1>a, <3>1
  <2> QED
    BY <1>a, <2>1 DEF GatewayNext, DeliveryStep, LoopStep, Dispatch, SendFails, SendSegment,
       SendLapses, MarkDelivered, MarkFails, Cancel, Crash, deliveryVars, gatewayVars
<1>5. delivered' \subseteq Envelope
  <2>1. CASE Quiet
    BY <1>a, <2>1 DEF Quiet
  <2>2. ASSUME NEW c \in Consumer, Opens(c) \/ SendReturns(c) \/ SendSegment(c)
        PROVE  delivered' \subseteq Envelope
    BY <1>a, <2>2 DEF Opens, SendReturns, SendSegment
  <2>3. ASSUME NEW c \in Consumer, Leaves(c) PROVE delivered' \subseteq Envelope
    BY <1>a, <2>3, MessageFacts DEF Leaves
  <2> QED
    BY <2>1, <2>2, <2>3, DeliveryKinds
<1>6. cancels' \in 0..MaxCancels
  <2>1. CASE cancels' = cancels
    BY <1>a, <2>1
  <2>2. CASE cancels < MaxCancels /\ cancels' = cancels + 1
    BY <1>a, <1>b, <2>2
  <2> QED
    BY <2>1, <2>2 DEF GatewayNext, DeliveryStep, LoopStep, Dispatch, SendFails, SendSegment,
       SendLapses, SendReturns, MarkDelivered, MarkFails, Cancel, Crash, deliveryVars, gatewayVars
<1>7. lapses' \in 0..MaxLapses
  <2>1. CASE lapses' = lapses
    BY <1>a, <2>1
  <2>2. CASE lapses < MaxLapses /\ lapses' = lapses + 1
    BY <1>a, <1>b, <2>2
  <2> QED
    BY <2>1, <2>2 DEF GatewayNext, DeliveryStep, LoopStep, Dispatch, SendFails, SendSegment,
       SendLapses, SendReturns, MarkDelivered, MarkFails, Cancel, Crash, deliveryVars, gatewayVars
<1>8. excused' \subseteq Envelope
  <2>1. CASE excused' = excused
    BY <1>a, <2>1
  <2>2. ASSUME NEW c \in Consumer, MarkFails(c) PROVE excused' \subseteq Envelope
    BY <1>a, <2>2, MessageFacts DEF MarkFails
  <2>3. ASSUME NEW c \in Consumer, Crash(c) PROVE excused' \subseteq Envelope
    <3>1. CASE stage[c] = "complete" \/ pc[c] = "ack"
      <4>1. Message(c) \in Envelope
        BY <1>a, <3>1, MessageFacts, CurrentEntry DEF GatewayTypeOK, Message
      <4> QED
        BY <1>a, <2>3, <3>1, <4>1 DEF Crash
    <3> QED
      BY <1>a, <2>3, <3>1 DEF Crash
  <2>4. ASSUME NEW c \in Consumer, LoopStep(c) PROVE excused' \subseteq Envelope
    <3>1. log \in Seq(Envelope) /\ log' = log /\ batch'[c] \subseteq 1..Len(log')
      <4>1. log' = log
        BY <2>4 DEF LoopStep, ClaimStale, TakeStale, ReadNew, TakeFresh, EndIteration, Bury, Ack,
           streamVars
      <4>2. batch' \in [Consumer -> SUBSET (1..Len(log'))]
        BY <1>1 DEF TypeOK, ConsumerType
      <4> QED
        BY <4>1, <4>2 DEF GatewayTypeOK, TypeOK, StreamType
    <3>2. \A j \in batch'[c] : log[j] \in Envelope
      BY <3>1
    <3>3. \A m \in excused' : m \in excused \/ \E j \in batch'[c] : m = log[j]
      BY <2>4 DEF LoopStep
    <3> QED
      BY <1>a, <3>2, <3>3
  <2> QED
    BY <2>1, <2>2, <2>3, <2>4 DEF GatewayNext, DeliveryStep, Dispatch, SendFails, SendSegment,
       SendLapses, SendReturns, MarkDelivered, Cancel, deliveryVars, gatewayVars
<1>9. /\ stage' \in [Consumer -> {"idle", "send", "complete"}]
      /\ \A d \in Consumer : stage'[d] = "idle" <=> pc'[d] # "handler"
  <2>1. ASSUME NEW c \in Consumer, Dispatch(c)
        PROVE  stage' = [stage EXCEPT ![c] = "send"] /\ pc' = [pc EXCEPT ![c] = "handler"]
    BY <1>a, <2>1, OutboundAssumption DEF Dispatch, CheckOnce, Enter
  <2>2. ASSUME NEW c \in Consumer,
               SendFails(c) \/ SendLapses(c) \/ MarkFails(c) \/ MarkDelivered(c) \/ Crash(c)
        PROVE  /\ stage' = [stage EXCEPT ![c] = "idle"]
               /\ \E p \in PC \ {"handler"} : pc' = [pc EXCEPT ![c] = p]
    BY <2>2, OutboundAssumption DEF SendFails, SendLapses, MarkFails, MarkDelivered, Crash,
       Enter, HandlerFails, HandlerSucceeds, IterationFails, PC
  <2>3. ASSUME NEW c \in Consumer, Cancel(c)
        PROVE  \/ UNCHANGED <<stage, pc>>
               \/ /\ stage' = [stage EXCEPT ![c] = "idle"]
                  /\ \E p \in PC \ {"handler"} : pc' = [pc EXCEPT ![c] = p]
    BY <2>3 DEF Cancel, Enter, IterationFails, PC, vars, consumerVars
  <2>4. ASSUME NEW c \in Consumer, LoopStep(c)
        PROVE  /\ stage' = stage /\ pc[c] # "handler"
               /\ \E p \in PC \ {"handler"} : pc' = [pc EXCEPT ![c] = p]
    <3>1. stage' = stage
      BY <2>4 DEF LoopStep
    <3>2. \/ ClaimStale(c) \/ TakeStale(c) \/ ReadNew(c) \/ TakeFresh(c) \/ EndIteration(c)
          \/ Bury(c) \/ Ack(c)
      BY <2>4 DEF LoopStep
    <3>3. pc[c] # "handler" /\ \E p \in PC \ {"handler"} : pc' = [pc EXCEPT ![c] = p]
      BY <3>2 DEF ClaimStale, TakeStale, ReadNew, TakeFresh, EndIteration, Bury, Ack, PC
    <3> QED
      BY <3>1, <3>3
  <2>5. ASSUME NEW c \in Consumer, SendSegment(c) PROVE UNCHANGED <<stage, pc>>
    BY <2>5 DEF SendSegment, vars, consumerVars
  <2>6. ASSUME NEW c \in Consumer, SendReturns(c)
        PROVE  stage' = [stage EXCEPT ![c] = "complete"] /\ pc' = pc /\ stage[c] # "idle"
    BY <2>6 DEF SendReturns, Enter, vars, consumerVars
  <2>7. CASE UNCHANGED <<stage, pc>>
    BY <1>a, <2>7
  <2>8. CASE \E c \in Consumer : \E p \in PC \ {"handler"} :
               /\ pc' = [pc EXCEPT ![c] = p]
               /\ \/ stage' = [stage EXCEPT ![c] = "idle"]
                  \/ stage' = stage /\ pc[c] # "handler"
    BY <1>a, <2>8
  <2>9. CASE \E c \in Consumer : Dispatch(c) \/ SendReturns(c)
    BY <1>a, <2>1, <2>6, <2>9
  <2>10. ASSUME NEW m \in Envelope, PublishOutbound(m) \/ ReplayDeadLetter(m),
                UNCHANGED deliveryVars
         PROVE  UNCHANGED <<stage, pc>>
    BY <2>10 DEF PublishOutbound, Publish, ReplayDeadLetter, deliveryVars, consumerVars
  <2>11. ASSUME NEW i \in EntryId, BecomesStale(i), UNCHANGED deliveryVars
         PROVE  UNCHANGED <<stage, pc>>
    BY <2>11 DEF BecomesStale, deliveryVars, consumerVars
  <2>12. CASE UNCHANGED gatewayVars
    BY <2>7, <2>12 DEF gatewayVars, deliveryVars, vars, consumerVars
  <2> QED
    BY <2>2, <2>3, <2>4, <2>5, <2>7, <2>8, <2>9, <2>10, <2>11, <2>12
       DEF GatewayNext, DeliveryStep
<1> QED
  BY <1>1, <1>2, <1>3, <1>4, <1>5, <1>6, <1>7, <1>8, <1>9 DEF GatewayTypeOK

\* What a gateway has sent stays sent, and what completed is complete.
LEMMA StageStep ==
  ASSUME DeliveryInv, [GatewayNext]_gatewayVars
  PROVE  StageInv' /\ CompletedInv'
<1>a. StreamInv /\ GatewayTypeOK /\ StageInv /\ CompletedInv /\ wire \in [Slot -> Nat]
      /\ stage \in [Consumer -> {"idle", "send", "complete"}] /\ sent \in [Consumer -> Nat]
  BY DEF DeliveryInv, GatewayTypeOK
<1>1. CASE Quiet
  BY <1>a, <1>1 DEF Quiet, StageInv, CompletedInv, Message
<1>2. ASSUME NEW c \in Consumer, Opens(c) PROVE StageInv' /\ CompletedInv'
  <2>1. \A w \in Slot : w[2] \in Nat /\ w[2] >= 1
    BY SlotFacts
  <2>2. sent'[c] = 0 /\ ~(\E w \in Slot : w[2] <= 0)
    BY <1>a, <1>2, <2>1 DEF Opens, StageInv
  <2> QED
    BY <1>a, <1>2, <2>2 DEF Opens, Alone, StageInv, CompletedInv, Message
<1>3. ASSUME NEW c \in Consumer, SendSegment(c) PROVE StageInv' /\ CompletedInv'
  <2>1. /\ UNCHANGED <<stage, log, cur, completed, delivered>> /\ stage[c] = "send"
        /\ sent' = [sent EXCEPT ![c] = @ + 1] /\ sent[c] < Segments[Message(c)]
        /\ wire' = [wire EXCEPT ![NextSlot(c)] = @ + 1]
    BY <1>3 DEF SendSegment, vars, streamVars, consumerVars, historyVars
  <2>2. /\ NextSlot(c) \in Slot /\ NextSlot(c)[1] = Message(c) /\ NextSlot(c)[2] = sent[c] + 1
        /\ wire' \in [Slot -> Nat] /\ wire'[NextSlot(c)] = wire[NextSlot(c)] + 1
        /\ \A w \in Slot : wire[w] <= wire'[w]
    BY <1>a, <2>1, WireFacts
  <2>3. \A w \in Slot : wire[w] > 0 => wire'[w] > 0
    BY <1>a, <2>2
  <2>4. CompletedInv'
    BY <1>a, <2>1, <2>3 DEF CompletedInv
  <2>5. ASSUME NEW d \in Consumer, d # c
        PROVE  /\ stage'[d] = "idle" => sent'[d] = 0
               /\ stage'[d] = "complete" => sent'[d] = Segments[Message(d)']
               /\ stage'[d] # "idle" =>
                    \A w \in Slot : w[1] = Message(d)' /\ w[2] <= sent'[d] => wire'[w] > 0
    <3>1. sent'[d] = sent[d]
      BY <1>a, <2>1, <2>5
    <3> QED
      BY <1>a, <2>1, <2>3, <3>1 DEF StageInv, Message
  <2>6. ASSUME NEW w \in Slot, w[1] = Message(c), w[2] <= sent'[c] PROVE wire'[w] > 0
    <3>1. w[2] \in Nat /\ w = <<w[1], w[2]>> /\ sent'[c] = sent[c] + 1 /\ sent[c] \in Nat
      BY <1>a, <2>1, SlotFacts
    <3>2. CASE w[2] <= sent[c]
      BY <1>a, <2>1, <2>3, <2>6, <3>2 DEF StageInv
    <3>3. CASE w[2] = sent[c] + 1
      <4>1. w = NextSlot(c)
        BY <2>6, <3>1, <3>3 DEF NextSlot
      <4>2. wire[NextSlot(c)] \in Nat
        BY <1>a, <2>2
      <4> QED
        BY <2>2, <4>1, <4>2
    <3> QED
      BY <2>6, <3>1, <3>2, <3>3
  <2> QED
    BY <2>1, <2>4, <2>5, <2>6 DEF StageInv, Message
<1>4. ASSUME NEW c \in Consumer, Leaves(c) PROVE StageInv' /\ CompletedInv'
  <2>1. \A w \in Slot : wire[w] > 0 => wire'[w] > 0
    <3>1. CASE UNCHANGED wire
      BY <3>1
    <3>2. CASE sent[c] < Segments[Message(c)] /\ wire' = [wire EXCEPT ![NextSlot(c)] = @ + 1]
      <4>1. wire' \in [Slot -> Nat] /\ \A w \in Slot : wire[w] <= wire'[w]
        BY <1>a, <1>4, <3>2, WireFacts DEF Leaves
      <4> QED
        BY <1>a, <4>1
    <3> QED
      BY <1>4, <3>1, <3>2 DEF Leaves
  <2>2. StageInv'
    BY <1>a, <1>4, <2>1 DEF Leaves, Alone, StageInv, Message
  <2>3. CASE completed' = completed /\ delivered' = delivered
    BY <1>a, <2>1, <2>2, <2>3 DEF CompletedInv
  <2>4. CASE /\ stage[c] = "complete" /\ UNCHANGED wire
             /\ delivered' = delivered \cup {Message(c)}
             /\ completed' = completed \cup {Message(c)}
    <3>1. \A w \in Slot : w[1] = Message(c) => w[2] <= sent[c]
      BY <1>a, <2>4, SlotFacts DEF StageInv
    <3>2. \A w \in Slot : w[1] = Message(c) => wire[w] > 0
      BY <1>a, <2>4, <3>1 DEF StageInv
    <3> QED
      BY <1>a, <2>2, <2>4, <3>2 DEF CompletedInv
  <2> QED
    BY <1>4, <2>3, <2>4 DEF Leaves
<1>5. ASSUME NEW c \in Consumer, SendReturns(c) PROVE StageInv' /\ CompletedInv'
  <2>1. /\ UNCHANGED <<sent, wire, log, cur, completed, delivered>> /\ stage[c] = "send"
        /\ stage' = [stage EXCEPT ![c] = "complete"] /\ sent[c] = Segments[Message(c)]
    BY <1>5 DEF SendReturns, Enter, vars, streamVars, consumerVars, historyVars
  <2> QED
    BY <1>a, <2>1 DEF StageInv, CompletedInv, Message
<1> QED
  BY <1>a, <1>1, <1>2, <1>3, <1>4, <1>5, DeliveryKinds

\* The deliveries between two segments are finitely many.
LEMMA BetweenFinite ==
  ASSUME NEW v, NEW w
  PROVE  /\ IsFiniteSet(Between(v, w)) /\ Cardinality(Between(v, w)) \in Nat
         /\ IsFiniteSet(Between(v, w)') /\ Cardinality(Between(v, w)') \in Nat
<1>1. Between(v, w) \subseteq Consumer /\ Between(v, w)' \subseteq Consumer
  BY DEF Between
<1> QED
  BY <1>1, ConsumerAssumption, FS_Subset, FS_CardinalityType

\* A segment is counted only by a gateway that stands right before it, so the
\* counts keep falling from segment to segment.
LEMMA GrowingStep ==
  ASSUME DeliveryInv, [GatewayNext]_gatewayVars
  PROVE  GrowingInv'
<1>a. /\ StreamInv /\ GatewayTypeOK /\ StageInv /\ wire \in [Slot -> Nat]
      /\ stage \in [Consumer -> {"idle", "send", "complete"}] /\ sent \in [Consumer -> Nat]
  BY DEF DeliveryInv, GatewayTypeOK
<1> SUFFICES ASSUME NEW v \in Slot, NEW w \in Slot, v[1] = w[1], v[2] <= w[2]
             PROVE  wire'[w] + Cardinality(Between(v, w)') <= wire'[v]
  BY DEF GrowingInv
<1> DEFINE b == Cardinality(Between(v, w))
           bb == Cardinality(Between(v, w)')
<1>b. /\ v[2] \in Nat /\ w[2] \in Nat /\ v[2] >= 1 /\ v = <<v[1], v[2]>> /\ w = <<w[1], w[2]>>
      /\ wire[v] \in Nat /\ wire[w] \in Nat
  BY <1>a, SlotFacts
<1>c. b \in Nat /\ bb \in Nat /\ IsFiniteSet(Between(v, w)) /\ IsFiniteSet(Between(v, w)')
  BY BetweenFinite
<1>d. wire[w] + b <= wire[v]
  BY DEF DeliveryInv, GrowingInv
<1>1. CASE UNCHANGED wire /\ Between(v, w)' \subseteq Between(v, w)
  <2>1. bb <= b
    BY <1>c, <1>1, FS_Subset
  <2> HIDE DEF b, bb
  <2> QED
    <3>1. wire'[w] + bb <= wire'[v]
      BY <1>1, <1>b, <1>c, <1>d, <2>1
    <3> QED
      BY <3>1 DEF bb
<1>2. CASE Quiet
  <2>1. Between(v, w)' = Between(v, w)
    BY <1>2 DEF Quiet, Between, Message
  <2> QED
    BY <1>1, <1>2, <2>1 DEF Quiet
<1>3. ASSUME NEW c \in Consumer, Opens(c) \/ SendReturns(c)
      PROVE  wire'[w] + Cardinality(Between(v, w)') <= wire'[v]
  <2>1. CASE Opens(c)
    <3>1. sent'[c] = 0 /\ ~(v[2] <= 0)
      BY <1>a, <1>b, <2>1 DEF Opens, StageInv
    <3>2. Between(v, w)' \subseteq Between(v, w)
      BY <1>a, <2>1, <3>1 DEF Opens, Alone, Between, Message
    <3> QED
      BY <1>1, <2>1, <3>2 DEF Opens
  <2>2. CASE SendReturns(c)
    <3>1. /\ UNCHANGED <<sent, wire, log, cur>> /\ stage[c] = "send"
          /\ stage' = [stage EXCEPT ![c] = "complete"]
      BY <2>2 DEF SendReturns, Enter, vars, streamVars, consumerVars
    <3>2. Between(v, w)' \subseteq Between(v, w)
      BY <1>a, <3>1 DEF Between, Message
    <3> QED
      BY <1>1, <3>1, <3>2
  <2> QED
    BY <1>3, <2>1, <2>2
<1>4. ASSUME NEW c \in Consumer, stage[c] # "idle", sent[c] < Segments[Message(c)],
             wire' = [wire EXCEPT ![NextSlot(c)] = @ + 1],
             v # NextSlot(c) => Between(v, w)' \subseteq Between(v, w),
             v = NextSlot(c) => Between(v, w)' \subseteq Between(v, w) \cup {c},
             v = NextSlot(c) /\ w = NextSlot(c) => Between(v, w)' \subseteq Between(v, w),
             w = NextSlot(c) => c \notin Between(v, w)'
      PROVE  wire'[w] + Cardinality(Between(v, w)') <= wire'[v]
  <2>1. /\ NextSlot(c)[1] = Message(c) /\ NextSlot(c)[2] = sent[c] + 1 /\ sent[c] \in Nat
        /\ v = NextSlot(c) => wire'[v] = wire[v] + 1
        /\ v # NextSlot(c) => wire'[v] = wire[v]
        /\ w = NextSlot(c) => wire'[w] = wire[w] + 1
        /\ w # NextSlot(c) => wire'[w] = wire[w]
    BY <1>4, <1>a, WireFacts
  <2>2. CASE v = NextSlot(c) /\ w = NextSlot(c)
    <3>1. bb <= b
      BY <1>c, <1>4, <2>2, FS_Subset
    <3> HIDE DEF b, bb
    <3>2. wire'[w] + bb <= wire'[v]
      BY <1>b, <1>c, <1>d, <2>1, <2>2, <3>1
    <3> QED
      BY <3>2 DEF bb
  <2>3. CASE v = NextSlot(c) /\ w # NextSlot(c)
    <3>1. bb <= b + 1
      <4>1. /\ IsFiniteSet(Between(v, w) \cup {c})
            /\ Cardinality(Between(v, w) \cup {c}) = IF c \in Between(v, w) THEN b ELSE b + 1
        BY <1>c, FS_AddElement
      <4>2. bb <= Cardinality(Between(v, w) \cup {c})
        BY <1>4, <2>3, <4>1, FS_Subset
      <4> HIDE DEF b, bb
      <4> QED
        BY <1>c, <4>1, <4>2
    <3> HIDE DEF b, bb
    <3>2. wire'[w] + bb <= wire'[v]
      BY <1>b, <1>c, <1>d, <2>1, <2>3, <3>1
    <3> QED
      BY <3>2 DEF bb
  <2>4. CASE v # NextSlot(c) /\ w = NextSlot(c)
    <3>1. v[2] # w[2]
      BY <1>b, <2>4
    <3>2. v[2] <= sent[c] /\ sent[c] < w[2] /\ v[1] = Message(c)
      BY <1>b, <2>1, <2>4, <3>1
    <3>3. c \in Between(v, w)
      BY <1>4, <3>2 DEF Between
    <3>4. /\ IsFiniteSet(Between(v, w) \ {c})
          /\ Cardinality(Between(v, w) \ {c}) = b - 1
      BY <1>c, <3>3, FS_RemoveElement
    <3>5. Between(v, w)' \subseteq Between(v, w) \ {c}
      BY <1>4, <2>4
    <3>6. bb <= b - 1
      BY <3>4, <3>5, FS_Subset
    <3> HIDE DEF b, bb
    <3>7. wire'[w] + bb <= wire'[v]
      BY <1>b, <1>c, <1>d, <2>1, <2>4, <3>6
    <3> QED
      BY <3>7 DEF bb
  <2>5. CASE v # NextSlot(c) /\ w # NextSlot(c)
    <3>1. bb <= b
      BY <1>c, <1>4, <2>5, FS_Subset
    <3> HIDE DEF b, bb
    <3>2. wire'[w] + bb <= wire'[v]
      BY <1>b, <1>c, <1>d, <2>1, <2>5, <3>1
    <3> QED
      BY <3>2 DEF bb
  <2> QED
    BY <2>2, <2>3, <2>4, <2>5
<1>5. ASSUME NEW c \in Consumer, Leaves(c)
      PROVE  wire'[w] + Cardinality(Between(v, w)') <= wire'[v]
  <2>1. Between(v, w)' \subseteq Between(v, w) \ {c}
    BY <1>a, <1>5 DEF Leaves, Alone, Between, Message
  <2>2. CASE UNCHANGED wire
    BY <1>1, <2>1, <2>2
  <2>3. CASE sent[c] < Segments[Message(c)] /\ wire' = [wire EXCEPT ![NextSlot(c)] = @ + 1]
    BY <1>4, <1>5, <2>1, <2>3 DEF Leaves
  <2> QED
    BY <1>5, <2>2, <2>3 DEF Leaves
<1>6. ASSUME NEW c \in Consumer, SendSegment(c)
      PROVE  wire'[w] + Cardinality(Between(v, w)') <= wire'[v]
  <2>1. /\ UNCHANGED <<stage, log, cur>> /\ stage[c] # "idle"
        /\ sent' = [sent EXCEPT ![c] = @ + 1] /\ sent[c] < Segments[Message(c)]
        /\ wire' = [wire EXCEPT ![NextSlot(c)] = @ + 1]
    BY <1>6 DEF SendSegment, vars, streamVars, consumerVars
  <2>2. /\ NextSlot(c)[1] = Message(c) /\ NextSlot(c)[2] = sent[c] + 1
        /\ sent[c] \in Nat /\ sent'[c] = sent[c] + 1
    BY <1>a, <2>1, WireFacts
  <2>3. \A d \in Consumer \ {c} : d \in Between(v, w)' <=> d \in Between(v, w)
    BY <1>a, <2>1 DEF Between, Message
  <2>4. Between(v, w)' \subseteq Between(v, w) \cup {c}
    BY <2>3 DEF Between
  <2>5. c \in Between(v, w)' =>
          /\ v[1] = Message(c) /\ v[2] <= sent[c] + 1 /\ sent[c] + 1 < w[2]
    BY <2>1, <2>2 DEF Between, Message
  <2>6. ASSUME v # NextSlot(c), c \in Between(v, w)' PROVE c \in Between(v, w)
    <3>1. v[2] # sent[c] + 1
      BY <1>b, <2>5, <2>6 DEF NextSlot
    <3>2. v[2] <= sent[c] /\ sent[c] < w[2]
      BY <1>b, <2>2, <2>5, <2>6, <3>1
    <3> QED
      BY <2>1, <2>5, <2>6, <3>2 DEF Between
  <2>7. w = NextSlot(c) => c \notin Between(v, w)'
    BY <2>2, <2>5
  <2> QED
    BY <1>4, <2>1, <2>4, <2>6, <2>7
<1> QED
  BY <1>a, <1>2, <1>3, <1>5, <1>6, DeliveryKinds

\* The deliveries start in order and every step keeps them so.
LEMMA DeliveryInvariant == GatewaySpec => []DeliveryInv
<1>1. GatewayInit => DeliveryInv
  <2> SUFFICES ASSUME GatewayInit PROVE DeliveryInv
    OBVIOUS
  <2>1. StreamInv
    BY InitInv DEF GatewayInit
  <2>2. GatewayTypeOK
    BY <2>1, OutboundAssumption DEF GatewayInit, Init, GatewayTypeOK, StreamInv
  <2>3. StageInv /\ CompletedInv
    BY DEF GatewayInit, Init, StageInv, CompletedInv
  <2>4. \A v, w \in Slot : Between(v, w) = {}
    BY DEF GatewayInit, Between
  <2>5. GrowingInv
    BY <2>4, FS_EmptySet DEF GatewayInit, GrowingInv
  <2> QED
    BY <2>1, <2>2, <2>3, <2>5 DEF DeliveryInv
<1>2. DeliveryInv /\ [GatewayNext]_gatewayVars => DeliveryInv'
  <2> SUFFICES ASSUME DeliveryInv, [GatewayNext]_gatewayVars PROVE DeliveryInv'
    OBVIOUS
  <2>1. StreamInv'
    BY GatewayRefines, NextType, JustifiedStep, StaleStep, LostStep DEF DeliveryInv, StreamInv
  <2> QED
    BY <2>1, GatewayTypeStep, StageStep, GrowingStep DEF DeliveryInv
<1> QED
  BY <1>1, <1>2, PTL DEF GatewaySpec

\* README.md's "Replies are delivered at-least-once": whatever crashes, lost
\* answers, cancellations and second readers do, an ack never overtakes the
\* delivery.
THEOREM DeliveredAtLeastOnce == GatewaySpec => []AtLeastOnce
<1>1. DeliveryInv => AtLeastOnce
  BY DEF DeliveryInv, StreamInv, NothingLost, CompletedInv, AtLeastOnce
<1> QED
  BY <1>1, DeliveryInvariant, PTL

\* send_reply: what the platform has of a reply is always a beginning of it,
\* over all retries and replicas.
THEOREM RepliesKeepGrowing == GatewaySpec => []RepliesAreGrowing
<1>1. DeliveryInv => RepliesAreGrowing
  <2> SUFFICES ASSUME DeliveryInv, NEW v \in Slot, NEW w \in Slot, v[1] = w[1], v[2] <= w[2]
               PROVE  wire[v] >= wire[w]
    BY DEF RepliesAreGrowing
  <2>1. wire[v] \in Nat /\ wire[w] \in Nat /\ Cardinality(Between(v, w)) \in Nat
    BY BetweenFinite DEF DeliveryInv, GatewayTypeOK
  <2>2. wire[w] + Cardinality(Between(v, w)) <= wire[v]
    BY DEF DeliveryInv, GrowingInv
  <2> QED
    BY <2>1, <2>2
<1> QED
  BY <1>1, DeliveryInvariant, PTL

\* A step after which no entry can lead to an acceptance that it could not lead
\* to before, unless its message is excused.
Fades ==
  /\ UNCHANGED <<log, last>> /\ excused \subseteq excused'
  /\ \A i \in EntryId : pending'[i] > 0 => pending[i] > 0
  /\ \A d \in Consumer : batch'[d] \subseteq batch[d]
  /\ \A d \in Consumer : \A i \in EntryId :
       Past(d, i) => \/ Past(d, i)' \/ log[i] \in excused'
                     \/ pending'[i] = 0 /\ i \notin batch'[d]

\* claim_stale and read_new excuse what another gateway still holds.
Excuses(c) ==
  /\ UNCHANGED <<stage, accepted>>
  /\ excused' = excused \cup
       {log[i] : i \in {j \in batch'[c] : \E d \in Consumer \ {c} : j \in batch[d]}}

\* The steps of the gateways, by what they do to the acceptances to come.
LEMMA AcceptKinds ==
  ASSUME DeliveryInv, [GatewayNext]_gatewayVars
  PROVE  \/ Fades /\ accepted' = accepted
         \/ \E c \in Consumer : \/ SendReturns(c)
                                \/ (ClaimStale(c) \/ ReadNew(c)) /\ Excuses(c)
         \/ \E m \in Envelope :
              /\ Add(m)
              /\ UNCHANGED <<last, pending, batch, cur, pc, stage, accepted, excused>>
<1>a. /\ stage \in [Consumer -> {"idle", "send", "complete"}]
      /\ cur \in [Consumer -> EntryId \cup {0}] /\ pc \in [Consumer -> PC]
      /\ batch \in [Consumer -> SUBSET (1..Len(log))]
      /\ pending \in [EntryId -> 0..CountCap]
      /\ \A c \in Consumer : stage[c] = "idle" <=> pc[c] # "handler"
      /\ TypeOK
  BY DEF DeliveryInv, GatewayTypeOK, TypeOK, StreamType, ConsumerType
<1>1. ASSUME NEW c \in Consumer, UNCHANGED <<log, last, pending>>, excused \subseteq excused',
             batch'[c] \subseteq batch[c],
             \A d \in Consumer \ {c} : /\ batch'[d] = batch[d] /\ cur'[d] = cur[d]
                                       /\ stage'[d] = stage[d] /\ pc'[d] = pc[d],
             \A i \in EntryId : Past(c, i) => Past(c, i)' \/ log[i] \in excused'
      PROVE  Fades
  <2>1. \A d \in Consumer : batch'[d] \subseteq batch[d]
    BY <1>1
  <2>2. \A d \in Consumer \ {c} : \A i \in EntryId : Past(d, i) => Past(d, i)'
    BY <1>1 DEF Past
  <2> QED
    BY <1>1, <2>1, <2>2 DEF Fades
<1>2. ASSUME UNCHANGED <<log, last, excused, pending, batch, cur, stage, pc>> PROVE Fades
  BY <1>2 DEF Fades, Past
<1>3. ASSUME NEW c \in Consumer, Dispatch(c) PROVE Fades /\ accepted' = accepted
  <2>1. /\ UNCHANGED <<log, last, pending, excused, accepted, batch, cur>>
        /\ stage' = [stage EXCEPT ![c] = "send"] /\ pc' = [pc EXCEPT ![c] = "handler"]
        /\ pc[c] = "dedupe"
    BY <1>a, <1>3, OutboundAssumption DEF Dispatch, CheckOnce, Enter, streamVars
  <2>2. \A i : ~Past(c, i)
    BY <1>a, <2>1 DEF Past
  <2> QED
    BY <1>a, <1>1, <2>1, <2>2
<1>4. ASSUME NEW c \in Consumer, SendFails(c) \/ SendLapses(c) \/ MarkFails(c)
      PROVE  Fades /\ accepted' = accepted
  <2>1. /\ UNCHANGED <<log, last, pending, accepted>> /\ pc[c] = "handler"
        /\ stage' = [stage EXCEPT ![c] = "idle"] /\ pc' = [pc EXCEPT ![c] = "next"]
        /\ cur' = [cur EXCEPT ![c] = 0] /\ batch' = [batch EXCEPT ![c] = @ \ {cur[c]}]
        /\ excused \subseteq excused'
        /\ stage[c] = "complete" => Message(c) \in excused'
    BY <1>4 DEF SendFails, SendLapses, MarkFails, HandlerFails, Enter, Forget, streamVars
  <2>2. \A i : Past(c, i) => log[i] \in excused'
    BY <2>1 DEF Past, Message
  <2>3. /\ batch'[c] \subseteq batch[c]
        /\ \A d \in Consumer \ {c} : /\ batch'[d] = batch[d] /\ cur'[d] = cur[d]
                                     /\ stage'[d] = stage[d] /\ pc'[d] = pc[d]
    BY <1>a, <2>1
  <2> QED
    BY <1>1, <2>1, <2>2, <2>3
<1>5. ASSUME NEW c \in Consumer, MarkDelivered(c) PROVE Fades /\ accepted' = accepted
  <2>1. /\ UNCHANGED <<log, last, pending, excused, accepted, batch, cur>>
        /\ stage' = [stage EXCEPT ![c] = "idle"] /\ pc' = [pc EXCEPT ![c] = "ack"]
    BY <1>5, OutboundAssumption DEF MarkDelivered, HandlerSucceeds, Enter, streamVars
  <2>2. \A i : Past(c, i) => Past(c, i)'
    BY <1>a, <2>1 DEF Past
  <2> QED
    BY <1>a, <1>1, <2>1, <2>2
<1>6. ASSUME NEW c \in Consumer, Cancel(c) \/ Crash(c) PROVE Fades /\ accepted' = accepted
  <2>1. CASE UNCHANGED <<vars, stage, accepted, excused>>
    BY <1>2, <2>1 DEF vars, streamVars, consumerVars
  <2>2. CASE /\ UNCHANGED <<log, last, pending, accepted>>
             /\ stage' = [stage EXCEPT ![c] = "idle"] /\ pc' = [pc EXCEPT ![c] = "claim"]
             /\ cur' = [cur EXCEPT ![c] = 0] /\ batch' = [batch EXCEPT ![c] = {}]
             /\ excused \subseteq excused'
             /\ stage[c] = "complete" \/ pc[c] = "ack" => Message(c) \in excused'
    <3>1. \A i : Past(c, i) => log[i] \in excused'
      BY <2>2 DEF Past, Message
    <3>2. /\ batch'[c] \subseteq batch[c]
          /\ \A d \in Consumer \ {c} : /\ batch'[d] = batch[d] /\ cur'[d] = cur[d]
                                       /\ stage'[d] = stage[d] /\ pc'[d] = pc[d]
      BY <1>a, <2>2
    <3> QED
      BY <1>1, <2>2, <3>1, <3>2
  <2>3. CASE Crash(c)
    BY <2>2, <2>3 DEF Crash, IterationFails, Enter, Forget, streamVars
  <2>4. CASE Cancel(c)
    <3>1. CASE stage[c] = "send" /\ pc[c] = "handler"
      BY <2>1, <2>2, <2>4, <3>1 DEF Cancel, IterationFails, Enter, Forget, streamVars
    <3>2. CASE stage[c] = "complete"
      BY <2>1, <2>4, <3>2 DEF Cancel
    <3> QED
      BY <1>a, <2>4, <3>1, <3>2 DEF Cancel
  <2> QED
    BY <1>6, <2>3, <2>4
<1>7. ASSUME NEW c \in Consumer, LoopStep(c)
      PROVE  \/ Fades /\ accepted' = accepted
             \/ (ClaimStale(c) \/ ReadNew(c)) /\ Excuses(c)
  <2>1. Excuses(c) /\ excused \subseteq excused' /\ UNCHANGED <<stage, accepted>>
    BY <1>7 DEF LoopStep, Excuses
  <2>2. CASE ClaimStale(c) \/ ReadNew(c)
    BY <2>1, <2>2
  <2>3. CASE TakeStale(c) \/ TakeFresh(c) \/ EndIteration(c)
    <3>1. UNCHANGED <<log, last, pending, batch>> /\ pc[c] = "next"
      BY <2>3 DEF TakeStale, TakeFresh, EndIteration, streamVars
    <3>2. \A d \in Consumer \ {c} : cur'[d] = cur[d] /\ pc'[d] = pc[d]
      BY <1>a, <2>3 DEF TakeStale, TakeFresh, EndIteration
    <3>3. \A i : ~Past(c, i)
      BY <1>a, <3>1 DEF Past
    <3> QED
      BY <1>1, <2>1, <3>1, <3>2, <3>3
  <2>4. CASE Bury(c)
    <3>1. UNCHANGED <<log, last, pending, batch, cur>> /\ pc' = [pc EXCEPT ![c] = "ack"]
      BY <2>4 DEF Bury
    <3>2. \A i : Past(c, i) => Past(c, i)'
      BY <1>a, <3>1 DEF Past
    <3> QED
      BY <1>a, <1>1, <2>1, <3>1, <3>2
  <2>5. CASE Ack(c)
    <3>1. /\ UNCHANGED <<log, last>> /\ pc[c] = "ack" /\ pc' = [pc EXCEPT ![c] = "next"]
          /\ pending' = [pending EXCEPT ![cur[c]] = 0] /\ cur' = [cur EXCEPT ![c] = 0]
          /\ batch' = [batch EXCEPT ![c] = @ \ {cur[c]}]
      BY <2>5 DEF Ack, Forget
    <3>2. cur[c] \in EntryId /\ stage[c] = "idle"
      BY <1>a, <3>1, CurrentEntry
    <3>3. \A i \in EntryId : (i # cur[c] => pending'[i] = pending[i]) /\ pending'[cur[c]] = 0
      BY <1>a, <3>1, <3>2
    <3>4. \A i \in EntryId : Past(c, i) => pending'[i] = 0 /\ i \notin batch'[c]
      BY <1>a, <3>1, <3>3 DEF Past
    <3>5. \A d \in Consumer : batch'[d] \subseteq batch[d]
      BY <1>a, <3>1
    <3>6. \A d \in Consumer \ {c} : \A i \in EntryId : Past(d, i) => Past(d, i)'
      BY <1>a, <2>1, <3>1 DEF Past
    <3>7. \A i \in EntryId : pending'[i] > 0 => pending[i] > 0
      BY <3>3
    <3> QED
      BY <2>1, <3>1, <3>4, <3>5, <3>6, <3>7 DEF Fades
  <2> QED
    BY <1>7, <2>2, <2>3, <2>4, <2>5 DEF LoopStep
<1>8. ASSUME NEW m \in Envelope, PublishOutbound(m) \/ ReplayDeadLetter(m), UNCHANGED deliveryVars
      PROVE  /\ Add(m)
             /\ UNCHANGED <<last, pending, batch, cur, pc, stage, accepted, excused>>
  BY <1>8 DEF PublishOutbound, Publish, ReplayDeadLetter, deliveryVars, consumerVars
<1>9. ASSUME NEW i \in EntryId, BecomesStale(i), UNCHANGED deliveryVars
      PROVE  Fades /\ accepted' = accepted
  <2>1. UNCHANGED <<log, last, excused, pending, batch, cur, stage, pc, accepted>>
    BY <1>9 DEF BecomesStale, deliveryVars, consumerVars
  <2> QED
    BY <1>2, <2>1
<1>10. ASSUME NEW c \in Consumer, SendSegment(c) PROVE Fades /\ accepted' = accepted
  <2>1. UNCHANGED <<log, last, excused, pending, batch, cur, stage, pc, accepted>>
    BY <1>10 DEF SendSegment, vars, streamVars, consumerVars
  <2> QED
    BY <1>2, <2>1
<1>11. CASE UNCHANGED gatewayVars
  <2>1. UNCHANGED <<log, last, excused, pending, batch, cur, stage, pc, accepted>>
    BY <1>11 DEF gatewayVars, deliveryVars, vars, streamVars, consumerVars
  <2> QED
    BY <1>2, <2>1
<1> QED
  BY <1>3, <1>4, <1>5, <1>6, <1>7, <1>8, <1>9, <1>10, <1>11 DEF GatewayNext, DeliveryStep

\* What claim_stale and read_new put into a gateway's hands.
LEMMA TakeFacts ==
  ASSUME DeliveryInv, HoldersInv, NEW c \in Consumer, ClaimStale(c) \/ ReadNew(c)
  PROVE  /\ log' = log /\ cur' = cur /\ last \in Nat /\ last' \in Nat /\ last <= last'
         /\ \A d \in Consumer \ {c} : batch'[d] = batch[d] /\ pc'[d] = pc[d]
         /\ pc[c] \notin {"ack", "handler"} /\ pc'[c] \notin {"ack", "handler"}
         /\ \A i \in batch'[c] : i \in 1..Len(log) /\ i <= last' /\ (i > last \/ pending[i] > 0)
         /\ \A i \in EntryId : pending'[i] > 0 => (i <= last' /\ (i > last \/ pending[i] > 0))
<1>a. /\ pc \in [Consumer -> PC] /\ batch \in [Consumer -> SUBSET (1..Len(log))]
      /\ last \in 0..Len(log) /\ live \subseteq 1..Len(log) /\ Len(log) \in Nat
      /\ stale \subseteq EntryId /\ StreamInv
      /\ \A i \in EntryId : pending[i] \in Nat
      /\ \A i \in stale : pending[i] > 0
      /\ \A i \in EntryId : pending[i] > 0 => i <= last
      /\ \A i \in EntryId : i \in Nat
  <2>1. StreamInv /\ StreamType /\ ConsumerType /\ StaleArePending
    BY DEF DeliveryInv, StreamInv, TypeOK
  <2>2. \A i \in EntryId : pending[i] \in Nat /\ i \in Nat
    BY <2>1, LimitAssumption DEF StreamType, EntryId, CountCap
  <2>3. log \in Seq(Envelope) /\ Len(log) \in Nat
    BY <2>1 DEF StreamType
  <2> QED
    BY <2>1, <2>2, <2>3 DEF StreamType, ConsumerType, StaleArePending, HoldersInv
<1>1. CASE ClaimStale(c)
  <2>1. PICK B \in SUBSET stale : batch' = [batch EXCEPT ![c] = B \cap live]
    BY <1>1 DEF ClaimStale, Batches
  <2>2. /\ UNCHANGED <<log, cur, last>> /\ pc[c] = "claim" /\ pc' = [pc EXCEPT ![c] = "next"]
    BY <1>1 DEF ClaimStale
  <2>3. batch'[c] \subseteq stale /\ batch'[c] \subseteq live
    BY <1>a, <2>1
  <2>4. \A i \in EntryId : pending'[i] > 0 => pending[i] > 0
    <3>1. \A i \in EntryId : pending[i] = 0 => pending'[i] = 0
      BY <1>a, <1>1, ClaimFacts
    <3> QED
      BY <1>a, <3>1
  <2> QED
    BY <1>a, <2>1, <2>2, <2>3, <2>4
<1>2. CASE ReadNew(c)
  <2>1. PICK B \in SUBSET {i \in live : i > last} :
           /\ batch' = [batch EXCEPT ![c] = B]
           /\ pending' = [i \in EntryId |-> IF i \in B THEN 1 ELSE pending[i]]
           /\ \E m \in B \cup {last} : (\A j \in B : j <= m) /\ last' = m
           /\ pc' = [pc EXCEPT ![c] = IF B = {} THEN "claim" ELSE "next"]
    BY <1>2 DEF ReadNew, Batches
  <2>2. UNCHANGED <<log, cur>> /\ pc[c] = "next"
    BY <1>2 DEF ReadNew
  <2>3. \A i \in B : i \in 1..Len(log) /\ i \in Nat /\ i > last /\ i <= last'
    BY <1>a, <2>1
  <2>4. last \in Nat /\ last' \in Nat /\ last <= last'
    BY <1>a, <2>1, <2>3
  <2>5. batch'[c] = B
    BY <1>a, <2>1
  <2>6. ASSUME NEW i \in EntryId, pending'[i] > 0
        PROVE  i <= last' /\ (i > last \/ pending[i] > 0)
    <3>1. CASE i \in B
      BY <2>3, <3>1
    <3>2. CASE i \notin B
      <4>1. pending[i] > 0
        BY <2>1, <2>6, <3>2
      <4> QED
        BY <1>a, <2>4, <4>1
    <3> QED
      BY <3>1, <3>2
  <2> QED
    BY <1>a, <2>1, <2>2, <2>3, <2>4, <2>5, <2>6
<1> QED
  BY <1>1, <1>2

\* A second reader of an entry is always noticed.
LEMMA HoldersStep ==
  ASSUME DeliveryInv, HoldersInv, [GatewayNext]_gatewayVars
  PROVE  HoldersInv'
<1>a. /\ batch \in [Consumer -> SUBSET (1..Len(log))] /\ Len(log) \in Nat /\ StreamType
      /\ last \in Nat /\ \A i \in EntryId : i \in Nat
      /\ \A i \in 1..Len(log) : i \in Nat /\ i \in EntryId
  <2>1. StreamType /\ ConsumerType
    BY DEF DeliveryInv, GatewayTypeOK, TypeOK
  <2>2. log \in Seq(Envelope) /\ Len(log) \in Nat /\ Len(log) <= MaxEntry /\ MaxEntry \in Nat
    BY <2>1, BoundAssumption DEF StreamType
  <2>3. (\A i \in EntryId : i \in Nat) /\ \A i \in 1..Len(log) : i \in Nat /\ i \in EntryId
    BY <2>2 DEF EntryId
  <2>4. last \in 0..Len(log)
    BY <2>1 DEF StreamType
  <2>5. last \in Nat
    BY <2>2, <2>4
  <2> QED
    BY <2>1, <2>2, <2>3, <2>5 DEF ConsumerType
<1>1. CASE Fades
  BY <1>1 DEF Fades, HoldersInv
<1>2. ASSUME NEW c \in Consumer, SendReturns(c) PROVE HoldersInv'
  BY <1>2 DEF SendReturns, vars, streamVars, consumerVars, HoldersInv
<1>3. ASSUME NEW c \in Consumer, ClaimStale(c) \/ ReadNew(c), Excuses(c) PROVE HoldersInv'
  <2>1. /\ log' = log /\ last' \in Nat /\ last <= last'
        /\ \A d \in Consumer \ {c} : batch'[d] = batch[d]
        /\ \A i \in batch'[c] : i <= last'
        /\ \A i \in EntryId : pending'[i] > 0 => i <= last'
    BY <1>3, TakeFacts
  <2>2. ASSUME NEW d \in Consumer, NEW i \in batch'[d] PROVE i <= last'
    <3>1. CASE d = c
      BY <2>1, <2>2, <3>1
    <3>2. CASE d # c
      <4>1. i \in batch[d] /\ i \in Nat /\ i <= last
        BY <1>a, <2>1, <2>2, <3>2 DEF HoldersInv
      <4> QED
        BY <1>a, <2>1, <4>1
    <3> QED
      BY <3>1, <3>2
  <2>3. ASSUME NEW d \in Consumer \ {c}, NEW i \in batch'[c], i \in batch[d]
        PROVE  log[i] \in excused'
    BY <1>3, <2>3 DEF Excuses
  <2>4. \A d, e \in Consumer : \A i \in batch'[d] \cap batch'[e] : d # e => log[i] \in excused'
    <3>1. excused \subseteq excused'
      BY <1>3 DEF Excuses
    <3> QED
      BY <2>1, <2>3, <3>1 DEF HoldersInv
  <2> QED
    BY <2>1, <2>2, <2>4 DEF HoldersInv
<1>4. ASSUME NEW m \in Envelope, Add(m), UNCHANGED <<last, pending, batch, excused>>
      PROVE  HoldersInv'
  <2>1. \A i \in 1..Len(log) : log'[i] = log[i]
    BY <1>a, <1>4, AddFacts
  <2>2. \A d \in Consumer : \A i \in batch[d] : log'[i] = log[i]
    BY <1>a, <2>1
  <2> QED
    BY <1>4, <2>2 DEF HoldersInv
<1> QED
  BY <1>1, <1>2, <1>3, <1>4, AcceptKinds

\* The entries of a message are finitely many.
LEMMA IdsFinite ==
  ASSUME NEW m, Len(log) \in Nat
  PROVE  /\ IsFiniteSet(Ids(m)) /\ Cardinality(Ids(m)) \in Nat
         /\ IsFiniteSet(OpenIds(m)) /\ Cardinality(OpenIds(m)) \in Nat
<1>1. IsFiniteSet(1..Len(log))
  BY FS_Interval
<1>2. Ids(m) \subseteq 1..Len(log) /\ OpenIds(m) \subseteq Ids(m)
  BY DEF Ids, OpenIds
<1> QED
  BY <1>1, <1>2, FS_Subset, FS_CardinalityType

\* Where no step of a gateway accepts a message, no entry of it becomes able to
\* lead to an acceptance, except the one a publish adds.
LEMMA OpenIdsShrink ==
  ASSUME DeliveryInv, HoldersInv, NEW i \in 1..Len(log), MayAccept(i)', log[i] \notin excused',
         \/ Fades
         \/ \E c \in Consumer : (ClaimStale(c) \/ ReadNew(c)) /\ Excuses(c)
  PROVE  MayAccept(i)
<1>a. /\ i \in EntryId /\ i \in Nat /\ last \in Nat
      /\ \A c \in Consumer : stage[c] = "idle" <=> pc[c] # "handler"
      /\ \A c \in Consumer : pc[c] \notin {"claim", "next"} => cur[c] \in batch[c]
  <2>1. StreamType /\ ConsumerType
    BY DEF DeliveryInv, GatewayTypeOK, TypeOK
  <2>2. log \in Seq(Envelope) /\ Len(log) \in Nat /\ Len(log) <= MaxEntry /\ MaxEntry \in Nat
    BY <2>1, BoundAssumption DEF StreamType
  <2>3. i \in EntryId /\ i \in Nat
    BY <2>2 DEF EntryId
  <2> QED
    BY <2>1, <2>2, <2>3 DEF StreamType, ConsumerType, DeliveryInv, GatewayTypeOK
<1>1. CASE Fades
  <2>1. CASE i > last'
    BY <1>1, <2>1 DEF Fades, MayAccept
  <2>2. ASSUME NEW d \in Consumer, i \in batch'[d], ~Past(d, i)' PROVE MayAccept(i)
    BY <1>1, <1>a, <2>2 DEF Fades, MayAccept
  <2>3. CASE pending'[i] > 0 /\ \A d \in Consumer : ~Past(d, i)'
    BY <1>1, <1>a, <2>3 DEF Fades, MayAccept
  <2> QED
    BY <2>1, <2>2, <2>3 DEF MayAccept
<1>2. ASSUME NEW c \in Consumer, ClaimStale(c) \/ ReadNew(c), Excuses(c) PROVE MayAccept(i)
  <2>1. /\ log' = log /\ cur' = cur /\ last' \in Nat /\ last <= last'
        /\ \A d \in Consumer \ {c} : batch'[d] = batch[d] /\ pc'[d] = pc[d]
        /\ pc[c] \notin {"ack", "handler"} /\ pc'[c] \notin {"ack", "handler"}
        /\ i \in batch'[c] => (i > last \/ pending[i] > 0)
        /\ pending'[i] > 0 => (i > last \/ pending[i] > 0)
    BY <1>a, <1>2, TakeFacts
  <2>2. stage' = stage /\ stage[c] = "idle"
    BY <1>a, <1>2, <2>1 DEF Excuses
  <2>3. ~Past(c, i) /\ ~Past(c, i)'
    BY <2>1, <2>2 DEF Past
  <2>4. \A d \in Consumer : Past(d, i)' <=> Past(d, i)
    BY <2>1, <2>2, <2>3 DEF Past
  <2>5. CASE i > last'
    <3>1. i > last
      BY <1>a, <2>1, <2>5
    <3> QED
      BY <3>1 DEF MayAccept
  <2>6. ASSUME NEW d \in Consumer, i \in batch'[d], ~Past(d, i)' PROVE MayAccept(i)
    <3>1. CASE d # c
      BY <2>1, <2>4, <2>6, <3>1 DEF MayAccept
    <3>2. CASE d = c
      <4>1. ASSUME NEW e \in Consumer, Past(e, i) PROVE FALSE
        <5>1. e # c /\ i \in batch[e]
          BY <1>a, <2>3, <4>1 DEF Past
        <5> QED
          BY <1>2, <2>6, <3>2, <5>1 DEF Excuses
      <4> QED
        BY <2>1, <2>6, <3>2, <4>1 DEF MayAccept
    <3> QED
      BY <3>1, <3>2
  <2>7. CASE pending'[i] > 0 /\ \A d \in Consumer : ~Past(d, i)'
    BY <2>1, <2>4, <2>7 DEF MayAccept
  <2> QED
    BY <2>5, <2>6, <2>7 DEF MayAccept
<1> QED
  BY <1>1, <1>2

\* send_reply returns: the entry at hand has had its acceptance, and nobody
\* else can bring about another one.
LEMMA AcceptanceUsesUp ==
  ASSUME DeliveryInv, HoldersInv, NEW c \in Consumer, SendReturns(c),
         Message(c) \notin excused'
  PROVE  /\ cur[c] \in OpenIds(Message(c))
         /\ \A m \in Envelope : OpenIds(m)' \subseteq OpenIds(m) \ {cur[c]}
         /\ \A m \in Envelope : Ids(m)' = Ids(m)
<1>1. /\ UNCHANGED <<log, last, pending, batch, cur, pc, excused>> /\ stage[c] = "send"
      /\ stage' = [stage EXCEPT ![c] = "complete"]
  BY DEF SendReturns, Enter, vars, streamVars, consumerVars
<1>2. /\ pc[c] = "handler" /\ cur[c] \in 1..Len(log) /\ cur[c] \in batch[c]
      /\ stage \in [Consumer -> {"idle", "send", "complete"}]
  BY <1>1, MessageFacts DEF DeliveryInv, GatewayTypeOK
<1>3. ~Past(c, cur[c]) /\ Past(c, cur[c])'
  BY <1>1, <1>2 DEF Past
<1>4. cur[c] \in OpenIds(Message(c))
  BY <1>2, <1>3 DEF OpenIds, Ids, MayAccept, Message
<1>5. \A d \in Consumer : \A i : Past(d, i) => Past(d, i)'
  BY <1>1, <1>2 DEF Past
<1>6. \A i : MayAccept(i)' => MayAccept(i)
  BY <1>1, <1>5 DEF MayAccept
<1>7. ~MayAccept(cur[c])'
  <2>1. ~(cur[c] > last)
    <3>1. cur[c] <= last /\ cur[c] \in Nat /\ last \in Nat
      BY <1>2 DEF HoldersInv, DeliveryInv, GatewayTypeOK, TypeOK, StreamType
    <3> QED
      BY <3>1
  <2>2. ASSUME NEW d \in Consumer, cur[c] \in batch[d] PROVE d = c
    BY <1>1, <1>2, <2>2 DEF HoldersInv, Message
  <2> QED
    BY <1>1, <1>3, <2>1, <2>2 DEF MayAccept
<1> QED
  BY <1>1, <1>4, <1>6, <1>7 DEF OpenIds, Ids

\* The entry a publish or a replay adds pays for one acceptance.
LEMMA AddOpens ==
  ASSUME DeliveryInv, NEW e \in Envelope, Add(e), NEW m \in Envelope,
         UNCHANGED <<last, pending, batch, cur, pc, stage>>
  PROVE  /\ m # e => Ids(m)' = Ids(m) /\ OpenIds(m)' = OpenIds(m)
         /\ m = e => /\ Ids(m)' = Ids(m) \cup {Len(log) + 1}
                     /\ OpenIds(m)' \subseteq OpenIds(m) \cup {Len(log) + 1}
         /\ Len(log) + 1 \notin Ids(m)
<1>1. log \in Seq(Envelope) /\ Len(log) \in Nat /\ log' = Append(log, e)
  BY DEF Add, DeliveryInv, GatewayTypeOK, TypeOK, StreamType
<1>2. /\ Len(log') = Len(log) + 1 /\ log'[Len(log) + 1] = e
      /\ \A i \in 1..Len(log) : log'[i] = log[i]
  BY <1>1
<1>3. /\ 1..Len(log') = (1..Len(log)) \cup {Len(log) + 1}
      /\ Len(log) + 1 \notin 1..Len(log)
  BY <1>1, <1>2
<1>4. \A i : MayAccept(i)' <=> MayAccept(i)
  BY DEF MayAccept, Past
<1>5. m # e => Ids(m)' = Ids(m)
  BY <1>2, <1>3 DEF Ids
<1>6. m = e => Ids(m)' = Ids(m) \cup {Len(log) + 1}
  BY <1>2, <1>3 DEF Ids
<1>7. Len(log) + 1 \notin Ids(m)
  BY <1>3 DEF Ids
<1> QED
  BY <1>4, <1>5, <1>6, <1>7 DEF OpenIds

\* Acceptances never outrun the entries of a message that nothing excuses.
LEMMA AcceptedStep ==
  ASSUME DeliveryInv, HoldersInv, AcceptedInv, [GatewayNext]_gatewayVars
  PROVE  AcceptedInv'
<1> SUFFICES ASSUME NEW m \in Envelope, m \notin excused'
             PROVE  accepted'[m] + Cardinality(OpenIds(m)') <= Cardinality(Ids(m)')
  BY DEF AcceptedInv
<1> DEFINE o == Cardinality(OpenIds(m))
           oo == Cardinality(OpenIds(m)')
           n == Cardinality(Ids(m))
           nn == Cardinality(Ids(m)')
<1>a. log \in Seq(Envelope) /\ Len(log) \in Nat /\ accepted \in [Envelope -> Nat]
  BY DEF DeliveryInv, GatewayTypeOK, TypeOK, StreamType
<1>b. accepted[m] \in Nat /\ o \in Nat /\ n \in Nat
      /\ IsFiniteSet(OpenIds(m)) /\ IsFiniteSet(Ids(m))
  BY <1>a, IdsFinite
<1>c. m \notin excused => accepted[m] + o <= n
  BY DEF AcceptedInv
<1>1. ASSUME m \notin excused, accepted'[m] = accepted[m], oo \in Nat, nn \in Nat,
             oo <= o /\ nn = n
      PROVE  accepted'[m] + oo <= nn
  <2> HIDE DEF o, oo, n, nn
  <2> QED
    BY <1>b, <1>c, <1>1
<1>2. ASSUME UNCHANGED log, excused \subseteq excused', accepted' = accepted,
             \/ Fades
             \/ \E c \in Consumer : (ClaimStale(c) \/ ReadNew(c)) /\ Excuses(c)
      PROVE  accepted'[m] + oo <= nn
  <2>1. Ids(m)' = Ids(m)
    BY <1>2 DEF Ids
  <2>2. OpenIds(m)' \subseteq OpenIds(m)
    <3> SUFFICES ASSUME NEW i \in OpenIds(m)' PROVE i \in OpenIds(m)
      OBVIOUS
    <3>1. i \in Ids(m) /\ MayAccept(i)' /\ i \in 1..Len(log) /\ log[i] = m
      BY <2>1 DEF OpenIds, Ids
    <3>2. MayAccept(i)
      BY <1>2, <3>1, OpenIdsShrink
    <3> QED
      BY <3>1, <3>2 DEF OpenIds
  <2>3. oo <= o /\ oo \in Nat
    BY <1>b, <2>2, FS_Subset, FS_CardinalityType
  <2> QED
    BY <1>1, <1>2, <1>b, <2>1, <2>3
<1>3. CASE Fades /\ accepted' = accepted
  BY <1>2, <1>3 DEF Fades
<1>4. ASSUME NEW c \in Consumer, ClaimStale(c) \/ ReadNew(c), Excuses(c)
      PROVE  accepted'[m] + oo <= nn
  <2>1. log' = log
    BY <1>4 DEF ClaimStale, ReadNew
  <2> QED
    BY <1>2, <1>4, <2>1 DEF Excuses
<1>5. ASSUME NEW c \in Consumer, SendReturns(c) PROVE accepted'[m] + oo <= nn
  <2>1. /\ UNCHANGED <<excused, log>> /\ accepted' = [accepted EXCEPT ![Message(c)] = @ + 1]
        /\ Message(c) \in Envelope
    BY <1>5, MessageFacts DEF SendReturns, vars, streamVars, DeliveryInv
  <2>2. CASE m = Message(c)
    <3>1. /\ cur[c] \in OpenIds(m) /\ OpenIds(m)' \subseteq OpenIds(m) \ {cur[c]}
          /\ Ids(m)' = Ids(m)
      BY <1>5, <2>2, AcceptanceUsesUp
    <3>2. /\ IsFiniteSet(OpenIds(m) \ {cur[c]})
          /\ Cardinality(OpenIds(m) \ {cur[c]}) = o - 1
      BY <1>b, <3>1, FS_RemoveElement
    <3>3. oo <= o - 1 /\ oo \in Nat
      BY <3>1, <3>2, FS_Subset, FS_CardinalityType
    <3>4. accepted'[m] = accepted[m] + 1 /\ nn = n
      BY <1>a, <2>1, <2>2, <3>1
    <3> HIDE DEF o, oo, n, nn
    <3> QED
      BY <1>b, <1>c, <2>1, <3>3, <3>4
  <2>3. CASE m # Message(c)
    <3>1. accepted'[m] = accepted[m]
      BY <1>a, <2>1, <2>3
    <3>2. Ids(m)' = Ids(m) /\ OpenIds(m)' \subseteq OpenIds(m)
      <4>1. /\ UNCHANGED <<log, last, pending, batch, cur, pc>> /\ stage[c] = "send"
            /\ stage' = [stage EXCEPT ![c] = "complete"]
            /\ stage \in [Consumer -> {"idle", "send", "complete"}]
        BY <1>5 DEF SendReturns, Enter, vars, streamVars, consumerVars, DeliveryInv, GatewayTypeOK
      <4>2. \A d \in Consumer : \A i : Past(d, i) => Past(d, i)'
        BY <4>1 DEF Past
      <4>3. \A i : MayAccept(i)' => MayAccept(i)
        BY <4>1, <4>2 DEF MayAccept
      <4> QED
        BY <4>1, <4>3 DEF OpenIds, Ids
    <3>3. oo <= o /\ oo \in Nat
      BY <1>b, <3>2, FS_Subset, FS_CardinalityType
    <3> QED
      BY <1>1, <1>b, <2>1, <3>1, <3>2, <3>3
  <2> QED
    BY <2>2, <2>3
<1>6. ASSUME NEW e \in Envelope, Add(e),
             UNCHANGED <<last, pending, batch, cur, pc, stage, accepted, excused>>
      PROVE  accepted'[m] + oo <= nn
  <2>1. CASE m # e
    BY <1>1, <1>6, <1>b, <2>1, AddOpens
  <2>2. CASE m = e
    <3>1. /\ Ids(m)' = Ids(m) \cup {Len(log) + 1} /\ Len(log) + 1 \notin Ids(m)
          /\ OpenIds(m)' \subseteq OpenIds(m) \cup {Len(log) + 1}
      BY <1>6, <2>2, AddOpens
    <3>2. nn = n + 1
      BY <1>b, <3>1, FS_AddElement
    <3>3. /\ IsFiniteSet(OpenIds(m) \cup {Len(log) + 1})
          /\ \/ Cardinality(OpenIds(m) \cup {Len(log) + 1}) = o
             \/ Cardinality(OpenIds(m) \cup {Len(log) + 1}) = o + 1
      BY <1>b, FS_AddElement
    <3>4. oo <= Cardinality(OpenIds(m) \cup {Len(log) + 1}) /\ oo \in Nat
      BY <3>1, <3>3, FS_Subset, FS_CardinalityType
    <3> HIDE DEF o, oo, n, nn
    <3> QED
      BY <1>6, <1>b, <1>c, <3>2, <3>3, <3>4
  <2> QED
    BY <2>1, <2>2
<1> QED
  BY <1>3, <1>4, <1>5, <1>6, AcceptKinds

\* gateway.py, _deliver: "so the stream handler can ack instead of sending it
\* twice".  A message is accepted more often than it was published only if a
\* crash after its acceptance, a failed mark_delivered or a second reader of
\* its entry excuses it.
THEOREM AcceptedOncePerEntry == GatewaySpec => []AcceptedOnce
<1>1. GatewayInit => HoldersInv /\ AcceptedInv
  <2> SUFFICES ASSUME GatewayInit PROVE HoldersInv /\ AcceptedInv
    OBVIOUS
  <2>1. HoldersInv
    BY DEF GatewayInit, Init, HoldersInv
  <2>2. Len(log) = 0 /\ \A m \in Envelope : accepted[m] = 0
    BY DEF GatewayInit, Init
  <2>3. \A m \in Envelope : Ids(m) = {} /\ OpenIds(m) = {}
    BY <2>2 DEF Ids, OpenIds
  <2>4. AcceptedInv
    <3>1. \A m \in Envelope : Cardinality(Ids(m)) = 0 /\ Cardinality(OpenIds(m)) = 0
      BY <2>3, FS_EmptySet
    <3> QED
      BY <2>2, <3>1 DEF AcceptedInv
  <2> QED
    BY <2>1, <2>4
<1>2. DeliveryInv /\ HoldersInv /\ AcceptedInv /\ [GatewayNext]_gatewayVars
        => HoldersInv' /\ AcceptedInv'
  BY HoldersStep, AcceptedStep
<1>3. DeliveryInv /\ AcceptedInv => AcceptedOnce
  <2> SUFFICES ASSUME DeliveryInv, AcceptedInv, NEW m \in Envelope, m \notin excused
               PROVE  ~(accepted[m] > Cardinality(Ids(m)))
    BY DEF AcceptedOnce, Ids
  <2>1. Len(log) \in Nat /\ accepted[m] \in Nat
    BY DEF DeliveryInv, GatewayTypeOK, TypeOK, StreamType
  <2>2. Cardinality(Ids(m)) \in Nat /\ Cardinality(OpenIds(m)) \in Nat
    BY <2>1, IdsFinite
  <2>3. accepted[m] + Cardinality(OpenIds(m)) <= Cardinality(Ids(m))
    BY DEF AcceptedInv
  <2> QED
    BY <2>1, <2>2, <2>3
<1> QED
  BY <1>1, <1>2, <1>3, DeliveryInvariant, PTL DEF GatewaySpec

=============================================================================
