------------------------ MODULE RealtimeClientProofs ------------------------
(***************************************************************************)
(* What holds of a realtime channel for every number of subscriptions,     *)
(* token requests, sockets, sessions, sign-ins and failures: it is sound   *)
(* (ChannelSound), and with one subscription of a table it tells of no     *)
(* change that did not happen (NothingFabricated).                         *)
(***************************************************************************)
EXTENDS RealtimeClient, TLAPS

-----------------------------------------------------------------------------
(* A channel as a function of its fields, each with its type: the provers    *)
(* reason about one field at a time, never about the record set.             *)

\* The fields, and what it is for c to be a record of them.
Names == {"subscribed", "disposed", "retryHalted", "listening", "handle", "errorHeard",
          "doubled", "fabricated", "reconnectTimer", "ws", "generation", "ackTimer",
          "renewalTimer", "expiryTimer", "tokenRequest", "tokenRequestGeneration",
          "snapshot", "requests", "sockets", "user"}
IsRec(c) == DOMAIN c = Names /\ c = [x \in Names |-> c[x]]
\* Each field has its type.
Typed(c) ==
  /\ c.subscribed \in BOOLEAN /\ c.disposed \in BOOLEAN /\ c.retryHalted \in BOOLEAN
  /\ c.listening \in BOOLEAN /\ c.handle \in BOOLEAN /\ c.errorHeard \in BOOLEAN
  /\ c.doubled \in BOOLEAN /\ c.fabricated \in BOOLEAN
  /\ c.reconnectTimer \in {0, Armed, Fired}
  /\ c.ws \in {0} \cup Sockets /\ c.generation \in {0} \cup Sockets
  /\ c.ackTimer \in {0} \cup Sockets /\ c.renewalTimer \in {0} \cup Sockets
  /\ c.expiryTimer \in {0} \cup Sockets
  /\ c.tokenRequest \in {0} \cup Requests /\ c.tokenRequestGeneration \in {0} \cup Requests
  /\ c.snapshot \in [Tables -> {NoStream} \cup (Sockets \X DOMAIN Configs)]
  /\ c.requests \in [Requests -> Request] /\ c.sockets \in [Sockets -> Socket] /\ c.user \in 0..MaxEvents
Shape(c) == IsRec(c) /\ Typed(c)

\* d differs from c in the named fields at most.
Alike(d, c, fs) == \A f \in Names \ fs : d[f] = c[f]

\* The channel is in use, a socket is open, no socket is but the channel's, none is at all.
Lists(c) == c.subscribed /\ ~c.disposed
Open(c, i) == c.sockets[i].phase # "free" /\ ~c.sockets[i].closed
OnlyOwn(c) == \A i \in Sockets : Open(c, i) => i = c.ws
Down(c) == c.ws = 0 /\ c.generation = 0 /\ \A i \in Sockets : ~Open(c, i)

\* The token request whose answer is awaited is not of an earlier identity.
TokenSound(c) ==
  /\ ~c.subscribed => c.tokenRequestGeneration = 0
  /\ Lists(c) /\ c.tokenRequestGeneration # 0 => ~c.requests[c.tokenRequestGeneration].stale
\* A listening application knows whether retries are halted, and is of a subscribed
\* channel; whoever starts a connection has room for its request.
Told(c) == c.listening => (c.retryHalted <=> c.errorHeard)
Heeded(c) == c.listening => c.subscribed
CanStart(c) == FreeRequests(c) # {} \/ ~Lists(c) \/ c.tokenRequest # 0

\* A request that has just begun.
NewRequest == [NoRequest EXCEPT !.pc = "read"]
\* d has the timers and requests of c, less those given up, and new requests.
Inherits(d, c) ==
  /\ d.doubled = c.doubled /\ d.fabricated = c.fabricated
  /\ d.reconnectTimer \in {0, c.reconnectTimer} /\ d.ackTimer \in {0, c.ackTimer}
  /\ d.renewalTimer \in {0, c.renewalTimer} /\ d.expiryTimer \in {0, c.expiryTimer}
  /\ \A r \in Requests : d.requests[r] \in {c.requests[r], NoRequest, NewRequest}

\* What a channel must be for a callback to be run.
Ready(c) == Shape(c) /\ OnlyOwn(c) /\ TokenSound(c) /\ (~c.subscribed => Down(c))
\* d is c with its socket given up, and the application told so.
GivenUp(d, c) ==
  /\ Shape(d) /\ Down(d) /\ Inherits(d, c) /\ TokenSound(d)
  /\ Told(c) => Told(d)
  /\ Heeded(c) => Heeded(d)

\* An EXCEPT of a channel has the fields of a channel.
LEMMA ExceptIsRec == ASSUME NEW c, IsRec(c), NEW v, NEW f PROVE IsRec([c EXCEPT ![f] = v])
BY DEF IsRec

\* Session 0, none, is one of the values of a session.
LEMMA Zero == 0 \in 0..MaxSessions
BY BoundsAssumption

-----------------------------------------------------------------------------
(* What the methods of the channel do to its fields                         *)

\* Closing a socket leaves every other socket as open as it was.
LEMMA CloseEffect == 
  ASSUME NEW c, Shape(c), NEW i \in {0} \cup Sockets
  PROVE  LET d == Close(c, i) IN
         /\ Shape(d) /\ Alike(d, c, {"sockets"})
         /\ \A j \in Sockets : Open(d, j) <=> Open(c, j) /\ j # i
<1> DEFINE d == Close(c, i)
<1>1. CASE i = 0
  <2>1. d = c BY <1>1 DEF Close
  <2>2. \A j \in Sockets : j # i BY <1>1 DEF Sockets
  <2> QED BY <2>1, <2>2 DEF Alike
<1>2. CASE i # 0
  <2> DEFINE w == [NoSocket EXCEPT !.phase = c.sockets[i].phase, !.closed = TRUE]
             v == [c.sockets EXCEPT ![i] = w]
  <2>1. d = [c EXCEPT !.sockets = v] BY <1>2 DEF Close
  <2>2. w \in Socket /\ w.closed 
    <3>1. c.sockets[i].phase \in {"free", "connecting", "open", "acked"}
      BY <1>2 DEF Shape, Typed, Socket
    <3> QED BY <3>1, Zero DEF NoSocket, Socket
  <2>3. v \in [Sockets -> Socket] BY <2>2 DEF Shape, Typed
  <2>4. \A j \in Sockets : v[j] = IF j = i THEN w ELSE c.sockets[j] BY DEF Shape, Typed
  <2> HIDE DEF w, v, d
  <2>5. IsRec(d) BY <2>1, ExceptIsRec DEF Shape
  <2>6. Alike(d, c, {"sockets"}) /\ d.sockets = v BY <2>1 DEF Alike, Shape, IsRec, Names
  <2>7. Typed(d) BY <2>6, <2>3 DEF Typed, Alike, Shape, Names
  <2>8. \A j \in Sockets : Open(d, j) <=> Open(c, j) /\ j # i
    BY <2>2, <2>4, <2>6 DEF Open
  <2> QED BY <2>5, <2>6, <2>7, <2>8 DEF Shape, d
<1> QED BY <1>1, <1>2

\* What is given up by c is given up, and nothing but.
LEMMA ReleasedEffect ==
  ASSUME NEW c, Shape(c)
  PROVE  LET d == Released(c) IN
         /\ Shape(d)
         /\ d.ackTimer = 0 /\ d.renewalTimer = 0 /\ d.expiryTimer = 0 /\ d.reconnectTimer = 0
         /\ d.ws = 0 /\ d.generation = 0 /\ d.tokenRequest = 0 /\ d.tokenRequestGeneration = 0
         /\ Alike(d, c, {"ackTimer", "renewalTimer", "expiryTimer", "reconnectTimer", "ws",
                         "generation", "tokenRequest", "tokenRequestGeneration", "sockets"})
         /\ \A i \in Sockets : Open(d, i) <=> Open(c, i) /\ i # c.ws
<1> DEFINE b == ClearAllTimers(InvalidateTokenRequest(c))
           e == [ClearSocketTimers(b) EXCEPT !.generation = 0, !.ws = 0]
<1> USE DEF InvalidateTokenRequest, ClearSocketTimers, ClearAllTimers, CancelReconnectTimer
<1>1. IsRec(e) BY ExceptIsRec DEF Shape
<1>2. /\ e.ackTimer = 0 /\ e.renewalTimer = 0 /\ e.expiryTimer = 0 /\ e.reconnectTimer = 0
      /\ e.ws = 0 /\ e.generation = 0 /\ e.tokenRequest = 0 /\ e.tokenRequestGeneration = 0
  BY DEF Shape, IsRec, Names
<1>3. /\ Alike(e, c, {"ackTimer", "renewalTimer", "expiryTimer", "reconnectTimer", "ws",
                         "generation", "tokenRequest", "tokenRequestGeneration"})
  BY DEF Alike, Shape, IsRec, Names
<1>4. b.ws = c.ws BY DEF Shape, IsRec, Names
<1> HIDE DEF e, b
<1>5. Typed(e) BY <1>2, <1>3 DEF Typed, Alike, Names, Shape
<1>6. Released(c) = Close(e, c.ws) BY <1>4 DEF Released, InvalidateActiveSocket, e, b
<1>7. c.ws \in {0} \cup Sockets BY DEF Shape, Typed
<1> HIDE DEF InvalidateTokenRequest, ClearSocketTimers, ClearAllTimers, CancelReconnectTimer
<1> DEFINE d == Released(c)
<1>8. /\ Shape(d) /\ Alike(d, e, {"sockets"})
      /\ \A j \in Sockets : Open(d, j) <=> Open(e, j) /\ j # c.ws
  <2>1. Shape(e) BY <1>1, <1>5 DEF Shape
  <2> DEFINE x == Close(e, c.ws)
  <2>2. Shape(x) BY <2>1, <1>7, CloseEffect
  <2>3. Alike(x, e, {"sockets"}) BY <2>1, <1>7, CloseEffect
  <2>4. \A j \in Sockets : Open(x, j) <=> Open(e, j) /\ j # c.ws BY <2>1, <1>7, CloseEffect
  <2> QED BY <2>2, <2>3, <2>4, <1>6
<1> HIDE DEF d
<1>9. Alike(d, c, {"ackTimer", "renewalTimer", "expiryTimer", "reconnectTimer", "ws",
                         "generation", "tokenRequest", "tokenRequestGeneration", "sockets"})
  BY <1>8, <1>3 DEF Alike
<1>10. /\ d.ackTimer = 0 /\ d.renewalTimer = 0 /\ d.expiryTimer = 0 /\ d.reconnectTimer = 0
      /\ d.ws = 0 /\ d.generation = 0 /\ d.tokenRequest = 0 /\ d.tokenRequestGeneration = 0
  BY <1>2, <1>8 DEF Alike, Names
<1>11. \A i \in Sockets : Open(d, i) <=> Open(c, i) /\ i # c.ws
  <2>1. e.sockets = c.sockets BY <1>3 DEF Alike, Names
  <2> QED BY <2>1, <1>8 DEF Open
<1> QED BY <1>8, <1>9, <1>10, <1>11 DEF d

\* The application's call is counted, and nothing else changes.
LEMMA SpentEffect ==
  ASSUME NEW c, Shape(c), c.user < MaxEvents
  PROVE  LET d == [c EXCEPT !.user = @ + 1] IN Shape(d) /\ Alike(d, c, {"user"})
<1> DEFINE d == [c EXCEPT !.user = @ + 1]
<1>1. IsRec(d) BY ExceptIsRec DEF Shape
<1>2. Alike(d, c, {"user"}) /\ d.user = c.user + 1 BY DEF Alike, Shape, IsRec, Names
<1> HIDE DEF d
<1>3. c.user + 1 \in 0..MaxEvents BY BoundsAssumption DEF Shape, Typed
<1>4. Typed(d) BY <1>2, <1>3 DEF Typed, Alike, Names, Shape
<1> QED BY <1>1, <1>2, <1>4 DEF Shape, d

\* Telling the application changes what it heard last, if it listens.
LEMMA HeardEffect ==
  ASSUME NEW c, Shape(c), NEW status
  PROVE  LET d == Heard(c, status) IN
         /\ Shape(d) /\ Alike(d, c, {"errorHeard"})
         /\ c.listening => (d.errorHeard <=> status = "CHANNEL_ERROR")
<1> DEFINE d == Heard(c, status)
           v == (status = "CHANNEL_ERROR")
<1>1. CASE ~c.listening
  <2>1. d = c BY <1>1 DEF Heard
  <2> QED BY <1>1, <2>1 DEF Alike
<1>2. CASE c.listening
  <2>0. v \in BOOLEAN OBVIOUS
  <2>1. d = [c EXCEPT !.errorHeard = v] BY <1>2 DEF Heard
  <2> HIDE DEF v, d
  <2>2. IsRec(d) BY <2>1, ExceptIsRec DEF Shape
  <2>3. Alike(d, c, {"errorHeard"}) /\ d.errorHeard = v BY <2>1 DEF Alike, Shape, IsRec, Names
  <2>4. Typed(d) BY <2>0, <2>3 DEF Typed, Alike, Names, Shape
  <2> QED BY <2>2, <2>3, <2>4 DEF Shape, d, v
<1> QED BY <1>1, <1>2

\* Forgetting the callback changes nothing else.
LEMMA ForgottenEffect ==
  ASSUME NEW c, Shape(c)
  PROVE  LET d == CallbackForgotten(c) IN
         Shape(d) /\ Alike(d, c, {"listening"}) /\ ~d.listening
<1> DEFINE d == CallbackForgotten(c)
<1> USE DEF CallbackForgotten
<1>1. IsRec(d) BY ExceptIsRec DEF Shape
<1>2. Alike(d, c, {"listening"}) /\ d.listening = FALSE BY DEF Alike, Shape, IsRec, Names
<1> HIDE DEF d
<1>4. Typed(d) BY <1>2 DEF Typed, Alike, Names, Shape
<1> QED BY <1>1, <1>2, <1>4 DEF Shape, d

\* The empty snapshot is a snapshot.
LEMMA SnapshotTyped == NoSnapshot \in [Tables -> {NoStream} \cup (Sockets \X DOMAIN Configs)]
BY DEF NoSnapshot

\* A stopped channel holds no token request, timer or socket.
LEMMA StoppedEffect ==
  ASSUME NEW c, Shape(c)
  PROVE  LET d == Stopped(c) IN
         /\ Shape(d)
         /\ ~d.subscribed /\ ~d.retryHalted /\ ~d.handle
         /\ d.ackTimer = 0 /\ d.renewalTimer = 0 /\ d.expiryTimer = 0 /\ d.reconnectTimer = 0
         /\ d.tokenRequest = 0 /\ d.tokenRequestGeneration = 0
         /\ d.disposed = c.disposed /\ d.listening = c.listening /\ d.errorHeard = c.errorHeard
         /\ d.doubled = c.doubled /\ d.fabricated = c.fabricated
         /\ d.requests = c.requests
         /\ OnlyOwn(c) => Down(d)
<1> DEFINE b == [c EXCEPT !.subscribed = FALSE, !.retryHalted = FALSE, !.handle = FALSE]
           e == Released(b)
           d == [e EXCEPT !.snapshot = NoSnapshot]
<1>1. IsRec(b) BY ExceptIsRec DEF Shape
<1>2. /\ Alike(b, c, {"subscribed", "retryHalted", "handle"})
      /\ b.subscribed = FALSE /\ b.retryHalted = FALSE /\ b.handle = FALSE
  BY DEF Alike, Shape, IsRec, Names
<1> HIDE DEF b
<1>3. Shape(b)
  <2>1. Typed(b) BY <1>2 DEF Typed, Alike, Names, Shape
  <2> QED BY <1>1, <2>1 DEF Shape
<1>4. /\ Shape(e)
      /\ e.ackTimer = 0 /\ e.renewalTimer = 0 /\ e.expiryTimer = 0 /\ e.reconnectTimer = 0
      /\ e.ws = 0 /\ e.generation = 0 /\ e.tokenRequest = 0 /\ e.tokenRequestGeneration = 0
      /\ Alike(e, b, {"ackTimer", "renewalTimer", "expiryTimer", "reconnectTimer", "ws",
                      "generation", "tokenRequest", "tokenRequestGeneration", "sockets"})
  BY <1>3, ReleasedEffect
<1>5. \A i \in Sockets : Open(e, i) <=> Open(b, i) /\ i # b.ws
  BY <1>3, ReleasedEffect
<1> HIDE DEF e
<1>6. IsRec(d) BY <1>4, ExceptIsRec DEF Shape
<1>7. Alike(d, e, {"snapshot"}) /\ d.snapshot = NoSnapshot BY <1>4 DEF Alike, Shape, IsRec, Names
<1> HIDE DEF d
<1>8. Typed(d) BY <1>4, <1>7, SnapshotTyped DEF Typed, Alike, Names, Shape
<1>9. ~d.subscribed /\ ~d.retryHalted /\ ~d.handle
  BY <1>2, <1>4, <1>7 DEF Alike, Names
<1>10. /\ d.ackTimer = 0 /\ d.renewalTimer = 0 /\ d.expiryTimer = 0 /\ d.reconnectTimer = 0
       /\ d.tokenRequest = 0 /\ d.tokenRequestGeneration = 0
  BY <1>4, <1>7 DEF Alike, Names
<1>11. /\ d.disposed = c.disposed /\ d.listening = c.listening /\ d.errorHeard = c.errorHeard
       /\ d.doubled = c.doubled /\ d.fabricated = c.fabricated
       /\ d.requests = c.requests
  BY <1>2, <1>4, <1>7 DEF Alike, Names
<1>12. OnlyOwn(c) => Down(d)
  <2>1. d.ws = 0 /\ d.generation = 0 /\ d.sockets = e.sockets BY <1>4, <1>7 DEF Alike, Names
  <2>2. b.sockets = c.sockets /\ b.ws = c.ws BY <1>2 DEF Alike, Names
  <2> QED BY <1>5, <2>1, <2>2 DEF Down, OnlyOwn, Open
<1>13. d = Stopped(c) BY DEF d, e, b, Stopped
<1> QED BY <1>6, <1>8, <1>9, <1>10, <1>11, <1>12, <1>13 DEF Shape

\* Starting a connection asks for a token, or does nothing.
LEMMA StartEffect ==
  ASSUME NEW c, Shape(c), CanStart(c)
  PROVE  LET d == StartConnection(c) IN
         /\ Shape(d)
         /\ Alike(d, c, {"tokenRequest", "tokenRequestGeneration", "requests"})
         /\ \A r \in Requests : d.requests[r] \in {c.requests[r], NewRequest}
         /\ TokenSound(c) => TokenSound(d)
         /\ Lists(c) /\ ~c.retryHalted => d.tokenRequest # 0
<1> DEFINE d == StartConnection(c)
<1>1. CASE ~c.subscribed \/ c.disposed \/ c.retryHalted \/ c.tokenRequest # 0
  <2>1. d = c BY <1>1 DEF StartConnection
  <2> HIDE DEF d
  <2>2. Alike(d, c, {"tokenRequest", "tokenRequestGeneration", "requests"}) BY <2>1 DEF Alike
  <2> QED BY <1>1, <2>1, <2>2 DEF Lists, d
<1>2. CASE ~(~c.subscribed \/ c.disposed \/ c.retryHalted \/ c.tokenRequest # 0)
  <2> DEFINE r == CHOOSE x \in FreeRequests(c) : TRUE
             v == [c.requests EXCEPT ![r] = NewRequest]
  <2>1. r \in Requests BY <1>2 DEF CanStart, Lists, FreeRequests
  <2> HIDE DEF r
  <2>2. NewRequest \in Request /\ ~NewRequest.stale
    BY Zero DEF NewRequest, NoRequest, Request, Reading
  <2>3. v \in [Requests -> Request] /\ v[r] = NewRequest
        /\ \A q \in Requests : v[q] \in {c.requests[q], NewRequest}
    BY <2>1, <2>2 DEF Shape, Typed
  <2>4. d = [c EXCEPT !.tokenRequest = r, !.tokenRequestGeneration = r, !.requests = v]
    BY <1>2 DEF StartConnection, NewRequest, r
  <2> HIDE DEF v, d
  <2>5. IsRec(d) BY <2>4, ExceptIsRec DEF Shape
  <2>6. /\ Alike(d, c, {"tokenRequest", "tokenRequestGeneration", "requests"})
        /\ d.tokenRequest = r /\ d.tokenRequestGeneration = r /\ d.requests = v
    BY <2>4 DEF Alike, Shape, IsRec, Names
  <2>7. Typed(d) BY <2>1, <2>3, <2>6 DEF Typed, Alike, Names, Shape
  <2>8. TokenSound(d)
    <3>1. d.subscribed BY <1>2, <2>6 DEF Alike, Names
    <3> QED BY <3>1, <2>2, <2>3, <2>6 DEF TokenSound
  <2>9. d.tokenRequest # 0 BY <2>1, <2>6 DEF Requests
  <2> QED BY <2>3, <2>5, <2>6, <2>7, <2>8, <2>9 DEF Shape, d
<1> QED BY <1>1, <1>2

\* The first half of subscribe.
LEMMA SubscribingEffect ==
  ASSUME NEW c, Shape(c)
  PROVE  LET d == Subscribing(c) IN
         /\ Shape(d)
         /\ Alike(d, c, {"subscribed", "retryHalted", "listening", "handle"})
         /\ d.subscribed /\ ~d.retryHalted /\ d.listening /\ ~d.handle
<1> DEFINE d == Subscribing(c)
<1>1. IsRec(d) BY ExceptIsRec DEF Shape, Subscribing
<1>2. /\ Alike(d, c, {"subscribed", "retryHalted", "listening", "handle"})
      /\ d.subscribed = TRUE /\ d.retryHalted = FALSE /\ d.listening = TRUE /\ d.handle = FALSE
  BY DEF Alike, Shape, IsRec, Names, Subscribing
<1> HIDE DEF d
<1>4. Typed(d) BY <1>2 DEF Typed, Alike, Names, Shape
<1> QED BY <1>1, <1>2, <1>4 DEF Shape, d

\* The end of dispose.
LEMMA DisposedEffect ==
  ASSUME NEW c, Shape(c)
  PROVE  LET d == Disposed(c) IN
         /\ Shape(d) /\ Alike(d, c, {"disposed", "snapshot"}) /\ d.disposed
<1> DEFINE d == Disposed(c)
<1>1. IsRec(d) BY ExceptIsRec DEF Shape, Disposed
<1>2. /\ Alike(d, c, {"disposed", "snapshot"}) /\ d.disposed = TRUE /\ d.snapshot = NoSnapshot
  BY DEF Alike, Shape, IsRec, Names, Disposed
<1> HIDE DEF d
<1>4. Typed(d) BY <1>2, SnapshotTyped DEF Typed, Alike, Names, Shape
<1> QED BY <1>1, <1>2, <1>4 DEF Shape, d

\* The second half of subscribe asks for a token and hands out the handle.
LEMMA SubscribedEffect ==
  ASSUME NEW c, Shape(c), CanStart(c)
  PROVE  LET d == Subscribed(c) IN
         /\ Shape(d)
         /\ Alike(d, c, {"tokenRequest", "tokenRequestGeneration", "requests", "handle"})
         /\ \A r \in Requests : d.requests[r] \in {c.requests[r], NewRequest}
         /\ TokenSound(c) => TokenSound(d)
         /\ Lists(c) /\ ~c.retryHalted => d.tokenRequest # 0
<1> DEFINE e == StartConnection(c)
           d == [e EXCEPT !.handle = c.subscribed]
<1>1. /\ Shape(e)
      /\ Alike(e, c, {"tokenRequest", "tokenRequestGeneration", "requests"})
      /\ \A r \in Requests : e.requests[r] \in {c.requests[r], NewRequest}
      /\ TokenSound(c) => TokenSound(e)
      /\ Lists(c) /\ ~c.retryHalted => e.tokenRequest # 0
  BY StartEffect
<1> HIDE DEF e
<1>2. IsRec(d) BY <1>1, ExceptIsRec DEF Shape
<1>3. Alike(d, e, {"handle"}) /\ d.handle = c.subscribed BY <1>1 DEF Alike, Shape, IsRec, Names
<1> HIDE DEF d
<1>4. c.subscribed \in BOOLEAN BY DEF Shape, Typed
<1>5. Typed(d) BY <1>1, <1>3, <1>4 DEF Typed, Alike, Names, Shape
<1>6. Alike(d, c, {"tokenRequest", "tokenRequestGeneration", "requests", "handle"})
  BY <1>1, <1>3 DEF Alike
<1>7. /\ d.requests = e.requests /\ d.tokenRequest = e.tokenRequest
      /\ d.tokenRequestGeneration = e.tokenRequestGeneration
      /\ d.subscribed = e.subscribed /\ d.disposed = e.disposed
  BY <1>3 DEF Alike, Names
<1>8. TokenSound(e) => TokenSound(d) BY <1>7 DEF TokenSound, Lists
<1>9. d = Subscribed(c) BY DEF d, e, Subscribed
<1> QED BY <1>1, <1>2, <1>5, <1>6, <1>7, <1>8, <1>9 DEF Shape

-----------------------------------------------------------------------------
(* The callbacks: whatever they do, the channel is kept or given up         *)

\* unsubscribe and subscribe, as a callback runs them.
Ended(c) == CallbackForgotten(Heard(Stopped(c), "CLOSED"))
\* An unsubscribe from inside a callback gives everything up.
LEMMA EndedEffect ==
  ASSUME NEW c, Shape(c), OnlyOwn(c)
  PROVE  LET d == Ended(c) IN
         /\ GivenUp(d, c) /\ CanStart(d)
         /\ ~d.subscribed /\ ~d.listening
         /\ d.disposed = c.disposed /\ d.requests = c.requests
<1> DEFINE a == Stopped(c)
           b == Heard(a, "CLOSED")
           d == CallbackForgotten(b)
<1>1. /\ Shape(a)
      /\ ~a.subscribed /\ ~a.retryHalted /\ ~a.handle
      /\ a.ackTimer = 0 /\ a.renewalTimer = 0 /\ a.expiryTimer = 0 /\ a.reconnectTimer = 0
      /\ a.tokenRequest = 0 /\ a.tokenRequestGeneration = 0
      /\ a.disposed = c.disposed /\ a.doubled = c.doubled /\ a.fabricated = c.fabricated
      /\ a.requests = c.requests
      /\ Down(a)
  BY StoppedEffect
<1> HIDE DEF a
<1>2. Shape(b) /\ Alike(b, a, {"errorHeard"})
  BY <1>1, HeardEffect
<1> HIDE DEF b
<1>3. Shape(d) /\ Alike(d, b, {"listening"}) /\ ~d.listening
  BY <1>2, ForgottenEffect
<1> HIDE DEF d
<1>4. Alike(d, a, {"errorHeard", "listening"}) BY <1>2, <1>3 DEF Alike
<1>5. d.sockets = a.sockets /\ d.ws = a.ws /\ d.generation = a.generation BY <1>4 DEF Alike, Names
<1>6. Down(d) BY <1>1, <1>5 DEF Down, Open
<1>7. /\ ~d.subscribed /\ d.disposed = c.disposed /\ d.requests = c.requests
      /\ d.doubled = c.doubled /\ d.fabricated = c.fabricated
  BY <1>1, <1>4 DEF Alike, Names
<1>8. /\ d.ackTimer = 0 /\ d.renewalTimer = 0 /\ d.expiryTimer = 0 /\ d.reconnectTimer = 0
      /\ d.tokenRequest = 0 /\ d.tokenRequestGeneration = 0
  BY <1>1, <1>4 DEF Alike, Names
<1>9. Inherits(d, c) BY <1>7, <1>8 DEF Inherits
<1>10. TokenSound(d) /\ CanStart(d) BY <1>7, <1>8 DEF TokenSound, CanStart, Lists
<1>11. Told(d) /\ Heeded(d) BY <1>3 DEF Told, Heeded
<1>12. d = Ended(c) BY DEF Ended, d, b, a
<1> QED BY <1>3, <1>6, <1>7, <1>9, <1>10, <1>11, <1>12 DEF GivenUp

Restarted(c) == Subscribed(Heard(Subscribing(c), "CONNECTING"))
\* A subscribe from inside a callback, after what there was has been given up.
LEMMA RestartedEffect ==
  ASSUME NEW c, Shape(c), Down(c), ~c.subscribed, ~c.disposed, TokenSound(c), FreeRequests(c) # {}
  PROVE  GivenUp(Restarted(c), c) /\ CanStart(Restarted(c))
<1> DEFINE a == Subscribing(c)
           b == Heard(a, "CONNECTING")
           d == Subscribed(b)
<1>1. /\ Shape(a)
      /\ Alike(a, c, {"subscribed", "retryHalted", "listening", "handle"})
      /\ a.subscribed /\ ~a.retryHalted /\ a.listening
  BY SubscribingEffect
<1> HIDE DEF a
<1>2. Shape(b) /\ Alike(b, a, {"errorHeard"}) /\ ~b.errorHeard
  BY <1>1, HeardEffect
<1> HIDE DEF b
<1>3. /\ Alike(b, c, {"subscribed", "retryHalted", "listening", "handle", "errorHeard"})
      /\ b.subscribed /\ ~b.retryHalted /\ b.listening
  BY <1>1, <1>2 DEF Alike, Names
<1>4. b.requests = c.requests /\ b.disposed = c.disposed
      /\ b.tokenRequestGeneration = c.tokenRequestGeneration
  BY <1>3 DEF Alike, Names
<1>5. CanStart(b) BY <1>4 DEF CanStart, FreeRequests
<1>6. TokenSound(b) BY <1>3, <1>4 DEF TokenSound
<1>7. /\ Shape(d)
      /\ Alike(d, b, {"tokenRequest", "tokenRequestGeneration", "requests", "handle"})
      /\ \A r \in Requests : d.requests[r] \in {b.requests[r], NewRequest}
      /\ TokenSound(d)
      /\ d.tokenRequest # 0
  <2>1. Lists(b) BY <1>3, <1>4 DEF Lists
  <2> QED BY <1>2, <1>3, <1>5, <1>6, <2>1, SubscribedEffect
<1> HIDE DEF d
<1>8. /\ d.doubled = c.doubled /\ d.fabricated = c.fabricated
      /\ d.reconnectTimer = c.reconnectTimer /\ d.ackTimer = c.ackTimer
      /\ d.renewalTimer = c.renewalTimer /\ d.expiryTimer = c.expiryTimer
  BY <1>3, <1>7 DEF Alike, Names
<1>9. /\ d.ws = c.ws /\ d.generation = c.generation /\ d.sockets = c.sockets
      /\ d.subscribed /\ d.listening /\ ~d.retryHalted /\ ~d.errorHeard
  BY <1>2, <1>3, <1>7 DEF Alike, Names
<1>10. Inherits(d, c) BY <1>4, <1>7, <1>8 DEF Inherits
<1>11. Down(d) BY <1>9 DEF Down, Open
<1>12. CanStart(d) /\ Told(d) /\ Heeded(d) BY <1>7, <1>9 DEF CanStart, Told, Heeded
<1>13. d = Restarted(c) BY DEF Restarted, d, b, a
<1> QED BY <1>7, <1>10, <1>11, <1>12, <1>13 DEF GivenUp

\* What is given up twice is given up.
LEMMA GivenUpThrough ==
  ASSUME NEW c, NEW e, NEW d, GivenUp(e, c), GivenUp(d, e)
  PROVE  GivenUp(d, c)
<1>1. Inherits(d, c)
  <2>1. Inherits(d, e) /\ Inherits(e, c) BY DEF GivenUp
  <2> QED BY <2>1 DEF Inherits
<1> QED BY <1>1 DEF GivenUp

\* dispose ends with a channel that is down.
LEMMA DisposedGivenUp ==
  ASSUME NEW c, Shape(c), Down(c), TokenSound(c)
  PROVE  GivenUp(Disposed(c), c) /\ CanStart(Disposed(c))
<1> DEFINE d == Disposed(c)
<1>1. Shape(d) /\ Alike(d, c, {"disposed", "snapshot"}) /\ d.disposed BY DisposedEffect
<1> HIDE DEF d
<1>2. /\ d.doubled = c.doubled /\ d.fabricated = c.fabricated
      /\ d.reconnectTimer = c.reconnectTimer /\ d.ackTimer = c.ackTimer
      /\ d.renewalTimer = c.renewalTimer /\ d.expiryTimer = c.expiryTimer /\ d.requests = c.requests
  BY <1>1 DEF Alike, Names
<1>3. /\ d.ws = c.ws /\ d.generation = c.generation /\ d.sockets = c.sockets
      /\ d.subscribed = c.subscribed /\ d.listening = c.listening
      /\ d.retryHalted = c.retryHalted /\ d.errorHeard = c.errorHeard
      /\ d.tokenRequestGeneration = c.tokenRequestGeneration
  BY <1>1 DEF Alike, Names
<1>4. Inherits(d, c) BY <1>2 DEF Inherits
<1>5. Down(d) BY <1>3 DEF Down, Open
<1>6. TokenSound(d) BY <1>1, <1>3 DEF TokenSound, Lists
<1>7. CanStart(d) BY <1>1 DEF CanStart, Lists
<1>8. (Told(c) => Told(d)) /\ (Heeded(c) => Heeded(d)) BY <1>3 DEF Told, Heeded
<1> QED BY <1>1, <1>4, <1>5, <1>6, <1>7, <1>8 DEF GivenUp, d

\* Releasing what a channel holds gives it up.
LEMMA ReleasedGivenUp ==
  ASSUME NEW c, Shape(c), OnlyOwn(c)
  PROVE  GivenUp(Released(c), c)
<1> DEFINE d == Released(c)
<1>1. /\ Shape(d)
      /\ d.ackTimer = 0 /\ d.renewalTimer = 0 /\ d.expiryTimer = 0 /\ d.reconnectTimer = 0
      /\ d.ws = 0 /\ d.generation = 0 /\ d.tokenRequest = 0 /\ d.tokenRequestGeneration = 0
      /\ Alike(d, c, {"ackTimer", "renewalTimer", "expiryTimer", "reconnectTimer", "ws",
                      "generation", "tokenRequest", "tokenRequestGeneration", "sockets"})
  BY ReleasedEffect
<1>2. \A i \in Sockets : Open(d, i) <=> Open(c, i) /\ i # c.ws
  BY ReleasedEffect
<1> HIDE DEF d
<1>3. /\ d.requests = c.requests /\ d.doubled = c.doubled /\ d.fabricated = c.fabricated
      /\ d.subscribed = c.subscribed /\ d.listening = c.listening
      /\ d.retryHalted = c.retryHalted /\ d.errorHeard = c.errorHeard
  BY <1>1 DEF Alike, Names
<1>4. Down(d) BY <1>1, <1>2 DEF Down, OnlyOwn
<1>5. Inherits(d, c) BY <1>1, <1>3 DEF Inherits
<1>6. TokenSound(d) BY <1>1 DEF TokenSound
<1>7. (Told(c) => Told(d)) /\ (Heeded(c) => Heeded(d)) BY <1>3 DEF Told, Heeded
<1> QED BY <1>1, <1>4, <1>5, <1>6, <1>7 DEF GivenUp, d

\* Whatever a callback does, it leaves the channel without a socket.
LEMMA ReactionsGiveUp ==
  ASSUME NEW c, Ready(c), trouble \in Nat, NEW d \in Reactions(c)
  PROVE  GivenUp(d, c) /\ CanStart(d)
<1> DEFINE e == [c EXCEPT !.user = @ + 1]
           stopped == IF e.handle THEN {Ended(e)} ELSE {}
           again == {x \in stopped \cup {e} : ~x.subscribed /\ ~x.disposed}
<1>1. Left(c) /\ FreeRequests(c) # {}
  BY DEF Reactions
<1>2. d \in stopped \cup {Restarted(x) : x \in again}
             \cup (IF e.disposed THEN {}
                   ELSE {Disposed(IF e.subscribed THEN Ended(e) ELSE Released(e))})
  BY <1>1 DEF Reactions, Ended, Restarted
<1>3. c.user < MaxEvents BY <1>1, BoundsAssumption DEF Left, Ready, Shape, Typed
<1>4. Shape(e) /\ Alike(e, c, {"user"}) BY <1>3, SpentEffect DEF Ready
<1> HIDE DEF e
<1>5. /\ e.requests = c.requests /\ e.doubled = c.doubled /\ e.fabricated = c.fabricated
      /\ e.subscribed = c.subscribed /\ e.listening = c.listening
      /\ e.retryHalted = c.retryHalted /\ e.errorHeard = c.errorHeard
      /\ e.disposed = c.disposed /\ e.ws = c.ws /\ e.generation = c.generation
      /\ e.sockets = c.sockets /\ e.tokenRequestGeneration = c.tokenRequestGeneration
  BY <1>4 DEF Alike, Names
<1>6. /\ e.reconnectTimer = c.reconnectTimer /\ e.ackTimer = c.ackTimer
      /\ e.renewalTimer = c.renewalTimer /\ e.expiryTimer = c.expiryTimer
  BY <1>4 DEF Alike, Names
<1>7. OnlyOwn(e) /\ TokenSound(e) /\ (~e.subscribed => Down(e))
  BY <1>5 DEF Ready, OnlyOwn, TokenSound, Down, Open, Lists
<1>8. FreeRequests(e) # {} BY <1>1, <1>5 DEF FreeRequests
<1>9. ASSUME NEW x, GivenUp(x, e) PROVE GivenUp(x, c)
  <2>1. Inherits(x, c) BY <1>5, <1>6, <1>9 DEF GivenUp, Inherits
  <2>2. (Told(c) => Told(e)) /\ (Heeded(c) => Heeded(e)) BY <1>5 DEF Told, Heeded
  <2> QED BY <2>1, <2>2, <1>9 DEF GivenUp
<1>10. /\ GivenUp(Ended(e), e) /\ CanStart(Ended(e))
       /\ ~Ended(e).subscribed /\ Ended(e).disposed = e.disposed
       /\ Ended(e).requests = e.requests
  BY <1>4, <1>7, EndedEffect
<1>11. CASE d \in stopped
  BY <1>9, <1>10, <1>11
<1>12. ASSUME NEW x \in again, d = Restarted(x) PROVE GivenUp(d, c) /\ CanStart(d)
  <2>1. CASE x = e
    <3>1. GivenUp(Restarted(e), e) /\ CanStart(Restarted(e))
      BY <2>1, <1>4, <1>7, <1>8, <1>12, RestartedEffect
    <3> QED BY <3>1, <2>1, <1>9, <1>12
  <2>2. CASE x = Ended(e)
    <3>1. /\ Shape(x) /\ Down(x) /\ TokenSound(x) /\ FreeRequests(x) # {}
          /\ ~x.subscribed /\ ~x.disposed
      BY <2>2, <1>8, <1>10, <1>12 DEF GivenUp, FreeRequests
    <3>2. GivenUp(Restarted(x), x) /\ CanStart(Restarted(x)) BY <3>1, RestartedEffect
    <3>3. GivenUp(d, e) BY <2>2, <3>2, <1>10, <1>12, GivenUpThrough
    <3> QED BY <3>2, <3>3, <1>9, <1>12
  <2> QED BY <1>12, <2>1, <2>2
<1>13. CASE d = Disposed(IF e.subscribed THEN Ended(e) ELSE Released(e))
  <2> DEFINE x == IF e.subscribed THEN Ended(e) ELSE Released(e)
  <2>1. GivenUp(x, e) BY <1>4, <1>7, <1>10, ReleasedGivenUp
  <2> HIDE DEF x
  <2>2. GivenUp(Disposed(x), x) /\ CanStart(Disposed(x))
    BY <2>1, DisposedGivenUp DEF GivenUp
  <2>3. GivenUp(Disposed(x), e) BY <2>1, <2>2, GivenUpThrough
  <2> QED BY <2>2, <2>3, <1>9, <1>13 DEF x
<1> QED BY <1>2, <1>11, <1>12, <1>13

\* A status either was only heard, or the channel was given up.
Emitted(d, c) ==
  \/ Shape(d) /\ Alike(d, c, {"errorHeard"})
  \/ GivenUp(d, c) /\ CanStart(d)

\* After a status was emitted the channel is as it was, or was given up by the callback.
LEMMA StatusEmitted ==
  ASSUME NEW c, Ready(c), trouble \in Nat, NEW status, NEW d \in EmitStatus(c, status),
         c.listening => (c.retryHalted <=> status = "CHANNEL_ERROR")
  PROVE  Emitted(d, c) /\ Told(d)
<1> DEFINE e == Heard(c, status)
<1>1. /\ Shape(e) /\ Alike(e, c, {"errorHeard"})
      /\ c.listening => (e.errorHeard <=> status = "CHANNEL_ERROR")
  BY HeardEffect DEF Ready
<1>2. d = e \/ d \in Reactions(e)
  BY DEF EmitStatus
<1> HIDE DEF e
<1>3. /\ e.requests = c.requests /\ e.doubled = c.doubled /\ e.fabricated = c.fabricated
      /\ e.subscribed = c.subscribed /\ e.listening = c.listening
      /\ e.retryHalted = c.retryHalted
      /\ e.disposed = c.disposed /\ e.ws = c.ws /\ e.generation = c.generation
      /\ e.sockets = c.sockets /\ e.tokenRequestGeneration = c.tokenRequestGeneration
  BY <1>1 DEF Alike, Names
<1>4. /\ e.reconnectTimer = c.reconnectTimer /\ e.ackTimer = c.ackTimer
      /\ e.renewalTimer = c.renewalTimer /\ e.expiryTimer = c.expiryTimer
  BY <1>1 DEF Alike, Names
<1>5. Told(e) BY <1>1, <1>3 DEF Told
<1>6. Ready(e)
  BY <1>1, <1>3 DEF Ready, OnlyOwn, TokenSound, Down, Open, Lists
<1>7. CASE d = e BY <1>1, <1>5, <1>7 DEF Emitted
<1>8. CASE d \in Reactions(e)
  <2>1. GivenUp(d, e) /\ CanStart(d) BY <1>6, <1>8, ReactionsGiveUp
  <2>2. Told(d) BY <2>1, <1>5 DEF GivenUp
  <2>3. Inherits(d, c) BY <2>1, <1>3, <1>4 DEF GivenUp, Inherits
  <2>4. Heeded(c) => Heeded(d) BY <2>1, <1>3 DEF GivenUp, Heeded
  <2> QED BY <2>1, <2>2, <2>3, <2>4 DEF Emitted, GivenUp
<1> QED BY <1>2, <1>7, <1>8

-----------------------------------------------------------------------------
(* The invariant of the channel, kept by its methods                        *)

\* The socket is the only open one, of the current generation, and not outdated.
SocketSound(c) ==
  /\ c.generation = c.ws
  /\ ~Lists(c) => c.ws = 0
  /\ c.ws # 0 => Open(c, c.ws) /\ ~c.sockets[c.ws].stale
  /\ OnlyOwn(c)
\* A request that still reads has no session; one that moves a session has it.
RequestsSound(c) ==
  \A r \in Requests : /\ c.requests[r].pc \in {"read", "legacy"} => c.requests[r].session = 0
                      /\ c.requests[r].pc \in {"move", "drop"} => c.requests[r].session # 0
\* A timer is armed in its phase of the handshake only, and never twice.
TimerSound(c) ==
  /\ c.ws # 0 /\ c.sockets[c.ws].phase = "connecting" => c.ackTimer = 0
  /\ c.ws # 0 /\ c.sockets[c.ws].phase \in {"connecting", "open"}
       => c.renewalTimer = 0 /\ c.expiryTimer = 0
  /\ ~c.doubled
\* Results of a live socket are compared with results of that socket.
Acked(c) == c.ws # 0 /\ c.sockets[c.ws].phase = "acked"
OwnStreams(c) ==
  \A t \in Tables : \/ c.snapshot[t] = NoStream
                    \/ \E k \in DOMAIN Configs : Configs[k] = t /\ c.snapshot[t] = <<c.ws, k>>
StreamSound(c) == Acked(c) => ~c.retryHalted /\ OwnStreams(c)

\* All of that; and a sound channel has told the application of its state.
Calm(c) ==
  /\ Shape(c) /\ SocketSound(c) /\ TokenSound(c) /\ RequestsSound(c) /\ TimerSound(c)
  /\ StreamSound(c) /\ Heeded(c)
Sound(c) == Calm(c) /\ Told(c)

\* What d has it has from c, but for token requests begun anew.
Carries(d, c) ==
  /\ \A r \in Requests : d.requests[r] \in {c.requests[r], NoRequest, NewRequest}
  /\ d.ws # 0 => d.ws = c.ws /\ d.sockets[d.ws].session = c.sockets[c.ws].session

\* Two steps carry over no more than one.
LEMMA CarriesThrough ==
  ASSUME NEW c, NEW e, NEW d, Carries(e, c), Carries(d, e)
  PROVE  Carries(d, c)
BY DEF Carries

\* A calm channel is ready for any reaction of the application.
LEMMA CalmIsReady == ASSUME NEW c, Calm(c) PROVE Ready(c)
<1>1. Shape(c) /\ OnlyOwn(c) /\ TokenSound(c) BY DEF Calm, SocketSound
<1>2. ASSUME ~c.subscribed PROVE Down(c)
  <2>1. c.ws = 0 /\ c.generation = 0 BY <1>2 DEF Calm, SocketSound, Lists
  <2>2. \A i \in Sockets : i # 0 BY DEF Sockets
  <2> QED BY <2>1, <2>2, <1>1 DEF Down, OnlyOwn
<1> QED BY <1>1, <1>2 DEF Ready

\* Without a socket only the token request and the flags matter.
LEMMA DownIsCalm ==
  ASSUME NEW c, Shape(c), Down(c), TokenSound(c), RequestsSound(c), ~c.doubled, Heeded(c)
  PROVE  Calm(c)
<1>1. SocketSound(c) BY DEF Down, SocketSound, OnlyOwn
<1>2. TimerSound(c) /\ StreamSound(c) BY DEF Down, TimerSound, StreamSound, Acked
<1> QED BY <1>1, <1>2 DEF Calm

\* Requests that end or begin anew are sound.
LEMMA RequestsInherited ==
  ASSUME NEW c, NEW d, RequestsSound(c),
         \A r \in Requests : d.requests[r] \in {c.requests[r], NoRequest, NewRequest}
  PROVE  RequestsSound(d)
<1>1. NoRequest.pc = "free" /\ NewRequest.pc = "read" /\ NewRequest.session = 0
  BY DEF NoRequest, NewRequest
<1> SUFFICES ASSUME NEW r \in Requests
             PROVE /\ d.requests[r].pc \in {"read", "legacy"} => d.requests[r].session = 0
                   /\ d.requests[r].pc \in {"move", "drop"} => d.requests[r].session # 0
  BY DEF RequestsSound
<1>2. CASE d.requests[r] = c.requests[r] BY <1>2 DEF RequestsSound
<1>3. CASE d.requests[r] = NoRequest BY <1>1, <1>3
<1>4. CASE d.requests[r] = NewRequest BY <1>1, <1>4
<1> QED BY <1>2, <1>3, <1>4

\* d is c, or c without its socket.
Keeps(d, c) == Inherits(d, c) /\ (d.ws # 0 => d.ws = c.ws /\ d.sockets = c.sockets)

\* Emitting a status that tells the truth makes a calm channel sound.
LEMMA StatusSound ==
  ASSUME NEW c, Calm(c), trouble \in Nat, NEW status, NEW d \in EmitStatus(c, status),
         c.listening => (c.retryHalted <=> status = "CHANNEL_ERROR")
  PROVE  Sound(d) /\ Keeps(d, c) /\ (CanStart(c) => CanStart(d))
<1>1. Emitted(d, c) /\ Told(d) BY CalmIsReady, StatusEmitted
<1>2. CASE Shape(d) /\ Alike(d, c, {"errorHeard"})
  <2>1. /\ d.requests = c.requests /\ d.doubled = c.doubled /\ d.fabricated = c.fabricated
        /\ d.subscribed = c.subscribed /\ d.listening = c.listening
        /\ d.retryHalted = c.retryHalted /\ d.snapshot = c.snapshot
        /\ d.disposed = c.disposed /\ d.ws = c.ws /\ d.generation = c.generation
        /\ d.sockets = c.sockets /\ d.tokenRequestGeneration = c.tokenRequestGeneration
        /\ d.tokenRequest = c.tokenRequest
    BY <1>2 DEF Alike, Names
  <2>2. /\ d.reconnectTimer = c.reconnectTimer /\ d.ackTimer = c.ackTimer
        /\ d.renewalTimer = c.renewalTimer /\ d.expiryTimer = c.expiryTimer
    BY <1>2 DEF Alike, Names
  <2>3. SocketSound(d) BY <2>1 DEF Calm, SocketSound, OnlyOwn, Open, Lists
  <2>4. TokenSound(d) /\ RequestsSound(d) BY <2>1 DEF Calm, TokenSound, RequestsSound, Lists
  <2>5. TimerSound(d) BY <2>1, <2>2 DEF Calm, TimerSound
  <2>6. StreamSound(d) BY <2>1 DEF Calm, StreamSound, Acked, OwnStreams
  <2>7. Heeded(d) BY <2>1 DEF Calm, Heeded
  <2>8. Keeps(d, c) BY <2>1, <2>2 DEF Keeps, Inherits
  <2>9. CanStart(c) => CanStart(d) BY <2>1 DEF CanStart, FreeRequests, Lists
  <2> QED BY <1>1, <1>2, <2>3, <2>4, <2>5, <2>6, <2>7, <2>8, <2>9 DEF Sound, Calm
<1>3. CASE GivenUp(d, c) /\ CanStart(d)
  <2>1. Inherits(d, c) /\ Shape(d) /\ Down(d) /\ TokenSound(d) /\ Heeded(d)
    BY <1>3 DEF GivenUp, Calm
  <2>2. ~d.doubled BY <2>1 DEF Inherits, Calm, TimerSound
  <2>3. RequestsSound(d) BY <2>1, RequestsInherited DEF Inherits, Calm
  <2>4. Calm(d) BY <2>1, <2>2, <2>3, DownIsCalm
  <2>5. Keeps(d, c) BY <2>1 DEF Keeps, Down
  <2> QED BY <1>1, <1>3, <2>4, <2>5 DEF Sound
<1> QED BY <1>1, <1>2, <1>3 DEF Emitted

\* What the callbacks keep is carried over.
LEMMA KeepsCarries == ASSUME NEW c, NEW d, Keeps(d, c) PROVE Carries(d, c) /\ d.fabricated = c.fabricated
BY DEF Keeps, Carries, Inherits

\* A timer armed when none of its kind is pending.
LEMMA ArmEffect ==
  ASSUME NEW c, Shape(c), NEW v,
         NEW f \in {"reconnectTimer", "ackTimer", "renewalTimer", "expiryTimer"}, c[f] = 0,
         IF f = "reconnectTimer" THEN v = Armed ELSE v \in Sockets
  PROVE  LET d == Arm(c, f, v) IN
         Shape(d) /\ Alike(d, c, {f}) /\ d[f] = v
<1> DEFINE d == Arm(c, f, v)
<1>1. f \in Names /\ f # "doubled" BY DEF Names
<1>2. IsRec(d)
  <2>1. IsRec([c EXCEPT ![f] = v]) BY ExceptIsRec DEF Shape
  <2> QED BY ExceptIsRec DEF Shape, Arm
<1>3. d[f] = v /\ Alike(d, c, {f, "doubled"}) BY <1>1 DEF Arm, Shape, IsRec, Alike
<1>4. d.doubled = c.doubled
  <2>1. c.doubled \in BOOLEAN BY DEF Shape, Typed
  <2> QED BY <1>1, <2>1 DEF Arm, Shape, IsRec, Names
<1> HIDE DEF d
<1>5. Alike(d, c, {f}) BY <1>3, <1>4 DEF Alike
<1>6. Typed(d)
  <2>1. CASE f = "reconnectTimer" BY <2>1, <1>3, <1>5 DEF Typed, Alike, Names, Shape
  <2>2. CASE f = "ackTimer" BY <2>2, <1>3, <1>5 DEF Typed, Alike, Names, Shape
  <2>3. CASE f = "renewalTimer" BY <2>3, <1>3, <1>5 DEF Typed, Alike, Names, Shape
  <2>4. CASE f = "expiryTimer" BY <2>4, <1>3, <1>5 DEF Typed, Alike, Names, Shape
  <2> QED BY <2>1, <2>2, <2>3, <2>4
<1> QED BY <1>2, <1>3, <1>5, <1>6 DEF Shape, d

\* What a channel may give up.
Shed == {"ackTimer", "renewalTimer", "expiryTimer", "reconnectTimer", "ws", "generation",
         "sockets", "snapshot", "tokenRequest", "tokenRequestGeneration"}
\* Giving up sockets, timers or the token request leaves the channel sound.
LEMMA SheddingIsSound ==
  ASSUME NEW c, Sound(c), NEW d, Shape(d), Down(d), Alike(d, c, Shed),
         d.tokenRequestGeneration \in {0, c.tokenRequestGeneration}
  PROVE  Sound(d) /\ Carries(d, c) /\ d.fabricated = c.fabricated
<1>1. /\ d.requests = c.requests /\ d.doubled = c.doubled /\ d.fabricated = c.fabricated
      /\ d.subscribed = c.subscribed /\ d.listening = c.listening
      /\ d.retryHalted = c.retryHalted /\ d.errorHeard = c.errorHeard /\ d.disposed = c.disposed
  BY DEF Alike, Names, Shed
<1>2. TokenSound(d) BY <1>1 DEF Sound, Calm, TokenSound, Lists
<1>3. RequestsSound(d) BY <1>1 DEF Sound, Calm, RequestsSound
<1>4. ~d.doubled BY <1>1 DEF Sound, Calm, TimerSound
<1>5. Heeded(d) /\ Told(d) BY <1>1 DEF Sound, Calm, Heeded, Told
<1>6. Calm(d) BY <1>2, <1>3, <1>4, <1>5, DownIsCalm
<1>7. Carries(d, c) BY <1>1 DEF Carries, Down
<1> QED BY <1>1, <1>5, <1>6, <1>7 DEF Sound

\* Without its socket the channel is down.
LEMMA InvalidateSocketEffect ==
  ASSUME NEW c, Shape(c), OnlyOwn(c)
  PROVE  LET d == InvalidateActiveSocket(c) IN
         /\ Shape(d) /\ Down(d)
         /\ Alike(d, c, {"ackTimer", "renewalTimer", "expiryTimer", "ws", "generation", "sockets"})
<1> DEFINE e == [ClearSocketTimers(c) EXCEPT !.generation = 0, !.ws = 0]
           d == Close(e, c.ws)
<1>1. IsRec(e) BY ExceptIsRec DEF Shape, ClearSocketTimers
<1>2. /\ Alike(e, c, {"ackTimer", "renewalTimer", "expiryTimer", "ws", "generation"})
      /\ e.ackTimer = 0 /\ e.renewalTimer = 0 /\ e.expiryTimer = 0 /\ e.ws = 0 /\ e.generation = 0
  BY DEF Alike, Shape, IsRec, Names, ClearSocketTimers
<1> HIDE DEF e
<1>3. Typed(e) BY <1>2 DEF Typed, Alike, Names, Shape
<1>4. Shape(e) /\ c.ws \in {0} \cup Sockets BY <1>1, <1>3 DEF Shape, Typed
<1>5. Shape(d) /\ Alike(d, e, {"sockets"}) BY <1>4, CloseEffect
<1>6. \A i \in Sockets : Open(d, i) <=> Open(e, i) /\ i # c.ws BY <1>4, CloseEffect
<1> HIDE DEF d
<1>7. e.sockets = c.sockets /\ d.ws = 0 /\ d.generation = 0 BY <1>2, <1>5 DEF Alike, Names
<1>8. Down(d) BY <1>6, <1>7 DEF Down, OnlyOwn, Open
<1>9. Alike(d, c, {"ackTimer", "renewalTimer", "expiryTimer", "ws", "generation", "sockets"})
  BY <1>2, <1>5 DEF Alike
<1>10. d = InvalidateActiveSocket(c) BY DEF InvalidateActiveSocket, d, e
<1> QED BY <1>5, <1>8, <1>9, <1>10

\* Nor has it a socket or a timer before a new one is installed.
LEMMA UninstallEffect ==
  ASSUME NEW c, Shape(c), OnlyOwn(c)
  PROVE  LET d == Uninstall(c) IN
         /\ Shape(d) /\ Down(d)
         /\ Alike(d, c, {"ackTimer", "renewalTimer", "expiryTimer", "reconnectTimer",
                         "ws", "generation", "sockets"})
         /\ d.ackTimer = 0 /\ d.renewalTimer = 0 /\ d.expiryTimer = 0
         /\ \A i \in Sockets : Open(d, i) <=> Open(c, i) /\ i # c.ws
<1> DEFINE e == [ClearAllTimers(c) EXCEPT !.ws = 0, !.generation = 0]
           d == Close(e, c.ws)
<1> USE DEF ClearAllTimers, CancelReconnectTimer, ClearSocketTimers
<1>1. IsRec(e) BY ExceptIsRec DEF Shape
<1>2. /\ Alike(e, c, {"ackTimer", "renewalTimer", "expiryTimer", "reconnectTimer", "ws", "generation"})
      /\ e.ackTimer = 0 /\ e.renewalTimer = 0 /\ e.expiryTimer = 0 /\ e.reconnectTimer = 0
      /\ e.ws = 0 /\ e.generation = 0
  BY DEF Alike, Shape, IsRec, Names
<1> HIDE DEF e, ClearAllTimers, CancelReconnectTimer, ClearSocketTimers
<1>3. Typed(e) BY <1>2 DEF Typed, Alike, Names, Shape
<1>4. Shape(e) /\ c.ws \in {0} \cup Sockets BY <1>1, <1>3 DEF Shape, Typed
<1>5. Shape(d) /\ Alike(d, e, {"sockets"}) BY <1>4, CloseEffect
<1>6. \A i \in Sockets : Open(d, i) <=> Open(e, i) /\ i # c.ws BY <1>4, CloseEffect
<1> HIDE DEF d
<1>7. /\ e.sockets = c.sockets /\ d.ws = 0 /\ d.generation = 0
      /\ d.ackTimer = 0 /\ d.renewalTimer = 0 /\ d.expiryTimer = 0
  BY <1>2, <1>5 DEF Alike, Names
<1>8. \A i \in Sockets : Open(d, i) <=> Open(c, i) /\ i # c.ws BY <1>6, <1>7 DEF Open
<1>9. Down(d) BY <1>7, <1>8 DEF Down, OnlyOwn
<1>10. Alike(d, c, {"ackTimer", "renewalTimer", "expiryTimer", "reconnectTimer",
                    "ws", "generation", "sockets"})
  BY <1>2, <1>5 DEF Alike
<1>11. d = Uninstall(c) BY DEF Uninstall, d, e
<1> QED BY <1>5, <1>7, <1>8, <1>9, <1>10, <1>11

\* scheduleReconnect tells the application, and arms the timer whatever that does.
LEMMA ReconnectSound ==
  ASSUME NEW c, Sound(c), trouble \in Nat, NEW d \in ScheduleReconnect(c)
  PROVE  Sound(d) /\ Carries(d, c) /\ d.fabricated = c.fabricated
<1>1. CASE ~c.subscribed \/ c.disposed \/ c.retryHalted \/ c.reconnectTimer # 0
  <2>1. d = c BY <1>1 DEF ScheduleReconnect
  <2>2. Carries(c, c) BY DEF Carries
  <2> QED BY <2>1, <2>2
<1>2. CASE ~(~c.subscribed \/ c.disposed \/ c.retryHalted \/ c.reconnectTimer # 0)
  <2>1. PICK e \in EmitStatus(c, "RECONNECTING") : d = Arm(e, "reconnectTimer", Armed)
    BY <1>2 DEF ScheduleReconnect
  <2>2. Sound(e) /\ Keeps(e, c) BY <1>2, StatusSound DEF Sound
  <2>3. Shape(e) /\ e.reconnectTimer = 0 BY <1>2, <2>2 DEF Keeps, Inherits, Sound, Calm
  <2>4. Shape(d) /\ Alike(d, e, {"reconnectTimer"}) BY <2>1, <2>3, ArmEffect
  <2>5. /\ d.requests = e.requests /\ d.doubled = e.doubled /\ d.fabricated = e.fabricated
        /\ d.subscribed = e.subscribed /\ d.listening = e.listening
        /\ d.retryHalted = e.retryHalted /\ d.snapshot = e.snapshot /\ d.errorHeard = e.errorHeard
        /\ d.disposed = e.disposed /\ d.ws = e.ws /\ d.generation = e.generation
        /\ d.sockets = e.sockets /\ d.tokenRequestGeneration = e.tokenRequestGeneration
        /\ d.ackTimer = e.ackTimer /\ d.renewalTimer = e.renewalTimer /\ d.expiryTimer = e.expiryTimer
    BY <2>4 DEF Alike, Names
  <2> USE <2>2 DEF Sound, Calm
  <2>6. SocketSound(d) BY <2>5 DEF SocketSound, OnlyOwn, Open, Lists
  <2>7. TokenSound(d) /\ RequestsSound(d) BY <2>5 DEF TokenSound, RequestsSound, Lists
  <2>8. TimerSound(d) BY <2>5 DEF TimerSound
  <2>9. StreamSound(d) BY <2>5 DEF StreamSound, Acked, OwnStreams
  <2>10. Heeded(d) /\ Told(d) BY <2>5 DEF Heeded, Told
  <2>11. Carries(d, e) BY <2>5 DEF Carries
  <2>12. Carries(e, c) /\ e.fabricated = c.fabricated BY KeepsCarries
  <2>13. Carries(d, c) BY <2>11, <2>12, CarriesThrough
  <2> QED BY <2>4, <2>5, <2>6, <2>7, <2>8, <2>9, <2>10, <2>12, <2>13
<1> QED BY <1>1, <1>2

\* Retries are halted only when the socket is gone, and the application is told.
LEMMA HaltingIsSound ==
  ASSUME NEW c, Sound(c), Down(c), trouble \in Nat,
         NEW d \in EmitStatus([c EXCEPT !.retryHalted = TRUE], "CHANNEL_ERROR")
  PROVE  Sound(d) /\ Carries(d, c) /\ d.fabricated = c.fabricated
<1> DEFINE e == [c EXCEPT !.retryHalted = TRUE]
<1>0. Shape(c) BY DEF Sound, Calm
<1>1. IsRec(e) BY <1>0, ExceptIsRec DEF Shape
<1>2. Alike(e, c, {"retryHalted"}) /\ e.retryHalted = TRUE BY <1>0 DEF Alike, Shape, IsRec, Names
<1> HIDE DEF e
<1>3. Typed(e) BY <1>0, <1>2 DEF Typed, Alike, Names, Shape
<1>4. /\ e.requests = c.requests /\ e.doubled = c.doubled /\ e.fabricated = c.fabricated
      /\ e.subscribed = c.subscribed /\ e.listening = c.listening /\ e.disposed = c.disposed
      /\ e.ws = c.ws /\ e.generation = c.generation /\ e.sockets = c.sockets
      /\ e.tokenRequestGeneration = c.tokenRequestGeneration
  BY <1>2 DEF Alike, Names
<1>5. TokenSound(e) /\ RequestsSound(e)
  BY <1>4 DEF Sound, Calm, TokenSound, RequestsSound, Lists
<1>6. ~e.doubled /\ Heeded(e) BY <1>4 DEF Sound, Calm, TimerSound, Heeded
<1>7. Down(e) BY <1>4 DEF Down, Open
<1>8. Calm(e) BY <1>1, <1>3, <1>5, <1>6, <1>7, DownIsCalm DEF Shape
<1>9. d \in EmitStatus(e, "CHANNEL_ERROR") BY DEF e
<1>10. Sound(d) /\ Keeps(d, e) BY <1>2, <1>8, <1>9, StatusSound
<1>11. Carries(d, e) /\ d.fabricated = e.fabricated BY <1>10, KeepsCarries
<1>12. Carries(e, c) BY <1>4 DEF Carries
<1> QED BY <1>4, <1>10, <1>11, <1>12, CarriesThrough

\* A permanent failure halts the retries and says so.
LEMMA HaltSound ==
  ASSUME NEW c, Sound(c), trouble \in Nat, NEW d \in Halt(c)
  PROVE  Sound(d) /\ Carries(d, c) /\ d.fabricated = c.fabricated
<1> DEFINE e == InvalidateActiveSocket(c)
<1>1. /\ Shape(e) /\ Down(e)
      /\ Alike(e, c, {"ackTimer", "renewalTimer", "expiryTimer", "ws", "generation", "sockets"})
  BY InvalidateSocketEffect DEF Sound, Calm, SocketSound
<1>2. d \in EmitStatus([e EXCEPT !.retryHalted = TRUE], "CHANNEL_ERROR") BY DEF Halt
<1> HIDE DEF e
<1>3. Alike(e, c, Shed) /\ e.tokenRequestGeneration = c.tokenRequestGeneration
  BY <1>1 DEF Alike, Shed, Names
<1>4. Sound(e) /\ Carries(e, c) /\ e.fabricated = c.fabricated
  BY <1>1, <1>3, SheddingIsSound
<1>5. Sound(d) /\ Carries(d, e) /\ d.fabricated = e.fabricated
  BY <1>1, <1>2, <1>4, HaltingIsSound
<1> QED BY <1>4, <1>5, CarriesThrough

\* A sound channel that is given up is sound.
LEMMA GivenUpIsSound ==
  ASSUME NEW c, Sound(c), NEW d, GivenUp(d, c)
  PROVE  Sound(d) /\ Carries(d, c) /\ d.fabricated = c.fabricated
<1>1. /\ Shape(d) /\ Down(d) /\ Inherits(d, c) /\ TokenSound(d)
      /\ Told(d) /\ Heeded(d)
  BY DEF GivenUp, Sound, Calm
<1>2. RequestsSound(d) BY <1>1, RequestsInherited DEF Inherits, Sound, Calm
<1>3. ~d.doubled /\ d.fabricated = c.fabricated BY <1>1 DEF Inherits, Sound, Calm, TimerSound
<1>4. Calm(d) BY <1>1, <1>2, <1>3, DownIsCalm
<1>5. Carries(d, c) BY <1>1 DEF Carries, Down, Inherits
<1> QED BY <1>1, <1>3, <1>4, <1>5 DEF Sound

\* What may change when a token is asked for.
Asked == {"tokenRequest", "tokenRequestGeneration", "requests", "handle", "reconnectTimer", "user"}
\* Asking for a token leaves the channel sound.
LEMMA AskingIsSound ==
  ASSUME NEW c, Sound(c), NEW d, Shape(d), Alike(d, c, Asked), TokenSound(d),
         \A r \in Requests : d.requests[r] \in {c.requests[r], NoRequest, NewRequest}
  PROVE  Sound(d) /\ Carries(d, c) /\ d.fabricated = c.fabricated
<1>1. /\ d.doubled = c.doubled /\ d.fabricated = c.fabricated
      /\ d.subscribed = c.subscribed /\ d.listening = c.listening
      /\ d.retryHalted = c.retryHalted /\ d.snapshot = c.snapshot /\ d.errorHeard = c.errorHeard
      /\ d.disposed = c.disposed /\ d.ws = c.ws /\ d.generation = c.generation
      /\ d.sockets = c.sockets
      /\ d.ackTimer = c.ackTimer /\ d.renewalTimer = c.renewalTimer /\ d.expiryTimer = c.expiryTimer
  BY DEF Alike, Names, Asked
<1> USE DEF Sound, Calm
<1>2. SocketSound(d) BY <1>1 DEF SocketSound, OnlyOwn, Open, Lists
<1>3. RequestsSound(d) BY RequestsInherited
<1>4. TimerSound(d) BY <1>1 DEF TimerSound
<1>5. StreamSound(d) BY <1>1 DEF StreamSound, Acked, OwnStreams
<1>6. Heeded(d) /\ Told(d) BY <1>1 DEF Heeded, Told
<1>7. Carries(d, c) BY <1>1 DEF Carries
<1> QED BY <1>1, <1>2, <1>3, <1>4, <1>5, <1>6, <1>7

\* Starting a connection leaves the channel sound.
LEMMA StartSound ==
  ASSUME NEW c, Sound(c), CanStart(c)
  PROVE  LET d == StartConnection(c) IN
         Sound(d) /\ Carries(d, c) /\ d.fabricated = c.fabricated
<1> DEFINE d == StartConnection(c)
<1>1. /\ Shape(d)
      /\ Alike(d, c, {"tokenRequest", "tokenRequestGeneration", "requests"})
      /\ \A r \in Requests : d.requests[r] \in {c.requests[r], NewRequest}
      /\ TokenSound(d)
  BY StartEffect DEF Sound, Calm
<1> HIDE DEF d
<1>2. Alike(d, c, Asked) BY <1>1 DEF Alike, Asked
<1>3. \A r \in Requests : d.requests[r] \in {c.requests[r], NoRequest, NewRequest} BY <1>1
<1> QED BY <1>1, <1>2, <1>3, AskingIsSound DEF d

\* So does the second half of subscribe,
LEMMA SubscribedSound ==
  ASSUME NEW c, Sound(c), CanStart(c)
  PROVE  LET d == Subscribed(c) IN
         Sound(d) /\ Carries(d, c) /\ d.fabricated = c.fabricated
<1> DEFINE d == Subscribed(c)
<1>1. /\ Shape(d)
      /\ Alike(d, c, {"tokenRequest", "tokenRequestGeneration", "requests", "handle"})
      /\ \A r \in Requests : d.requests[r] \in {c.requests[r], NewRequest}
      /\ TokenSound(d)
  BY SubscribedEffect DEF Sound, Calm
<1> HIDE DEF d
<1>2. Alike(d, c, Asked) BY <1>1 DEF Alike, Asked
<1>3. \A r \in Requests : d.requests[r] \in {c.requests[r], NoRequest, NewRequest} BY <1>1
<1> QED BY <1>1, <1>2, <1>3, AskingIsSound DEF d

\* all of subscribe, whatever the callback did in between,
LEMMA SubscribeSound ==
  ASSUME NEW c, Sound(c), ~c.subscribed, ~c.disposed, FreeRequests(c) # {}, trouble \in Nat,
         NEW d \in Subscribe(c)
  PROVE  Sound(d) /\ Carries(d, c) /\ d.fabricated = c.fabricated
<1> DEFINE a == Subscribing(c)
<1>1. PICK e \in EmitStatus(a, "CONNECTING") : d = Subscribed(e) BY DEF Subscribe
<1>2. /\ Shape(a)
      /\ Alike(a, c, {"subscribed", "retryHalted", "listening", "handle"})
      /\ a.subscribed /\ ~a.retryHalted /\ a.listening
  BY SubscribingEffect DEF Sound, Calm
<1> HIDE DEF a
<1>3. /\ a.requests = c.requests /\ a.doubled = c.doubled /\ a.fabricated = c.fabricated
      /\ a.ws = c.ws /\ a.generation = c.generation /\ a.sockets = c.sockets
      /\ a.tokenRequestGeneration = c.tokenRequestGeneration
  BY <1>2 DEF Alike, Names
<1>4. Down(c) BY CalmIsReady DEF Sound, Ready
<1>5. Down(a) BY <1>3, <1>4 DEF Down, Open
<1>6. TokenSound(a) /\ RequestsSound(a)
  BY <1>3 DEF Sound, Calm, TokenSound, RequestsSound, Lists
<1>7. ~a.doubled BY <1>3 DEF Sound, Calm, TimerSound
<1>8. Calm(a) BY <1>2, <1>5, <1>6, <1>7, DownIsCalm DEF Heeded
<1>9. CanStart(a) BY <1>3 DEF CanStart, FreeRequests
<1>10. Sound(e) /\ Keeps(e, a) /\ CanStart(e)
  BY <1>2, <1>8, <1>9, StatusSound
<1>11. Carries(e, a) /\ e.fabricated = a.fabricated BY <1>10, KeepsCarries
<1>12. Carries(a, c) BY <1>3 DEF Carries
<1>13. Carries(e, c) BY <1>11, <1>12, CarriesThrough
<1>14. Sound(d) /\ Carries(d, e) /\ d.fabricated = e.fabricated
  BY <1>1, <1>10, SubscribedSound
<1> QED BY <1>3, <1>11, <1>13, <1>14, CarriesThrough

\* stopLifecycle,
LEMMA StopSound ==
  ASSUME NEW c, Sound(c), trouble \in Nat, NEW d \in StopLifecycle(c)
  PROVE  Sound(d) /\ Down(d) /\ Carries(d, c) /\ d.fabricated = c.fabricated
<1> DEFINE a == Stopped(c)
<1>1. PICK e \in EmitStatus(a, "CLOSED") : d = CallbackForgotten(e) BY DEF StopLifecycle
<1>2. /\ Shape(a)
      /\ ~a.subscribed /\ ~a.retryHalted
      /\ a.tokenRequestGeneration = 0
      /\ a.doubled = c.doubled /\ a.fabricated = c.fabricated /\ a.requests = c.requests
      /\ Down(a)
  BY StoppedEffect DEF Sound, Calm, SocketSound
<1> HIDE DEF a
<1>3. TokenSound(a) BY <1>2 DEF TokenSound, Lists
<1>4. Ready(a)
  <2>1. OnlyOwn(a) BY <1>2 DEF Down, OnlyOwn
  <2> QED BY <1>2, <1>3, <2>1 DEF Ready
<1>5. Emitted(e, a) BY <1>2, <1>4, StatusEmitted
<1>6. /\ Shape(e) /\ Down(e) /\ TokenSound(e)
      /\ e.doubled = c.doubled /\ e.fabricated = c.fabricated
      /\ \A r \in Requests : e.requests[r] \in {c.requests[r], NoRequest, NewRequest}
  <2>1. CASE Shape(e) /\ Alike(e, a, {"errorHeard"})
    <3>1. /\ e.requests = a.requests /\ e.doubled = a.doubled /\ e.fabricated = a.fabricated
          /\ e.ws = a.ws /\ e.generation = a.generation /\ e.sockets = a.sockets
          /\ e.subscribed = a.subscribed
          /\ e.tokenRequestGeneration = a.tokenRequestGeneration
      BY <2>1 DEF Alike, Names
    <3>2. Down(e) BY <1>2, <3>1 DEF Down, Open
    <3>3. TokenSound(e) BY <1>2, <3>1 DEF TokenSound, Lists
    <3> QED BY <1>2, <2>1, <3>1, <3>2, <3>3
  <2>2. CASE GivenUp(e, a) BY <1>2, <2>2 DEF GivenUp, Inherits
  <2> QED BY <1>5, <2>1, <2>2 DEF Emitted
<1>7. Shape(d) /\ Alike(d, e, {"listening"}) /\ ~d.listening
  BY <1>1, <1>6, ForgottenEffect
<1>8. /\ d.requests = e.requests /\ d.doubled = e.doubled /\ d.fabricated = e.fabricated
      /\ d.ws = e.ws /\ d.generation = e.generation /\ d.sockets = e.sockets
      /\ d.subscribed = e.subscribed /\ d.disposed = e.disposed
      /\ d.tokenRequestGeneration = e.tokenRequestGeneration
  BY <1>7 DEF Alike, Names
<1>9. Down(d) BY <1>6, <1>8 DEF Down, Open
<1>10. TokenSound(d) BY <1>6, <1>8 DEF TokenSound, Lists
<1>11. RequestsSound(d) BY <1>6, <1>8, RequestsInherited DEF Sound, Calm
<1>12. ~d.doubled BY <1>6, <1>8 DEF Sound, Calm, TimerSound
<1>13. Heeded(d) /\ Told(d) BY <1>7 DEF Heeded, Told
<1>14. Calm(d) BY <1>7, <1>9, <1>10, <1>11, <1>12, <1>13, DownIsCalm
<1>15. Carries(d, c) BY <1>6, <1>8, <1>9 DEF Carries, Down
<1> QED BY <1>6, <1>8, <1>9, <1>13, <1>14, <1>15 DEF Sound

\* and dispose.
LEMMA DisposeSound ==
  ASSUME NEW c, Sound(c), trouble \in Nat, NEW d \in Dispose(c)
  PROVE  Sound(d) /\ Carries(d, c) /\ d.fabricated = c.fabricated
<1>1. PICK e \in IF c.subscribed THEN StopLifecycle(c) ELSE {Released(c)} : d = Disposed(e)
  BY DEF Dispose
<1>2. Sound(e) /\ Down(e) /\ Carries(e, c) /\ e.fabricated = c.fabricated
  <2>1. CASE c.subscribed BY <1>1, <2>1, StopSound
  <2>2. CASE ~c.subscribed
    <3>1. GivenUp(e, c) BY <1>1, <2>2, ReleasedGivenUp DEF Sound, Calm, SocketSound
    <3> QED BY <3>1, GivenUpIsSound DEF GivenUp
  <2> QED BY <2>1, <2>2
<1>3. GivenUp(d, e) BY <1>1, <1>2, DisposedGivenUp DEF Sound, Calm
<1>4. Sound(d) /\ Carries(d, e) /\ d.fabricated = e.fabricated BY <1>2, <1>3, GivenUpIsSound
<1> QED BY <1>2, <1>4, CarriesThrough

\* An identity change makes what has begun outdated, and nothing else.
LEMMA OutdatedEffect ==
  ASSUME NEW c, Shape(c)
  PROVE  LET d == Outdated(c) IN
         /\ Shape(d) /\ Alike(d, c, {"requests", "sockets"})
         /\ \A r \in Requests :
              /\ d.requests[r].pc = c.requests[r].pc /\ d.requests[r].session = c.requests[r].session
              /\ c.requests[r].pc # "free" => d.requests[r].stale
         /\ \A i \in Sockets : Open(d, i) <=> Open(c, i)
<1> DEFINE d == Outdated(c)
           v == [r \in Requests |-> IF c.requests[r].pc = "free" THEN c.requests[r]
                                    ELSE [c.requests[r] EXCEPT !.stale = TRUE]]
           w == [i \in Sockets |->
                   IF c.sockets[i].phase = "free" \/ c.sockets[i].closed THEN c.sockets[i]
                   ELSE [c.sockets[i] EXCEPT !.stale = TRUE]]
<1>1. d = [c EXCEPT !.requests = v, !.sockets = w] BY DEF Outdated
<1>2. ASSUME NEW r \in Requests
      PROVE  /\ v[r] \in Request /\ v[r].pc = c.requests[r].pc
             /\ v[r].session = c.requests[r].session
             /\ c.requests[r].pc # "free" => v[r].stale
  <2>1. c.requests[r] \in Request BY DEF Shape, Typed
  <2> QED BY <2>1 DEF Request
<1>3. ASSUME NEW i \in Sockets
      PROVE  /\ w[i] \in Socket /\ w[i].phase = c.sockets[i].phase
             /\ w[i].closed = c.sockets[i].closed
  <2>1. c.sockets[i] \in Socket BY DEF Shape, Typed
  <2> QED BY <2>1 DEF Socket
<1>4. v \in [Requests -> Request] /\ w \in [Sockets -> Socket] BY <1>2, <1>3
<1> HIDE DEF v, w, d
<1>5. IsRec(d) BY <1>1, ExceptIsRec DEF Shape
<1>6. Alike(d, c, {"requests", "sockets"}) /\ d.requests = v /\ d.sockets = w
  BY <1>1 DEF Alike, Shape, IsRec, Names
<1>7. Typed(d) BY <1>4, <1>6 DEF Typed, Alike, Names, Shape
<1>8. \A i \in Sockets : Open(d, i) <=> Open(c, i) BY <1>3, <1>6 DEF Open
<1> QED BY <1>2, <1>5, <1>6, <1>7, <1>8 DEF Shape, d

\* A change of identity leaves no socket, and no request of the past counts.
LEMMA IdentityChangeSound ==
  ASSUME NEW c, Sound(c), FreeRequests(c) # {}, trouble \in Nat,
         NEW d \in HandleIdentityChange(Outdated(c))
  PROVE  Sound(d) /\ Carries(d, Outdated(c)) /\ d.ws = 0 /\ d.fabricated = c.fabricated
<1> DEFINE o == Outdated(c)
<1>1. /\ Shape(o) /\ Alike(o, c, {"requests", "sockets"})
      /\ \A r \in Requests : /\ o.requests[r].pc = c.requests[r].pc
                              /\ o.requests[r].session = c.requests[r].session
      /\ \A i \in Sockets : Open(o, i) <=> Open(c, i)
  BY OutdatedEffect DEF Sound, Calm
<1> HIDE DEF o
<1>2. /\ o.subscribed = c.subscribed /\ o.disposed = c.disposed /\ o.listening = c.listening
      /\ o.retryHalted = c.retryHalted /\ o.errorHeard = c.errorHeard
      /\ o.doubled = c.doubled /\ o.fabricated = c.fabricated
      /\ o.ws = c.ws /\ o.generation = c.generation
      /\ o.tokenRequestGeneration = c.tokenRequestGeneration
  BY <1>1 DEF Alike, Names
<1>3. RequestsSound(o) BY <1>1 DEF RequestsSound, Sound, Calm
<1>4. ~o.doubled /\ Heeded(o) BY <1>2 DEF Sound, Calm, TimerSound, Heeded
<1>5. FreeRequests(o) # {} BY <1>1 DEF FreeRequests
<1>6. CASE ~o.subscribed \/ o.disposed
  <2>1. d = o BY <1>6 DEF HandleIdentityChange, o
  <2>2. Down(o)
    <3>1. o.ws = 0 /\ o.generation = 0 BY <1>2, <1>6 DEF Sound, Calm, SocketSound, Lists
    <3>2. \A i \in Sockets : ~Open(o, i)
      BY <1>1, <1>2, <3>1 DEF Sound, Calm, SocketSound, OnlyOwn, Sockets
    <3> QED BY <3>1, <3>2 DEF Down
  <2>3. TokenSound(o) BY <1>2, <1>6 DEF TokenSound, Sound, Calm, Lists
  <2>4. Told(o) BY <1>2 DEF Sound, Told
  <2>5. Calm(o) BY <1>1, <1>3, <1>4, <2>2, <2>3, DownIsCalm
  <2>6. Carries(o, o) BY DEF Carries
  <2> QED BY <1>2, <2>1, <2>2, <2>4, <2>5, <2>6 DEF Sound, Down, o
<1>7. CASE ~(~o.subscribed \/ o.disposed)
  <2> DEFINE a == InvalidateTokenRequest(CancelReconnectTimer(o))
             b == InvalidateActiveSocket(a)
             e == [b EXCEPT !.retryHalted = FALSE, !.snapshot = NoSnapshot]
  <2>1. PICK f \in EmitStatus(e, "CONNECTING") : d = StartConnection(f)
    BY <1>7 DEF HandleIdentityChange, o
  <2>2. IsRec(a) BY <1>1, ExceptIsRec DEF Shape, InvalidateTokenRequest, CancelReconnectTimer
  <2>3. /\ Alike(a, o, {"tokenRequest", "tokenRequestGeneration", "reconnectTimer"})
        /\ a.tokenRequest = 0 /\ a.tokenRequestGeneration = 0 /\ a.reconnectTimer = 0
    BY <1>1 DEF Alike, Shape, IsRec, Names, InvalidateTokenRequest, CancelReconnectTimer
  <2> HIDE DEF a
  <2>4. Typed(a) BY <1>1, <2>3 DEF Typed, Alike, Names, Shape
  <2>5. Shape(a) BY <2>2, <2>4 DEF Shape
  <2>6. OnlyOwn(a)
    <3>1. a.sockets = o.sockets /\ a.ws = o.ws BY <2>3 DEF Alike, Names
    <3> QED BY <1>1, <1>2, <3>1 DEF Sound, Calm, SocketSound, OnlyOwn, Open
  <2>7. /\ Shape(b) /\ Down(b)
        /\ Alike(b, a, {"ackTimer", "renewalTimer", "expiryTimer", "ws", "generation", "sockets"})
    BY <2>5, <2>6, InvalidateSocketEffect
  <2> HIDE DEF b
  <2>8. IsRec(e) BY <2>7, ExceptIsRec DEF Shape
  <2>9. /\ Alike(e, b, {"retryHalted", "snapshot"}) /\ e.retryHalted = FALSE
        /\ e.snapshot = NoSnapshot
    BY <2>7 DEF Alike, Shape, IsRec, Names
  <2> HIDE DEF e
  <2>10. Typed(e) BY <2>7, <2>9, SnapshotTyped DEF Typed, Alike, Names, Shape
  <2>11. /\ e.ws = b.ws /\ e.generation = b.generation /\ e.sockets = b.sockets
         /\ e.requests = o.requests /\ e.doubled = o.doubled /\ e.fabricated = o.fabricated
         /\ e.subscribed = o.subscribed /\ e.listening = o.listening
         /\ e.tokenRequestGeneration = 0
    BY <2>3, <2>7, <2>9 DEF Alike, Names
  <2>12. Down(e) BY <2>7, <2>11 DEF Down, Open
  <2>13. TokenSound(e) BY <2>11 DEF TokenSound
  <2>14. RequestsSound(e) BY <1>3, <2>11 DEF RequestsSound
  <2>15. ~e.doubled /\ Heeded(e) BY <1>4, <2>11 DEF Heeded
  <2>16. Calm(e) BY <2>8, <2>10, <2>12, <2>13, <2>14, <2>15, DownIsCalm DEF Shape
  <2>17. CanStart(e) BY <1>5, <2>11 DEF CanStart, FreeRequests
  <2>18. Sound(f) /\ Keeps(f, e) /\ CanStart(f)
    BY <2>9, <2>16, <2>17, StatusSound
  <2>19. Carries(f, e) /\ f.fabricated = e.fabricated BY <2>18, KeepsCarries
  <2>20. Carries(e, o) BY <2>11, <2>12 DEF Carries, Down
  <2>21. Sound(d) /\ Carries(d, f) /\ d.fabricated = f.fabricated
    BY <2>1, <2>18, StartSound
  <2>22. Carries(d, o) BY <2>19, <2>20, <2>21, CarriesThrough
  <2>23. d.ws = 0 BY <2>12, <2>19, <2>21 DEF Carries, Down
  <2> QED BY <1>2, <2>11, <2>19, <2>21, <2>22, <2>23 DEF o
<1> QED BY <1>6, <1>7

\* A settled request frees its place, and its generation if it still had it.
LEMMA SettledSound ==
  ASSUME NEW c, Sound(c), NEW r \in Requests
  PROVE  LET d == Settled(c, r) IN
         Sound(d) /\ Carries(d, c) /\ d.fabricated = c.fabricated
<1> DEFINE d == Settled(c, r)
           v == [c.requests EXCEPT ![r] = NoRequest]
           w == IF c.tokenRequest = r THEN 0 ELSE c.tokenRequest
<1>0. Shape(c) BY DEF Sound, Calm
<1>1. d = [c EXCEPT !.requests = v, !.tokenRequest = w] BY <1>0 DEF Settled, Shape, IsRec, Names
<1>2. NoRequest \in Request /\ ~NoRequest.stale BY Zero DEF NoRequest, Request
<1>3. /\ v \in [Requests -> Request]
      /\ \A q \in Requests : v[q] = IF q = r THEN NoRequest ELSE c.requests[q]
  BY <1>0, <1>2 DEF Shape, Typed
<1>4. w \in {0} \cup Requests BY <1>0 DEF Shape, Typed
<1> HIDE DEF v, w, d
<1>5. IsRec(d) BY <1>0, <1>1, ExceptIsRec DEF Shape
<1>6. Alike(d, c, {"requests", "tokenRequest"}) /\ d.requests = v /\ d.tokenRequest = w
  BY <1>0, <1>1 DEF Alike, Shape, IsRec, Names
<1>7. Typed(d) BY <1>0, <1>3, <1>4, <1>6 DEF Typed, Alike, Names, Shape
<1>8. TokenSound(d)
  <2>1. /\ d.subscribed = c.subscribed /\ d.disposed = c.disposed
        /\ d.tokenRequestGeneration = c.tokenRequestGeneration
    BY <1>6 DEF Alike, Names
  <2>2. c.tokenRequestGeneration \in {0} \cup Requests BY <1>0 DEF Shape, Typed
  <2> QED BY <1>2, <1>3, <1>6, <2>1, <2>2 DEF TokenSound, Sound, Calm, Lists
<1>9. Alike(d, c, Asked) BY <1>6 DEF Alike, Asked
<1>10. \A q \in Requests : d.requests[q] \in {c.requests[q], NoRequest, NewRequest} BY <1>3, <1>6
<1> QED BY <1>5, <1>7, <1>8, <1>9, <1>10, AskingIsSound DEF Shape, d

\* The request under way is of the identity in force, and so is its socket.
LEMMA InstallSound ==
  ASSUME NEW c, Sound(c), NEW r \in Requests, IsTokenRequestCurrent(c, r), FreeSockets(c) # {}
  PROVE  LET d == Install(c, r) IN
         /\ Sound(d) /\ d.fabricated = c.fabricated /\ d.requests = c.requests
         /\ d.ws # 0 /\ d.sockets[d.ws].session = c.requests[r].session
         /\ ~c.requests[r].stale
<1> DEFINE e == Uninstall(c)
           i == CHOOSE x \in FreeSockets(c) : TRUE
           n == [phase |-> "connecting", session |-> c.requests[r].session,
                 stale |-> c.requests[r].stale, closed |-> FALSE]
           v == [e.sockets EXCEPT ![i] = n]
           d == Install(c, r)
<1>0. Shape(c) /\ OnlyOwn(c) /\ Lists(c) /\ c.tokenRequestGeneration = r
  BY DEF Sound, Calm, SocketSound, IsTokenRequestCurrent, Lists
<1>1. i \in Sockets /\ i # 0 BY DEF FreeSockets, Sockets
<1>2. ~c.requests[r].stale /\ c.requests[r] \in Request
  <2>1. r # 0 BY DEF Requests
  <2> QED BY <1>0, <2>1 DEF Sound, Calm, TokenSound, Shape, Typed
<1>3. n \in Socket BY <1>2 DEF Socket, Request
<1>4. /\ Shape(e) /\ Down(e)
      /\ Alike(e, c, {"ackTimer", "renewalTimer", "expiryTimer", "reconnectTimer",
                      "ws", "generation", "sockets"})
      /\ e.ackTimer = 0 /\ e.renewalTimer = 0 /\ e.expiryTimer = 0
  BY <1>0, UninstallEffect
<1>5. d = [e EXCEPT !.ws = i, !.generation = i, !.sockets = v]
  BY DEF Install
<1>6. n.phase = "connecting" /\ n.session = c.requests[r].session
      /\ n.stale = c.requests[r].stale /\ n.closed = FALSE
  OBVIOUS
<1> HIDE DEF e, i, n
<1>7. /\ v \in [Sockets -> Socket]
      /\ \A j \in Sockets : v[j] = IF j = i THEN n ELSE e.sockets[j]
  BY <1>1, <1>3, <1>4 DEF Shape, Typed
<1> HIDE DEF v, d
<1>8. IsRec(d) BY <1>4, <1>5, ExceptIsRec DEF Shape
<1>9. Alike(d, e, {"ws", "generation", "sockets"}) /\ d.ws = i /\ d.generation = i /\ d.sockets = v
  BY <1>4, <1>5 DEF Alike, Shape, IsRec, Names
<1>10. Typed(d) BY <1>1, <1>4, <1>7, <1>9 DEF Typed, Alike, Names, Shape
<1>11. /\ d.subscribed = c.subscribed /\ d.disposed = c.disposed /\ d.listening = c.listening
       /\ d.retryHalted = c.retryHalted /\ d.errorHeard = c.errorHeard
       /\ d.doubled = c.doubled /\ d.fabricated = c.fabricated /\ d.requests = c.requests
       /\ d.tokenRequestGeneration = c.tokenRequestGeneration
       /\ d.ackTimer = 0 /\ d.renewalTimer = 0 /\ d.expiryTimer = 0
  BY <1>4, <1>9 DEF Alike, Names
<1>12. d.sockets[d.ws] = n BY <1>1, <1>7, <1>9
<1> USE DEF Sound, Calm
<1>13. SocketSound(d)
  <2>1. Open(d, d.ws) /\ ~d.sockets[d.ws].stale BY <1>2, <1>6, <1>12 DEF Open
  <2>2. OnlyOwn(d) BY <1>4, <1>7, <1>9 DEF OnlyOwn, Open, Down
  <2> QED BY <2>1, <2>2, <1>0, <1>9, <1>11 DEF SocketSound, Lists
<1>14. TokenSound(d) /\ RequestsSound(d) BY <1>11 DEF TokenSound, RequestsSound, Lists
<1>15. TimerSound(d) BY <1>11 DEF TimerSound
<1>16. StreamSound(d) BY <1>6, <1>12 DEF StreamSound, Acked
<1>17. Heeded(d) /\ Told(d) BY <1>11 DEF Heeded, Told
<1> QED BY <1>1, <1>2, <1>6, <1>8, <1>9, <1>10, <1>11, <1>12, <1>13, <1>14, <1>15, <1>16, <1>17
        DEF Shape, d

\* A socket in its next phase.
Phased(c, i, p) == [c EXCEPT !.sockets[i].phase = p]
\* A socket changes its phase.
LEMMA PhaseEffect ==
  ASSUME NEW c, Shape(c), NEW i \in Sockets, NEW p \in {"open", "acked"}
  PROVE  LET d == Phased(c, i, p) IN
         /\ Shape(d) /\ Alike(d, c, {"sockets"})
         /\ \A j \in Sockets : j # i => d.sockets[j] = c.sockets[j]
         /\ d.sockets[i].phase = p /\ d.sockets[i].session = c.sockets[i].session
         /\ d.sockets[i].stale = c.sockets[i].stale /\ d.sockets[i].closed = c.sockets[i].closed
<1> DEFINE d == Phased(c, i, p)
           n == [c.sockets[i] EXCEPT !.phase = p]
           v == [c.sockets EXCEPT ![i] = n]
<1>1. d = [c EXCEPT !.sockets = v] BY DEF Phased
<1>2. c.sockets[i] \in Socket BY DEF Shape, Typed
<1>3. /\ n \in Socket /\ n.phase = p /\ n.session = c.sockets[i].session
      /\ n.stale = c.sockets[i].stale /\ n.closed = c.sockets[i].closed
  BY <1>2 DEF Socket
<1> HIDE DEF n
<1>4. /\ v \in [Sockets -> Socket]
      /\ \A j \in Sockets : v[j] = IF j = i THEN n ELSE c.sockets[j]
  BY <1>3 DEF Shape, Typed
<1> HIDE DEF v, d
<1>5. IsRec(d) BY <1>1, ExceptIsRec DEF Shape
<1>6. Alike(d, c, {"sockets"}) /\ d.sockets = v BY <1>1 DEF Alike, Shape, IsRec, Names
<1>7. Typed(d) BY <1>4, <1>6 DEF Typed, Alike, Names, Shape
<1> QED BY <1>3, <1>4, <1>5, <1>6, <1>7 DEF Shape, d

\* A socket's last event frees its place.
LEMMA ClosedEffect ==
  ASSUME NEW c, Shape(c), NEW i \in Sockets
  PROVE  LET d == Closed(c, i) IN
         /\ Shape(d) /\ Alike(d, c, {"sockets"})
         /\ \A j \in Sockets : j # i => d.sockets[j] = c.sockets[j]
         /\ ~Open(d, i)
<1> DEFINE d == Closed(c, i)
           v == [c.sockets EXCEPT ![i] = NoSocket]
<1>1. d = [c EXCEPT !.sockets = v] BY DEF Closed
<1>2. NoSocket \in Socket /\ NoSocket.phase = "free" BY Zero DEF Socket, NoSocket
<1>3. /\ v \in [Sockets -> Socket]
      /\ \A j \in Sockets : v[j] = IF j = i THEN NoSocket ELSE c.sockets[j]
  BY <1>2 DEF Shape, Typed
<1> HIDE DEF v, d
<1>4. IsRec(d) BY <1>1, ExceptIsRec DEF Shape
<1>5. Alike(d, c, {"sockets"}) /\ d.sockets = v BY <1>1 DEF Alike, Shape, IsRec, Names
<1>6. Typed(d) BY <1>3, <1>5 DEF Typed, Alike, Names, Shape
<1>7. ~Open(d, i) BY <1>2, <1>3, <1>5 DEF Open
<1> QED BY <1>3, <1>4, <1>5, <1>6, <1>7 DEF Shape, d

\* What a socket that is not the channel's delivers changes nothing else.
LEMMA StraySound ==
  ASSUME NEW c, Sound(c), NEW i \in Sockets, i # c.ws,
         NEW d, Shape(d), Alike(d, c, {"sockets"}),
         \A j \in Sockets : j # i => d.sockets[j] = c.sockets[j], Open(d, i) => Open(c, i)
  PROVE  Sound(d) /\ Carries(d, c) /\ d.fabricated = c.fabricated
<1>1. /\ d.subscribed = c.subscribed /\ d.disposed = c.disposed /\ d.listening = c.listening
      /\ d.retryHalted = c.retryHalted /\ d.errorHeard = c.errorHeard /\ d.snapshot = c.snapshot
      /\ d.doubled = c.doubled /\ d.fabricated = c.fabricated /\ d.requests = c.requests
      /\ d.ws = c.ws /\ d.generation = c.generation
      /\ d.tokenRequestGeneration = c.tokenRequestGeneration
      /\ d.ackTimer = c.ackTimer /\ d.renewalTimer = c.renewalTimer /\ d.expiryTimer = c.expiryTimer
  BY DEF Alike, Names
<1> USE DEF Sound, Calm
<1>2. d.ws # 0 => d.sockets[d.ws] = c.sockets[c.ws] BY <1>1 DEF Shape, Typed
<1>3. SocketSound(d)
  <2>1. OnlyOwn(d) BY <1>1 DEF SocketSound, OnlyOwn, Open
  <2> QED BY <2>1, <1>1, <1>2 DEF SocketSound, Open, Lists
<1>4. TokenSound(d) /\ RequestsSound(d) BY <1>1 DEF TokenSound, RequestsSound, Lists
<1>5. TimerSound(d) BY <1>1, <1>2 DEF TimerSound
<1>6. StreamSound(d) BY <1>1, <1>2 DEF StreamSound, Acked, OwnStreams
<1>7. Heeded(d) /\ Told(d) BY <1>1 DEF Heeded, Told
<1>8. Carries(d, c) BY <1>1, <1>2 DEF Carries
<1> QED BY <1>1, <1>3, <1>4, <1>5, <1>6, <1>7, <1>8

\* The socket whose events count is the channel's.
LEMMA CurrentSocket ==
  ASSUME NEW c, Sound(c), NEW i \in Sockets
  PROVE  IsSocketCurrent(c, i) <=> c.ws = i
<1>1. i # 0 BY DEF Sockets
<1> QED BY <1>1 DEF Sound, Calm, SocketSound, IsSocketCurrent, Lists

\* A timer that fires may be forgotten.
LEMMA TimerOffSound ==
  ASSUME NEW c, Sound(c), NEW f \in {"ackTimer", "renewalTimer", "expiryTimer"}
  PROVE  LET d == [c EXCEPT ![f] = 0] IN
         /\ Sound(d) /\ Carries(d, c) /\ d.fabricated = c.fabricated
         /\ Alike(d, c, {f})
<1> DEFINE d == [c EXCEPT ![f] = 0]
<1>0. Shape(c) /\ f \in Names BY DEF Sound, Calm, Names
<1>1. IsRec(d) BY <1>0, ExceptIsRec DEF Shape
<1>2. Alike(d, c, {f}) /\ d[f] = 0 BY <1>0 DEF Shape, IsRec, Alike
<1> HIDE DEF d
<1>3. /\ d.ackTimer \in {0, c.ackTimer} /\ d.renewalTimer \in {0, c.renewalTimer}
      /\ d.expiryTimer \in {0, c.expiryTimer}
  BY <1>2 DEF Alike, Names
<1>4. Alike(d, c, {"ackTimer", "renewalTimer", "expiryTimer"}) BY <1>2 DEF Alike
<1>5. Typed(d) BY <1>0, <1>3, <1>4 DEF Typed, Alike, Names, Shape
<1>6. /\ d.subscribed = c.subscribed /\ d.disposed = c.disposed /\ d.listening = c.listening
      /\ d.retryHalted = c.retryHalted /\ d.errorHeard = c.errorHeard /\ d.snapshot = c.snapshot
      /\ d.doubled = c.doubled /\ d.fabricated = c.fabricated /\ d.requests = c.requests
      /\ d.ws = c.ws /\ d.generation = c.generation /\ d.sockets = c.sockets
      /\ d.tokenRequestGeneration = c.tokenRequestGeneration
  BY <1>4 DEF Alike, Names
<1> USE DEF Sound, Calm
<1>7. SocketSound(d) BY <1>6 DEF SocketSound, OnlyOwn, Open, Lists
<1>8. TokenSound(d) /\ RequestsSound(d) BY <1>6 DEF TokenSound, RequestsSound, Lists
<1>9. TimerSound(d) BY <1>3, <1>6 DEF TimerSound
<1>10. StreamSound(d) BY <1>6 DEF StreamSound, Acked, OwnStreams
<1>11. Heeded(d) /\ Told(d) BY <1>6 DEF Heeded, Told
<1>12. Carries(d, c) BY <1>6 DEF Carries
<1> QED BY <1>1, <1>2, <1>5, <1>6, <1>7, <1>8, <1>9, <1>10, <1>11, <1>12 DEF Shape, d

\* Giving up the socket leaves the channel sound.
LEMMA DropSocketSound ==
  ASSUME NEW c, Sound(c)
  PROVE  LET d == InvalidateActiveSocket(c) IN
         /\ Sound(d) /\ Down(d) /\ Carries(d, c) /\ d.fabricated = c.fabricated
         /\ d.requests = c.requests /\ d.retryHalted = c.retryHalted /\ d.listening = c.listening
<1> DEFINE d == InvalidateActiveSocket(c)
<1>1. /\ Shape(d) /\ Down(d)
      /\ Alike(d, c, {"ackTimer", "renewalTimer", "expiryTimer", "ws", "generation", "sockets"})
  BY InvalidateSocketEffect DEF Sound, Calm, SocketSound
<1> HIDE DEF d
<1>2. /\ d.requests = c.requests /\ d.retryHalted = c.retryHalted /\ d.listening = c.listening
      /\ d.tokenRequestGeneration = c.tokenRequestGeneration
  BY <1>1 DEF Alike, Names
<1>3. Alike(d, c, Shed) BY <1>1 DEF Alike, Shed
<1> QED BY <1>1, <1>2, <1>3, SheddingIsSound DEF d

\* The acknowledgment of a socket that opened is timed, and was not before.
LEMMA OpenedSound ==
  ASSUME NEW c, Sound(c), NEW i \in Sockets, c.ws = i, c.sockets[i].phase = "connecting"
  PROVE  LET d == Arm([c EXCEPT !.sockets[i].phase = "open"], "ackTimer", i) IN
         Sound(d) /\ Carries(d, c) /\ d.fabricated = c.fabricated
<1> DEFINE a == Phased(c, i, "open")
           d == Arm(a, "ackTimer", i)
<1>0. i # 0 /\ Shape(c) BY DEF Sockets, Sound, Calm
<1>1. /\ Shape(a) /\ Alike(a, c, {"sockets"})
      /\ \A j \in Sockets : j # i => a.sockets[j] = c.sockets[j]
      /\ a.sockets[i].phase = "open" /\ a.sockets[i].session = c.sockets[i].session
      /\ a.sockets[i].stale = c.sockets[i].stale /\ a.sockets[i].closed = c.sockets[i].closed
  BY <1>0, PhaseEffect
<1> HIDE DEF a
<1>2. a.ackTimer = 0
  <2>1. c.ackTimer = 0 BY <1>0 DEF Sound, Calm, TimerSound
  <2> QED BY <2>1, <1>1 DEF Alike, Names
<1>3. Shape(d) /\ Alike(d, a, {"ackTimer"}) BY <1>1, <1>2, ArmEffect
<1> HIDE DEF d
<1>4. /\ d.subscribed = c.subscribed /\ d.disposed = c.disposed /\ d.listening = c.listening
      /\ d.retryHalted = c.retryHalted /\ d.errorHeard = c.errorHeard /\ d.snapshot = c.snapshot
      /\ d.doubled = c.doubled /\ d.fabricated = c.fabricated /\ d.requests = c.requests
      /\ d.ws = c.ws /\ d.generation = c.generation /\ d.sockets = a.sockets
      /\ d.tokenRequestGeneration = c.tokenRequestGeneration
      /\ d.renewalTimer = c.renewalTimer /\ d.expiryTimer = c.expiryTimer
  BY <1>1, <1>3 DEF Alike, Names
<1> USE DEF Sound, Calm
<1>5. SocketSound(d)
  <2>1. OnlyOwn(d) BY <1>1, <1>4 DEF SocketSound, OnlyOwn, Open
  <2> QED BY <2>1, <1>0, <1>1, <1>4 DEF SocketSound, Open, Lists
<1>6. TokenSound(d) /\ RequestsSound(d) BY <1>4 DEF TokenSound, RequestsSound, Lists
<1>7. TimerSound(d) BY <1>0, <1>1, <1>4 DEF TimerSound
<1>8. StreamSound(d) BY <1>1, <1>4 DEF StreamSound, Acked
<1>9. Heeded(d) /\ Told(d) BY <1>4 DEF Heeded, Told
<1>10. Carries(d, c) BY <1>1, <1>4 DEF Carries
<1>11. d = Arm([c EXCEPT !.sockets[i].phase = "open"], "ackTimer", i) BY DEF d, a, Phased
<1> QED BY <1>3, <1>4, <1>5, <1>6, <1>7, <1>8, <1>9, <1>10, <1>11

\* Both timers of a socket, armed when neither is pending.
LEMMA TimersArmedSound ==
  ASSUME NEW c, Sound(c), NEW i \in Sockets, c.ws # 0 => Acked(c),
         c.renewalTimer = 0, c.expiryTimer = 0
  PROVE  LET d == Arm(Arm(c, "renewalTimer", i), "expiryTimer", i) IN
         Sound(d) /\ Carries(d, c) /\ d.fabricated = c.fabricated
<1> DEFINE a == Arm(c, "renewalTimer", i)
           d == Arm(a, "expiryTimer", i)
<1>1. Shape(a) /\ Alike(a, c, {"renewalTimer"}) BY ArmEffect DEF Sound, Calm
<1> HIDE DEF a
<1>2. a.expiryTimer = 0 BY <1>1 DEF Alike, Names
<1>3. Shape(d) /\ Alike(d, a, {"expiryTimer"}) BY <1>1, <1>2, ArmEffect
<1> HIDE DEF d
<1>4. /\ d.subscribed = c.subscribed /\ d.disposed = c.disposed /\ d.listening = c.listening
      /\ d.retryHalted = c.retryHalted /\ d.errorHeard = c.errorHeard /\ d.snapshot = c.snapshot
      /\ d.doubled = c.doubled /\ d.fabricated = c.fabricated /\ d.requests = c.requests
      /\ d.ws = c.ws /\ d.generation = c.generation /\ d.sockets = c.sockets
      /\ d.tokenRequestGeneration = c.tokenRequestGeneration /\ d.ackTimer = c.ackTimer
  BY <1>1, <1>3 DEF Alike, Names
<1> USE DEF Sound, Calm
<1>5. SocketSound(d) BY <1>4 DEF SocketSound, OnlyOwn, Open, Lists
<1>6. TokenSound(d) /\ RequestsSound(d) BY <1>4 DEF TokenSound, RequestsSound, Lists
<1>7. TimerSound(d) BY <1>4 DEF TimerSound, Acked
<1>8. StreamSound(d) BY <1>4 DEF StreamSound, Acked, OwnStreams
<1>9. Heeded(d) /\ Told(d) BY <1>4 DEF Heeded, Told
<1>10. Carries(d, c) BY <1>4 DEF Carries
<1> QED BY <1>3, <1>4, <1>5, <1>6, <1>7, <1>8, <1>9, <1>10 DEF d, a

\* connection_ack begins with an empty snapshot and without renewal or expiry timers.
LEMMA AcknowledgedCalm ==
  ASSUME NEW c, Sound(c), NEW i \in Sockets, c.ws = i, c.sockets[i].phase = "open"
  PROVE  LET d == Acknowledged([c EXCEPT !.sockets[i].phase = "acked"]) IN
         /\ Calm(d) /\ Carries(d, c) /\ d.fabricated = c.fabricated
         /\ ~d.retryHalted /\ d.renewalTimer = 0 /\ d.expiryTimer = 0 /\ Acked(d)
<1> DEFINE a == Phased(c, i, "acked")
           d == Acknowledged(a)
<1>0. i # 0 /\ Shape(c) BY DEF Sockets, Sound, Calm
<1>1. /\ Shape(a) /\ Alike(a, c, {"sockets"})
      /\ \A j \in Sockets : j # i => a.sockets[j] = c.sockets[j]
      /\ a.sockets[i].phase = "acked" /\ a.sockets[i].session = c.sockets[i].session
      /\ a.sockets[i].stale = c.sockets[i].stale /\ a.sockets[i].closed = c.sockets[i].closed
  BY <1>0, PhaseEffect
<1> HIDE DEF a
<1>2. IsRec(d) BY <1>1, ExceptIsRec DEF Shape, Acknowledged
<1>3. /\ Alike(d, a, {"ackTimer", "retryHalted", "snapshot"})
      /\ d.ackTimer = 0 /\ d.retryHalted = FALSE /\ d.snapshot = NoSnapshot
  BY <1>1 DEF Alike, Shape, IsRec, Names, Acknowledged
<1> HIDE DEF d
<1>4. Typed(d) BY <1>1, <1>3, SnapshotTyped, ZenonT(60) DEF Typed, Alike, Names, Shape
<1>5. /\ d.subscribed = c.subscribed /\ d.disposed = c.disposed /\ d.listening = c.listening
      /\ d.doubled = c.doubled /\ d.fabricated = c.fabricated /\ d.requests = c.requests
      /\ d.ws = c.ws /\ d.generation = c.generation /\ d.sockets = a.sockets
      /\ d.tokenRequestGeneration = c.tokenRequestGeneration
      /\ d.renewalTimer = c.renewalTimer /\ d.expiryTimer = c.expiryTimer
  BY <1>1, <1>3 DEF Alike, Names
<1>6. d.renewalTimer = 0 /\ d.expiryTimer = 0 BY <1>0, <1>5 DEF Sound, Calm, TimerSound
<1>7. Acked(d) BY <1>0, <1>1, <1>5 DEF Acked
<1> USE DEF Sound, Calm
<1>8. SocketSound(d)
  <2>1. OnlyOwn(d) BY <1>1, <1>5 DEF SocketSound, OnlyOwn, Open
  <2> QED BY <2>1, <1>0, <1>1, <1>5 DEF SocketSound, Open, Lists
<1>9. TokenSound(d) /\ RequestsSound(d) BY <1>5 DEF TokenSound, RequestsSound, Lists
<1>10. TimerSound(d) BY <1>3, <1>5, <1>6 DEF TimerSound
<1>11. StreamSound(d) BY <1>3 DEF StreamSound, OwnStreams, NoSnapshot
<1>12. Heeded(d) BY <1>5 DEF Heeded
<1>13. Carries(d, c) BY <1>1, <1>5 DEF Carries
<1>14. d = Acknowledged([c EXCEPT !.sockets[i].phase = "acked"]) BY DEF d, a, Phased
<1> QED BY <1>2, <1>3, <1>4, <1>5, <1>6, <1>7, <1>8, <1>9, <1>10, <1>11, <1>12, <1>13, <1>14
        DEF Shape

\* They are armed for that socket, even if the callback gave it up.
LEMMA ConnectedSound ==
  ASSUME NEW c, Sound(c), trouble \in Nat, NEW i \in Sockets, c.ws = i,
         c.sockets[i].phase = "open",
         NEW e \in EmitStatus(Acknowledged([c EXCEPT !.sockets[i].phase = "acked"]), "SUBSCRIBED")
  PROVE  LET d == Arm(Arm(e, "renewalTimer", i), "expiryTimer", i) IN
         Sound(d) /\ Carries(d, c) /\ d.fabricated = c.fabricated
<1> DEFINE a == Acknowledged([c EXCEPT !.sockets[i].phase = "acked"])
           d == Arm(Arm(e, "renewalTimer", i), "expiryTimer", i)
<1>1. /\ Calm(a) /\ Carries(a, c) /\ a.fabricated = c.fabricated
      /\ ~a.retryHalted /\ a.renewalTimer = 0 /\ a.expiryTimer = 0 /\ Acked(a)
  BY AcknowledgedCalm
<1>2. e \in EmitStatus(a, "SUBSCRIBED") OBVIOUS
<1> HIDE DEF a
<1>3. Sound(e) /\ Keeps(e, a) BY <1>1, <1>2, StatusSound
<1>4. e.renewalTimer = 0 /\ e.expiryTimer = 0 /\ (e.ws # 0 => Acked(e))
  BY <1>1, <1>3 DEF Keeps, Inherits, Acked
<1>5. Sound(d) /\ Carries(d, e) /\ d.fabricated = e.fabricated BY <1>3, <1>4, TimersArmedSound
<1>6. Carries(e, a) /\ e.fabricated = a.fabricated BY <1>3, KeepsCarries
<1>7. Carries(d, c) BY <1>1, <1>5, <1>6, CarriesThrough
<1> QED BY <1>1, <1>5, <1>6, <1>7

-----------------------------------------------------------------------------
(* The steps of the channel. *)

-----------------------------------------------------------------------------
(* The steps of the channel                                                 *)

\* d is a sound channel that comes after c in a step that makes no socket.
Succeeds(d, c) == Sound(d) /\ Carries(d, c) /\ d.fabricated = c.fabricated

\* Two such steps are one.
LEMMA SucceedsThrough ==
  ASSUME NEW c, NEW e, NEW d, Succeeds(e, c), Succeeds(d, e)
  PROVE  Succeeds(d, c)
BY CarriesThrough DEF Succeeds

\* The application's call is such a step by itself.
LEMMA SpentSucceeds ==
  ASSUME Sound(rt), trouble \in Nat, Left(rt)
  PROVE  /\ Succeeds(Spent, rt) /\ Alike(Spent, rt, {"user"})
<1>1. rt.user < MaxEvents BY BoundsAssumption DEF Left, Sound, Calm, Shape, Typed
<1>2. Shape(Spent) /\ Alike(Spent, rt, {"user"}) BY <1>1, SpentEffect DEF Sound, Calm, Spent
<1>3. /\ Alike(Spent, rt, Asked) /\ Spent.requests = rt.requests
      /\ Spent.subscribed = rt.subscribed /\ Spent.disposed = rt.disposed
      /\ Spent.tokenRequestGeneration = rt.tokenRequestGeneration
  BY <1>2 DEF Alike, Asked, Names
<1>4. TokenSound(Spent) BY <1>3 DEF TokenSound, Sound, Calm, Lists
<1> QED BY <1>2, <1>3, <1>4, AskingIsSound DEF Succeeds

\* The application subscribes, unsubscribes or removes the channel.
LEMMA ApplicationStep ==
  ASSUME Sound(rt), trouble \in Nat, AppSubscribes \/ AppUnsubscribes \/ AppRemovesChannel
  PROVE  Succeeds(rt', rt)
<1>1. Left(rt) BY DEF AppSubscribes, AppUnsubscribes, AppRemovesChannel
<1>2. Succeeds(Spent, rt) /\ Alike(Spent, rt, {"user"}) BY <1>1, SpentSucceeds
<1>3. /\ Spent.requests = rt.requests
      /\ Spent.subscribed = rt.subscribed /\ Spent.disposed = rt.disposed
  BY <1>2 DEF Alike, Names
<1>4. Sound(Spent) BY <1>2 DEF Succeeds
<1> HIDE DEF Spent
<1>5. CASE AppSubscribes
  <2>1. FreeRequests(Spent) # {} BY <1>3, <1>5 DEF AppSubscribes, Room, FreeRequests
  <2>2. /\ ~Spent.subscribed /\ ~Spent.disposed /\ rt' \in Subscribe(Spent)
    BY <1>3, <1>5 DEF AppSubscribes
  <2>3. Succeeds(rt', Spent) BY <1>4, <2>1, <2>2, SubscribeSound DEF Succeeds
  <2> QED BY <1>2, <2>3, SucceedsThrough
<1>6. CASE AppUnsubscribes
  <2>1. rt' \in StopLifecycle(Spent) BY <1>6 DEF AppUnsubscribes
  <2>2. Succeeds(rt', Spent) BY <1>4, <2>1, StopSound DEF Succeeds
  <2> QED BY <1>2, <2>2, SucceedsThrough
<1>7. CASE AppRemovesChannel
  <2>1. rt' \in Dispose(Spent) BY <1>7 DEF AppRemovesChannel
  <2>2. Succeeds(rt', Spent) BY <1>4, <2>1, DisposeSound DEF Succeeds
  <2> QED BY <1>2, <2>2, SucceedsThrough
<1> QED BY <1>5, <1>6, <1>7

\* A token request fails.
LEMMA TokenFailsStep ==
  ASSUME Sound(rt), trouble \in Nat, NEW r \in Requests, NEW b \in BOOLEAN, TokenFails(r, b)
  PROVE  Succeeds(rt', rt)
<1>1. PICK c \in IF ~IsTokenRequestCurrent(rt, r) THEN {rt}
                 ELSE IF b THEN ScheduleReconnect(rt) ELSE Halt(rt) : rt' = Settled(c, r)
  BY DEF TokenFails
<1>2. Succeeds(c, rt)
  <2>1. CASE c = rt BY <2>1 DEF Succeeds, Carries
  <2>2. CASE c \in ScheduleReconnect(rt) BY <2>2, ReconnectSound DEF Succeeds
  <2>3. CASE c \in Halt(rt) BY <2>3, HaltSound DEF Succeeds
  <2> QED BY <1>1, <2>1, <2>2, <2>3
<1>3. Succeeds(rt', c) BY <1>1, <1>2, SettledSound DEF Succeeds
<1> QED BY <1>2, <1>3, SucceedsThrough

\* The only step that makes a socket: the request's session becomes its session.
Installs(r) ==
  /\ Sound(rt') /\ rt'.fabricated = rt.fabricated
  /\ \A q \in Requests : rt'.requests[q] \in {rt.requests[q], NoRequest, NewRequest}
  /\ rt'.ws # 0 => rt'.sockets[rt'.ws].session = rt.requests[r].session
  /\ rt.requests[r].pc = "got" /\ ~rt.requests[r].stale

\* A token arrives: dropped, refused by the socket factory, or used for a socket.
LEMMA TokenArrivesStep ==
  ASSUME Sound(rt), trouble \in Nat, NEW r \in Requests, TokenArrives(r)
  PROVE  Succeeds(rt', rt) \/ Installs(r)
<1>1. CASE rt' = Settled(rt, r) BY <1>1, SettledSound DEF Succeeds
<1>2. CASE /\ IsTokenRequestCurrent(rt, r) /\ FreeSockets(rt) # {}
           /\ rt' = Settled(Install(rt, r), r)
  <2> DEFINE d == Install(rt, r)
  <2>1. /\ Sound(d) /\ d.fabricated = rt.fabricated /\ d.requests = rt.requests
        /\ d.ws # 0 /\ d.sockets[d.ws].session = rt.requests[r].session
        /\ ~rt.requests[r].stale
    BY <1>2, InstallSound
  <2>2. rt' = Settled(d, r) BY <1>2
  <2> HIDE DEF d
  <2>3. Sound(rt') /\ Carries(rt', d) /\ rt'.fabricated = d.fabricated
    BY <2>1, <2>2, SettledSound
  <2> QED BY <2>1, <2>3 DEF Installs, Carries, TokenArrives
<1>3. CASE \E c \in ScheduleReconnect(Uninstall(rt)) : rt' = Settled(c, r)
  <2> DEFINE u == Uninstall(rt)
  <2>1. PICK c \in ScheduleReconnect(u) : rt' = Settled(c, r) BY <1>3
  <2>2. /\ Shape(u) /\ Down(u)
        /\ Alike(u, rt, {"ackTimer", "renewalTimer", "expiryTimer", "reconnectTimer",
                         "ws", "generation", "sockets"})
    BY UninstallEffect DEF Sound, Calm, SocketSound
  <2> HIDE DEF u
  <2>3. Alike(u, rt, Shed) /\ u.tokenRequestGeneration = rt.tokenRequestGeneration
    BY <2>2 DEF Alike, Shed, Names
  <2>4. Succeeds(u, rt) BY <2>2, <2>3, SheddingIsSound DEF Succeeds
  <2>5. Succeeds(c, u) BY <2>1, <2>4, ReconnectSound DEF Succeeds
  <2>6. Succeeds(rt', c) BY <2>1, <2>5, SettledSound DEF Succeeds
  <2> QED BY <2>4, <2>5, <2>6, SucceedsThrough
<1> QED BY <1>1, <1>2, <1>3 DEF TokenArrives

\* A socket opens.
LEMMA SocketOpensStep ==
  ASSUME Sound(rt), NEW i \in Sockets, SocketOpens(i)
  PROVE  Succeeds(rt', rt)
<1>1. rt.ws = i BY CurrentSocket DEF SocketOpens
<1> QED BY <1>1, OpenedSound DEF SocketOpens, Succeeds

\* The handshake is acknowledged, for the current socket or for one given up.
LEMMA ConnectionAckStep ==
  ASSUME Sound(rt), trouble \in Nat, NEW i \in Sockets, ConnectionAck(i)
  PROVE  Succeeds(rt', rt)
<1> DEFINE a == Phased(rt, i, "acked")
<1>1. CASE IsSocketCurrent(rt, i)
  <2>1. rt.ws = i BY <1>1, CurrentSocket
  <2>2. PICK e \in EmitStatus(Acknowledged([rt EXCEPT !.sockets[i].phase = "acked"]), "SUBSCRIBED") :
          rt' = Arm(Arm(e, "renewalTimer", i), "expiryTimer", i)
    BY <1>1 DEF ConnectionAck
  <2>3. rt.sockets[i].phase = "open" BY DEF ConnectionAck
  <2> QED BY <2>1, <2>2, <2>3, ConnectedSound DEF Succeeds
<1>2. CASE ~IsSocketCurrent(rt, i)
  <2>1. rt.ws # i BY <1>2, CurrentSocket
  <2>2. rt' = a BY <1>2 DEF ConnectionAck, Phased
  <2>3. /\ Shape(a) /\ Alike(a, rt, {"sockets"})
        /\ \A j \in Sockets : j # i => a.sockets[j] = rt.sockets[j]
        /\ a.sockets[i].closed = rt.sockets[i].closed
    BY PhaseEffect DEF Sound, Calm
  <2> HIDE DEF a
  <2>4. Open(a, i) => Open(rt, i) BY <2>3 DEF Open, ConnectionAck
  <2> QED BY <2>1, <2>2, <2>3, <2>4, StraySound DEF Succeeds
<1> QED BY <1>1, <1>2

\* An operation is refused.
LEMMA OperationErrorStep ==
  ASSUME Sound(rt), trouble \in Nat, NEW i \in Sockets, OperationError(i)
  PROVE  Succeeds(rt', rt)
BY HaltSound DEF OperationError, Succeeds

\* A socket closes, after the channel closed it or on its own.
LEMMA SocketClosesStep ==
  ASSUME Sound(rt), trouble \in Nat, NEW i \in Sockets, NEW b \in BOOLEAN, SocketCloses(i, b)
  PROVE  Succeeds(rt', rt)
<1> DEFINE a == ClearSocketTimers([rt EXCEPT !.ws = 0, !.generation = 0])
           gone == Closed(a, i)
<1>0. Shape(rt) BY DEF Sound, Calm
<1>1. CASE ~IsSocketCurrent(rt, i) /\ rt' = Closed(rt, i)
  <2>1. rt.ws # i BY <1>1, CurrentSocket
  <2>2. /\ Shape(rt') /\ Alike(rt', rt, {"sockets"})
        /\ \A j \in Sockets : j # i => rt'.sockets[j] = rt.sockets[j]
        /\ ~Open(rt', i)
    BY <1>0, <1>1, ClosedEffect
  <2> QED BY <2>1, <2>2, StraySound DEF Succeeds
<1>2. CASE /\ IsSocketCurrent(rt, i)
           /\ rt' \in IF b THEN EmitStatus([gone EXCEPT !.retryHalted = TRUE], "CHANNEL_ERROR")
                      ELSE ScheduleReconnect(gone)
  <2>1. rt.ws = i BY <1>2, CurrentSocket
  <2>2. IsRec(a) BY <1>0, ExceptIsRec DEF Shape, ClearSocketTimers
  <2>3. /\ Alike(a, rt, {"ws", "generation", "ackTimer", "renewalTimer", "expiryTimer"})
        /\ a.ws = 0 /\ a.generation = 0
        /\ a.ackTimer = 0 /\ a.renewalTimer = 0 /\ a.expiryTimer = 0
    BY <1>0 DEF Alike, Shape, IsRec, Names, ClearSocketTimers
  <2> HIDE DEF a
  <2>4. Typed(a) BY <1>0, <2>3 DEF Typed, Alike, Names, Shape
  <2>5. /\ Shape(gone) /\ Alike(gone, a, {"sockets"})
        /\ \A j \in Sockets : j # i => gone.sockets[j] = a.sockets[j]
        /\ ~Open(gone, i)
    BY <2>2, <2>4, ClosedEffect DEF Shape
  <2> HIDE DEF gone
  <2>6. gone.ws = 0 /\ gone.generation = 0 /\ a.sockets = rt.sockets
        /\ gone.tokenRequestGeneration = rt.tokenRequestGeneration
    BY <2>3, <2>5 DEF Alike, Names
  <2>7. Down(gone)
    BY <2>1, <2>5, <2>6 DEF Down, Open, Sound, Calm, SocketSound, OnlyOwn
  <2>8. Alike(gone, rt, Shed) BY <2>3, <2>5 DEF Alike, Shed
  <2>9. Succeeds(gone, rt) BY <2>5, <2>6, <2>7, <2>8, SheddingIsSound DEF Succeeds
  <2>10. CASE b
    <3>1. rt' \in EmitStatus([gone EXCEPT !.retryHalted = TRUE], "CHANNEL_ERROR") BY <1>2, <2>10
    <3>2. Succeeds(rt', gone) BY <2>7, <2>9, <3>1, HaltingIsSound DEF Succeeds
    <3> QED BY <2>9, <3>2, SucceedsThrough
  <2>11. CASE ~b
    <3>1. rt' \in ScheduleReconnect(gone) BY <1>2, <2>11
    <3>2. Succeeds(rt', gone) BY <2>9, <3>1, ReconnectSound DEF Succeeds
    <3> QED BY <2>9, <3>2, SucceedsThrough
  <2> QED BY <2>10, <2>11
<1> QED BY <1>1, <1>2 DEF SocketCloses

\* A socket fails.
LEMMA SocketFailsStep ==
  ASSUME Sound(rt), trouble \in Nat, NEW i \in Sockets, SocketFails(i)
  PROVE  Succeeds(rt', rt)
<1> DEFINE a == InvalidateActiveSocket(rt)
<1>1. rt' \in ScheduleReconnect(a) BY DEF SocketFails
<1>2. Succeeds(a, rt) BY DropSocketSound DEF Succeeds
<1> HIDE DEF a
<1>3. Succeeds(rt', a) BY <1>1, <1>2, ReconnectSound DEF Succeeds
<1> QED BY <1>2, <1>3, SucceedsThrough

\* The acknowledgment did not come in time.
LEMMA AckTimeoutStep ==
  ASSUME Sound(rt), trouble \in Nat, AckTimeout
  PROVE  Succeeds(rt', rt)
<1> DEFINE c == [rt EXCEPT !.ackTimer = 0]
           a == InvalidateActiveSocket(c)
<1>1. Succeeds(c, rt) BY TimerOffSound DEF Succeeds
<1>2. rt' \in ScheduleReconnect(a) \/ rt' = c BY DEF AckTimeout
<1> HIDE DEF c
<1>3. Succeeds(a, c) BY <1>1, DropSocketSound DEF Succeeds
<1> HIDE DEF a
<1>4. ASSUME rt' \in ScheduleReconnect(a) PROVE Succeeds(rt', rt)
  <2>1. Succeeds(rt', a) BY <1>3, <1>4, ReconnectSound DEF Succeeds
  <2> QED BY <1>1, <1>3, <2>1, SucceedsThrough
<1> QED BY <1>1, <1>2, <1>4

\* The token is due for renewal.
LEMMA RenewalStep ==
  ASSUME Sound(rt), RenewalDue
  PROVE  Succeeds(rt', rt)
<1> DEFINE c == [rt EXCEPT !.renewalTimer = 0]
<1>1. Succeeds(c, rt) /\ Alike(c, rt, {"renewalTimer"}) BY TimerOffSound DEF Succeeds
<1>2. rt' = StartConnection(c) \/ rt' = c BY DEF RenewalDue
<1> HIDE DEF c
<1>3. c.requests = rt.requests BY <1>1 DEF Alike, Names
<1>4. CanStart(c) BY <1>3 DEF CanStart, FreeRequests, RenewalDue, Room
<1>5. ASSUME rt' = StartConnection(c) PROVE Succeeds(rt', rt)
  <2>1. Succeeds(rt', c) BY <1>1, <1>4, <1>5, StartSound DEF Succeeds
  <2> QED BY <1>1, <2>1, SucceedsThrough
<1> QED BY <1>1, <1>2, <1>5

\* The token has run out.
LEMMA ExpiryStep ==
  ASSUME Sound(rt), trouble \in Nat, ExpiryDue
  PROVE  Succeeds(rt', rt)
<1> DEFINE c == [rt EXCEPT !.expiryTimer = 0]
           a == InvalidateActiveSocket(c)
           i == rt.expiryTimer
<1>1. Succeeds(c, rt) /\ Alike(c, rt, {"expiryTimer"}) BY TimerOffSound DEF Succeeds
<1>2. \/ /\ IsSocketCurrent(rt, i)
         /\ \E d \in EmitStatus(a, "RECONNECTING") : rt' = StartConnection(d) \/ rt' = d
      \/ rt' = c
  BY DEF ExpiryDue
<1> HIDE DEF c
<1>3. /\ Sound(a) /\ Carries(a, c) /\ a.fabricated = c.fabricated
      /\ a.requests = c.requests /\ a.retryHalted = c.retryHalted
  BY <1>1, DropSocketSound DEF Succeeds
<1> HIDE DEF a
<1>4. ASSUME IsSocketCurrent(rt, i), NEW d \in EmitStatus(a, "RECONNECTING"),
             rt' = StartConnection(d) \/ rt' = d
      PROVE Succeeds(rt', rt)
  <2>1. i \in Sockets /\ rt.ws = i
    <3>1. i # 0 /\ i \in {0} \cup Sockets BY DEF ExpiryDue, Sound, Calm, Shape, Typed
    <3> QED BY <3>1, <1>4, CurrentSocket
  <2>2. ~rt.retryHalted
    <3>1. rt.ws # 0 /\ rt.expiryTimer # 0 BY <2>1 DEF Sockets
    <3>2. rt.sockets[rt.ws].phase \in {"free", "connecting", "open", "acked"}
      BY <2>1 DEF Sound, Calm, Shape, Typed, Socket
    <3>3. rt.sockets[rt.ws].phase # "free" BY <3>1 DEF Sound, Calm, SocketSound, Open
    <3>4. Acked(rt) BY <3>1, <3>2, <3>3 DEF Acked, Sound, Calm, TimerSound
    <3> QED BY <3>4 DEF Sound, Calm, StreamSound
  <2>3. c.requests = rt.requests /\ c.retryHalted = rt.retryHalted BY <1>1 DEF Alike, Names
  <2>4. CanStart(a)
    BY <1>3, <2>3 DEF CanStart, FreeRequests, ExpiryDue, Room
  <2>5. Sound(d) /\ Keeps(d, a) /\ CanStart(d)
    <3>1. Calm(a) /\ ~a.retryHalted BY <1>3, <2>2, <2>3 DEF Sound
    <3> QED BY <3>1, <1>4, <2>4, StatusSound
  <2>6. Succeeds(d, a) BY <2>5, KeepsCarries DEF Succeeds
  <2>7. Succeeds(a, c) BY <1>3 DEF Succeeds
  <2>8. Succeeds(d, rt) BY <1>1, <2>6, <2>7, SucceedsThrough
  <2>9. ASSUME rt' = StartConnection(d) PROVE Succeeds(rt', d)
    BY <2>5, <2>9, StartSound DEF Succeeds
  <2> QED BY <1>4, <2>8, <2>9, SucceedsThrough
<1> QED BY <1>1, <1>2, <1>4

\* A retry is due.
LEMMA ReconnectDueStep ==
  ASSUME Sound(rt), ReconnectDue
  PROVE  Succeeds(rt', rt)
<1> DEFINE c == CancelReconnectTimer(rt)
<1>0. Shape(rt) BY DEF Sound, Calm
<1>1. IsRec(c) BY <1>0, ExceptIsRec DEF Shape, CancelReconnectTimer
<1>2. Alike(c, rt, {"reconnectTimer"}) /\ c.reconnectTimer = 0
  BY <1>0 DEF Alike, Shape, IsRec, Names, CancelReconnectTimer
<1>3. rt' = StartConnection(c) BY DEF ReconnectDue, TimerFired
<1> HIDE DEF c
<1>4. Typed(c) BY <1>0, <1>2 DEF Typed, Alike, Names, Shape
<1>5. /\ c.requests = rt.requests /\ c.subscribed = rt.subscribed /\ c.disposed = rt.disposed
      /\ c.tokenRequestGeneration = rt.tokenRequestGeneration
  BY <1>2 DEF Alike, Names
<1>6. TokenSound(c) BY <1>5 DEF TokenSound, Sound, Calm, Lists
<1>7. Alike(c, rt, Asked) BY <1>2 DEF Alike, Asked
<1>8. Succeeds(c, rt) BY <1>1, <1>4, <1>5, <1>6, <1>7, AskingIsSound DEF Shape, Succeeds
<1>9. CanStart(c) BY <1>5 DEF CanStart, FreeRequests, ReconnectDue, Room
<1>10. Succeeds(rt', c) BY <1>3, <1>8, <1>9, StartSound DEF Succeeds
<1> QED BY <1>8, <1>10, SucceedsThrough

\* One more result of a subscription becomes the snapshot of its table.
LEMMA SnapshotSound ==
  ASSUME NEW c, Sound(c), NEW i \in Sockets, NEW k \in DOMAIN Configs, c.ws # 0 => c.ws = i
  PROVE  LET d == [c EXCEPT !.snapshot[Configs[k]] = <<i, k>>] IN Succeeds(d, c)
<1> DEFINE t == Configs[k]
           n == <<i, k>>
           v == [c.snapshot EXCEPT ![t] = n]
           d == [c EXCEPT !.snapshot[t] = n]
<1>0. Shape(c) BY DEF Sound, Calm
<1>1. t \in Tables BY DEF Tables
<1>2. n \in Sockets \X DOMAIN Configs OBVIOUS
<1>3. d = [c EXCEPT !.snapshot = v] OBVIOUS
<1> HIDE DEF n
<1>4. /\ v \in [Tables -> {NoStream} \cup (Sockets \X DOMAIN Configs)]
      /\ \A u \in Tables : v[u] = IF u = t THEN n ELSE c.snapshot[u]
  BY <1>0, <1>1, <1>2 DEF Shape, Typed
<1> HIDE DEF v, d
<1>5. IsRec(d) BY <1>0, <1>3, ExceptIsRec DEF Shape
<1>6. Alike(d, c, {"snapshot"}) /\ d.snapshot = v BY <1>0, <1>3 DEF Alike, Shape, IsRec, Names
<1>7. Typed(d) BY <1>0, <1>4, <1>6 DEF Typed, Alike, Names, Shape
<1>8. /\ d.subscribed = c.subscribed /\ d.disposed = c.disposed /\ d.listening = c.listening
      /\ d.retryHalted = c.retryHalted /\ d.errorHeard = c.errorHeard
      /\ d.doubled = c.doubled /\ d.fabricated = c.fabricated /\ d.requests = c.requests
      /\ d.ws = c.ws /\ d.generation = c.generation /\ d.sockets = c.sockets
      /\ d.tokenRequestGeneration = c.tokenRequestGeneration
      /\ d.ackTimer = c.ackTimer /\ d.renewalTimer = c.renewalTimer /\ d.expiryTimer = c.expiryTimer
  BY <1>6 DEF Alike, Names
<1> USE DEF Sound, Calm
<1>9. SocketSound(d) BY <1>8 DEF SocketSound, OnlyOwn, Open, Lists
<1>10. TokenSound(d) /\ RequestsSound(d) BY <1>8 DEF TokenSound, RequestsSound, Lists
<1>11. TimerSound(d) BY <1>8 DEF TimerSound
<1>12. StreamSound(d)
  <2> SUFFICES ASSUME Acked(d) PROVE ~d.retryHalted /\ OwnStreams(d) BY DEF StreamSound
  <2>1. Acked(c) BY <1>8 DEF Acked
  <2>2. d.ws = i BY <1>8, <2>1 DEF Acked
  <2>3. ASSUME NEW u \in Tables
        PROVE  d.snapshot[u] = NoStream
               \/ \E j \in DOMAIN Configs : Configs[j] = u /\ d.snapshot[u] = <<d.ws, j>>
    <3>1. CASE u = t BY <1>4, <1>6, <2>2, <3>1 DEF n
    <3>2. CASE u # t
      <4>1. d.snapshot[u] = c.snapshot[u] BY <1>4, <1>6, <3>2
      <4> QED BY <4>1, <1>8, <2>1 DEF StreamSound, OwnStreams
    <3> QED BY <3>1, <3>2
  <2> QED BY <2>1, <2>3, <1>8 DEF StreamSound, OwnStreams
<1>13. Heeded(d) /\ Told(d) BY <1>8 DEF Heeded, Told
<1>14. Carries(d, c) BY <1>8 DEF Carries
<1>15. d = [c EXCEPT !.snapshot[Configs[k]] = <<i, k>>] BY DEF d, n
<1> QED BY <1>5, <1>7, <1>8, <1>9, <1>10, <1>11, <1>12, <1>13, <1>14, <1>15 DEF Succeeds, Shape

\* No two subscriptions of the channel are of one table.
OneEach == \A j, k \in DOMAIN Configs : Configs[j] = Configs[k] => j = k

\* A result arrives.  The stream it is compared with is of the current socket, and with
\* one subscription of a table it is the same stream.
LEMMA NextResultStep ==
  ASSUME Sound(rt), trouble \in Nat, NEW i \in Sockets, NEW k \in DOMAIN Configs, NextResult(i, k)
  PROVE  Sound(rt') /\ Carries(rt', rt) /\ (OneEach => rt'.fabricated = rt.fabricated)
<1> DEFINE t == Configs[k]
           n == <<i, k>>
           v == rt.fabricated \/ rt.snapshot[t] # n
           f == [rt EXCEPT !.fabricated = v]
<1>0. /\ Shape(rt) /\ rt.ws = i /\ i # 0 /\ Acked(rt) /\ t \in Tables
  <2>1. rt.ws = i BY CurrentSocket DEF NextResult
  <2> QED BY <2>1 DEF Sound, Calm, NextResult, Acked, Sockets, Tables
<1>1. PICK c \in IF rt.snapshot[t] = NoStream THEN {rt} ELSE EmitChange(f) :
        rt' = [c EXCEPT !.snapshot[t] = n]
  <2>1. f = [rt EXCEPT !.fabricated = @ \/ rt.snapshot[t] # n] BY <1>0 DEF Shape, IsRec, Names
  <2> QED BY <2>1 DEF NextResult
<1>2. v \in BOOLEAN OBVIOUS
<1>3. rt.snapshot[t] # NoStream /\ OneEach => v = rt.fabricated
  <2> SUFFICES ASSUME rt.snapshot[t] # NoStream, OneEach PROVE v = rt.fabricated OBVIOUS
  <2>1. PICK j \in DOMAIN Configs : Configs[j] = t /\ rt.snapshot[t] = <<i, j>>
    BY <1>0 DEF Sound, Calm, StreamSound, OwnStreams
  <2>2. j = k BY <2>1 DEF OneEach
  <2>3. rt.snapshot[t] = n BY <2>1, <2>2
  <2>4. rt.fabricated \in BOOLEAN BY <1>0 DEF Shape, Typed
  <2> QED BY <2>3, <2>4
<1>4. IsRec(f) BY <1>0, ExceptIsRec DEF Shape
<1>5. Alike(f, rt, {"fabricated"}) /\ f.fabricated = v
  BY <1>0 DEF Alike, Shape, IsRec, Names
<1> HIDE DEF f, v
<1>6. Typed(f) BY <1>0, <1>2, <1>5 DEF Typed, Alike, Names, Shape
<1>7. Sound(f) /\ Carries(f, rt)
  <2>1. /\ f.subscribed = rt.subscribed /\ f.disposed = rt.disposed /\ f.listening = rt.listening
        /\ f.retryHalted = rt.retryHalted /\ f.errorHeard = rt.errorHeard
        /\ f.doubled = rt.doubled /\ f.requests = rt.requests /\ f.snapshot = rt.snapshot
        /\ f.ws = rt.ws /\ f.generation = rt.generation /\ f.sockets = rt.sockets
        /\ f.tokenRequestGeneration = rt.tokenRequestGeneration
        /\ f.ackTimer = rt.ackTimer /\ f.renewalTimer = rt.renewalTimer
        /\ f.expiryTimer = rt.expiryTimer
    BY <1>5 DEF Alike, Names
  <2> USE DEF Sound, Calm
  <2>2. SocketSound(f) BY <2>1 DEF SocketSound, OnlyOwn, Open, Lists
  <2>3. TokenSound(f) /\ RequestsSound(f) BY <2>1 DEF TokenSound, RequestsSound, Lists
  <2>4. TimerSound(f) BY <2>1 DEF TimerSound
  <2>5. StreamSound(f) BY <2>1 DEF StreamSound, Acked, OwnStreams
  <2>6. Heeded(f) /\ Told(f) BY <2>1 DEF Heeded, Told
  <2>7. Carries(f, rt) BY <2>1 DEF Carries
  <2> QED BY <1>4, <1>6, <2>2, <2>3, <2>4, <2>5, <2>6, <2>7 DEF Shape
<1>8. /\ Sound(c) /\ Carries(c, rt) /\ (OneEach => c.fabricated = rt.fabricated)
      /\ c.ws # 0 => c.ws = i
  <2>1. CASE c = rt BY <1>0, <2>1 DEF Carries
  <2>2. CASE c = f /\ rt.snapshot[t] # NoStream
    BY <1>0, <1>3, <1>5, <1>7, <2>2 DEF Carries
  <2>3. CASE c \in Reactions(f) /\ rt.snapshot[t] # NoStream
    <3>1. GivenUp(c, f) BY <1>7, <2>3, CalmIsReady, ReactionsGiveUp DEF Sound
    <3>2. Sound(c) /\ Carries(c, f) /\ c.fabricated = f.fabricated /\ c.ws = 0
      BY <1>7, <3>1, GivenUpIsSound DEF GivenUp, Down
    <3>3. Carries(c, rt) BY <1>7, <3>2, CarriesThrough
    <3> QED BY <1>3, <1>5, <2>3, <3>2, <3>3
  <2> QED BY <1>1, <2>1, <2>2, <2>3 DEF EmitChange
<1>9. Succeeds(rt', c) BY <1>1, <1>8, SnapshotSound
<1> QED BY <1>8, <1>9, CarriesThrough DEF Succeeds

-----------------------------------------------------------------------------
(* The stored session and the sessions the channel works with. *)

\* The record set of the type invariant, from the fields and their types.
LEMMA ShapeIsTyped ==
  ASSUME NEW c, IsRec(c), Typed(c) PROVE c \in Channel
<1> DEFINE d == [subscribed |-> c.subscribed, disposed |-> c.disposed, retryHalted |-> c.retryHalted, listening |-> c.listening,
     handle |-> c.handle, errorHeard |-> c.errorHeard, doubled |-> c.doubled, fabricated |-> c.fabricated,
     reconnectTimer |-> c.reconnectTimer,
     ws |-> c.ws, generation |-> c.generation, ackTimer |-> c.ackTimer,
     renewalTimer |-> c.renewalTimer, expiryTimer |-> c.expiryTimer,
     tokenRequest |-> c.tokenRequest, tokenRequestGeneration |-> c.tokenRequestGeneration,
     snapshot |-> c.snapshot,
     requests |-> c.requests, sockets |-> c.sockets, user |-> c.user]
<1>1. d \in Channel BY DEF Channel, Typed
<1>2. c = d BY DEF IsRec, Names
<1> QED BY <1>1, <1>2

-----------------------------------------------------------------------------
(* The stored session                                                       *)

\* A change of the stored session that is not announced yet, or was not at all; what
\* otherwise is the session in force; and a move of a legacy session not yet ended.
Unheard == raced \/ \E a \in Calls : calls[a].pc \in {"clear", "notify"}
Agrees(s) == s = Effective \/ Unheard
Dropping == (\E a \in Calls : calls[a].pc = "drop") \/ \E r \in Requests : rt.requests[r].pc = "drop"

\* What was asked for since the last announced change, and the socket made from it, are
\* of the session in force.  A move ends without changing it, and a call that announces
\* has emptied the legacy key.
SocketAgrees == rt.ws # 0 => Agrees(rt.sockets[rt.ws].session)
RequestsAgree ==
  \A r \in Requests : rt.requests[r].pc \in {"drop", "got"} /\ ~rt.requests[r].stale =>
    Agrees(rt.requests[r].session)
DropIsHarmless == Dropping => scoped # 0 \/ legacy = 0 \/ raced \/ \E a \in Calls : calls[a].pc = "clear"
NotifiedLast == (\E a \in Calls : calls[a].pc = "notify") => legacy = 0
MovesSession == \A a \in Calls : calls[a].pc \in {"move", "drop"} => calls[a].session # 0
SessionInv == SocketAgrees /\ RequestsAgree /\ DropIsHarmless /\ NotifiedLast /\ MovesSession

\* The types of what is not the channel.
CallType == [pc : Reading \cup {"idle", "got", "set", "clear", "notify"}, session : 0..MaxSessions]
OthersTyped ==
  /\ scoped \in 0..MaxSessions /\ legacy \in 0..MaxSessions /\ issued \in 0..MaxSessions
  /\ raced \in BOOLEAN /\ calls \in [Calls -> CallType] /\ trouble \in 0..MaxTrouble

\* The inductive invariant.
IInv == Sound(rt) /\ OthersTyped /\ SessionInv

\* The invariant holds at first.
LEMMA InitInv == Init => IInv
<1> SUFFICES ASSUME Init PROVE IInv OBVIOUS
<1>1. Shape(rt)
  <2>1. IsRec(rt) BY DEF Init, IsRec, Names
  <2>2. NoRequest \in Request /\ NoSocket \in Socket BY Zero DEF NoRequest, Request, NoSocket, Socket
  <2>3. 0 \in 0..MaxEvents BY BoundsAssumption
  <2>4. Typed(rt) BY <2>2, <2>3, SnapshotTyped DEF Init, Typed
  <2> QED BY <2>1, <2>4 DEF Shape
<1>2. \A i \in Sockets : ~Open(rt, i) BY DEF Init, Open, NoSocket
<1>3. Down(rt) /\ TokenSound(rt) /\ ~rt.doubled /\ Heeded(rt) /\ Told(rt)
  BY <1>2 DEF Init, Down, TokenSound, Heeded, Told, Lists
<1>4. RequestsSound(rt) BY DEF Init, RequestsSound, NoRequest
<1>5. Sound(rt) BY <1>1, <1>3, <1>4, DownIsCalm DEF Sound
<1>6. OthersTyped
  <2>1. {0, 1} \subseteq 0..MaxSessions /\ 0 \in 0..MaxTrouble BY BoundsAssumption
  <2>2. NoCall \in CallType BY <2>1 DEF NoCall, CallType
  <2> QED BY <2>1, <2>2 DEF Init, OthersTyped
<1>7. SessionInv
  <2>1. SocketAgrees BY DEF Init, SocketAgrees
  <2>2. /\ \A r \in Requests : rt.requests[r].pc = "free"
        /\ \A a \in Calls : calls[a].pc = "idle"
    BY DEF Init, NoRequest, NoCall
  <2> QED BY <2>1, <2>2 DEF SessionInv, RequestsAgree, DropIsHarmless, Dropping, NotifiedLast, MovesSession
<1> QED BY <1>5, <1>6, <1>7 DEF IInv

\* The bound on failures is kept.
LEMMA TroubleCounts ==
  ASSUME OthersTyped
  PROVE  /\ trouble \in Nat /\ MaxTrouble \in Nat
         /\ Disturb => trouble' \in 0..MaxTrouble
BY BoundsAssumption DEF OthersTyped, Disturb

\* A channel that only carries over what it had speaks for the same session.
LEMMA ChannelKeepsSession ==
  ASSUME IInv, Carries(rt', rt), UNCHANGED <<scoped, legacy, calls, raced>>
  PROVE  SessionInv'
<1>1. Effective' = Effective /\ Unheard' = Unheard BY DEF Effective, Unheard
<1>2. NoRequest.pc = "free" /\ NewRequest.pc = "read" BY DEF NoRequest, NewRequest
<1>4. SocketAgrees' BY <1>1 DEF IInv, SessionInv, SocketAgrees, Agrees, Carries
<1>5. RequestsAgree'
  BY <1>1, <1>2 DEF IInv, SessionInv, RequestsAgree, Agrees, Carries
<1>6. Dropping' => Dropping BY <1>2 DEF Dropping, Carries
<1>7. DropIsHarmless' BY <1>6 DEF IInv, SessionInv, DropIsHarmless
<1>8. NotifiedLast' /\ MovesSession' BY DEF IInv, SessionInv, NotifiedLast, MovesSession
<1> QED BY <1>4, <1>5, <1>7, <1>8 DEF SessionInv

\* So does one whose new socket has the session of a request that was not outdated.
LEMMA InstallKeepsSession ==
  ASSUME IInv, NEW r \in Requests, Installs(r), UNCHANGED <<scoped, legacy, calls, raced>>
  PROVE  SessionInv'
<1>1. Effective' = Effective /\ Unheard' = Unheard BY DEF Effective, Unheard
<1>2. NoRequest.pc = "free" /\ NewRequest.pc = "read" BY DEF NoRequest, NewRequest
<1>3. /\ \A q \in Requests : rt'.requests[q] \in {rt.requests[q], NoRequest, NewRequest}
      /\ rt'.ws # 0 => rt'.sockets[rt'.ws].session = rt.requests[r].session
      /\ rt.requests[r].pc = "got" /\ ~rt.requests[r].stale
  BY DEF Installs
<1>4. SocketAgrees' BY <1>1, <1>3 DEF IInv, SessionInv, SocketAgrees, RequestsAgree, Agrees
<1>5. RequestsAgree'
  BY <1>1, <1>2, <1>3 DEF IInv, SessionInv, RequestsAgree, Agrees
<1>6. Dropping' => Dropping BY <1>2, <1>3 DEF Dropping
<1>7. DropIsHarmless' BY <1>6 DEF IInv, SessionInv, DropIsHarmless
<1>8. NotifiedLast' /\ MovesSession' BY DEF IInv, SessionInv, NotifiedLast, MovesSession
<1> QED BY <1>4, <1>5, <1>7, <1>8 DEF SessionInv

\* What one storage call of readSessionRaw makes of the reader.
LEMMA ReadNextEffect ==
  ASSUME NEW p, p \in Request \/ p \in CallType, p.pc \in Reading, OthersTyped
  PROVE  LET q == ReadNext(p) IN
         /\ p \in Request => q \in Request /\ q.stale = p.stale
         /\ p \in CallType => q \in CallType
         /\ p.pc = "read" /\ scoped # 0 => q.pc = "got" /\ q.session = scoped
         /\ p.pc = "read" /\ scoped = 0 => q.pc = "legacy" /\ q.session = p.session
         /\ p.pc = "legacy" /\ legacy # 0 => q.pc = "move" /\ q.session = legacy
         /\ p.pc = "legacy" /\ legacy = 0 => q.pc = "got" /\ q.session = p.session
         /\ p.pc = "move" => q.pc = "drop" /\ q.session = p.session
         /\ p.pc = "drop" => q.pc = "got" /\ q.session = p.session
<1> DEFINE q == ReadNext(p)
<1>0. scoped \in 0..MaxSessions /\ legacy \in 0..MaxSessions BY DEF OthersTyped
<1>1. CASE p.pc = "read" /\ scoped # 0
  <2>1. q = [p EXCEPT !.pc = "got", !.session = scoped] BY <1>1 DEF ReadNext
  <2> HIDE DEF q
  <2> QED BY <1>0, <1>1, <2>1 DEF Request, CallType, Reading, q
<1>2. CASE p.pc = "read" /\ scoped = 0
  <2>1. q = [p EXCEPT !.pc = "legacy"] BY <1>2 DEF ReadNext
  <2> HIDE DEF q
  <2> QED BY <1>2, <2>1 DEF Request, CallType, Reading, q
<1>3. CASE p.pc = "legacy" /\ legacy # 0
  <2>1. q = [p EXCEPT !.pc = "move", !.session = legacy] BY <1>3 DEF ReadNext
  <2> HIDE DEF q
  <2> QED BY <1>0, <1>3, <2>1 DEF Request, CallType, Reading, q
<1>4. CASE p.pc = "legacy" /\ legacy = 0
  <2>1. q = [p EXCEPT !.pc = "got"] BY <1>4 DEF ReadNext
  <2> HIDE DEF q
  <2> QED BY <1>4, <2>1 DEF Request, CallType, Reading, q
<1>5. CASE p.pc = "move"
  <2>1. q = [p EXCEPT !.pc = "drop"] BY <1>5 DEF ReadNext
  <2> HIDE DEF q
  <2> QED BY <1>5, <2>1 DEF Request, CallType, Reading, q
<1>6. CASE p.pc = "drop"
  <2>1. q = [p EXCEPT !.pc = "got"] BY <1>6 DEF ReadNext
  <2> HIDE DEF q
  <2> QED BY <1>6, <2>1 DEF Request, CallType, Reading, q
<1> QED BY <1>1, <1>2, <1>3, <1>4, <1>5, <1>6 DEF Reading

\* What a step of a read does to the stored session.
LEMMA ReadKeepsStored ==
  ASSUME NEW p, IInv, ReadEffect(p), p.pc \in Reading,
         p.pc = "move" => p.session # 0, p.pc = "drop" => Dropping
  PROVE  /\ Effective' = Effective \/ raced' \/ Unheard
         /\ raced => raced'
         /\ legacy' \in {0, legacy}
         /\ p.pc = "move" => scoped' # 0 /\ Effective' = p.session
         /\ p.pc # "move" => scoped' = scoped
         /\ DropIsHarmless
         /\ p.pc \in {"read", "legacy"} => Effective' = Effective
         /\ p.pc = "legacy" /\ legacy = 0 /\ scoped # 0 => raced'
<1>0. DropIsHarmless /\ raced \in BOOLEAN BY DEF IInv, SessionInv, OthersTyped
<1>1. CASE p.pc = "read" BY <1>0, <1>1 DEF ReadEffect, Effective
<1>2. CASE p.pc = "legacy" BY <1>0, <1>2 DEF ReadEffect, Effective
<1>3. CASE p.pc = "move" BY <1>0, <1>3 DEF ReadEffect, Effective
<1>4. CASE p.pc = "drop"
  <2>1. scoped' = scoped /\ legacy' = 0 /\ (raced' <=> raced) BY <1>4 DEF ReadEffect
  <2>2. scoped # 0 \/ legacy = 0 \/ raced \/ \E a \in Calls : calls[a].pc = "clear"
    BY <1>4 DEF IInv, SessionInv, DropIsHarmless
  <2>3. Effective' = Effective \/ raced' \/ Unheard BY <2>1, <2>2 DEF Effective, Unheard
  <2> QED BY <1>0, <1>4, <2>1, <2>3
<1> QED BY <1>1, <1>2, <1>3, <1>4 DEF Reading

\* What it makes of the storage is well typed.
LEMMA ReadStoredTyped ==
  ASSUME NEW p, OthersTyped, ReadEffect(p), p.session \in 0..MaxSessions
  PROVE  scoped' \in 0..MaxSessions /\ legacy' \in 0..MaxSessions /\ raced' \in BOOLEAN
<1>1. 0 \in 0..MaxSessions BY Zero
<1>2. raced' \in BOOLEAN BY DEF ReadEffect
<1> QED BY <1>1, <1>2 DEF OthersTyped, ReadEffect

\* A token request reads the stored session: what it moves to the scoped key agrees with
\* the session in force, or the race is on record.
LEMMA RequestReadsStep ==
  ASSUME IInv, NEW r \in Requests, RequestReads(r)
  PROVE  IInv' /\ rt'.fabricated = rt.fabricated
<1> DEFINE p == rt.requests[r]
           q == ReadNext(p)
           v == [rt.requests EXCEPT ![r] = q]
<1>0. Sound(rt) /\ OthersTyped /\ SessionInv /\ Shape(rt) BY DEF IInv, Sound, Calm
<1>1. p \in Request /\ p.pc \in Reading BY <1>0 DEF Shape, Typed, RequestReads
<1>2. /\ q \in Request /\ q.stale = p.stale
      /\ p.pc = "read" /\ scoped # 0 => q.pc = "got" /\ q.session = scoped
      /\ p.pc = "read" /\ scoped = 0 => q.pc = "legacy" /\ q.session = p.session
      /\ p.pc = "legacy" /\ legacy # 0 => q.pc = "move" /\ q.session = legacy
      /\ p.pc = "legacy" /\ legacy = 0 => q.pc = "got" /\ q.session = p.session
      /\ p.pc = "move" => q.pc = "drop" /\ q.session = p.session
      /\ p.pc = "drop" => q.pc = "got" /\ q.session = p.session
  BY <1>0, <1>1, ReadNextEffect
<1>3. rt' = [rt EXCEPT !.requests = v] BY DEF RequestReads
<1>4. ReadEffect(p) /\ calls' = calls /\ issued' = issued /\ trouble' = trouble BY DEF RequestReads
<1>5. /\ p.pc \in {"read", "legacy"} => p.session = 0
      /\ p.pc \in {"move", "drop"} => p.session # 0
      /\ p.pc = "drop" => Dropping
      /\ p.session \in 0..MaxSessions
  BY <1>0, <1>1 DEF Sound, Calm, RequestsSound, Dropping, Request
<1> HIDE DEF q
<1>6. /\ v \in [Requests -> Request]
      /\ \A x \in Requests : v[x] = IF x = r THEN q ELSE rt.requests[x]
  BY <1>0, <1>2 DEF Shape, Typed
<1> HIDE DEF v
<1>7. IsRec(rt') BY <1>0, <1>3, ExceptIsRec DEF Shape
<1>8. Alike(rt', rt, {"requests"}) /\ rt'.requests = v
  BY <1>0, <1>3 DEF Alike, Shape, IsRec, Names
<1>9. Typed(rt') BY <1>0, <1>6, <1>8 DEF Typed, Alike, Names, Shape
<1>10. /\ rt'.subscribed = rt.subscribed /\ rt'.disposed = rt.disposed /\ rt'.listening = rt.listening
       /\ rt'.retryHalted = rt.retryHalted /\ rt'.errorHeard = rt.errorHeard
       /\ rt'.doubled = rt.doubled /\ rt'.fabricated = rt.fabricated /\ rt'.snapshot = rt.snapshot
       /\ rt'.ws = rt.ws /\ rt'.generation = rt.generation /\ rt'.sockets = rt.sockets
       /\ rt'.tokenRequestGeneration = rt.tokenRequestGeneration
       /\ rt'.ackTimer = rt.ackTimer /\ rt'.renewalTimer = rt.renewalTimer
       /\ rt'.expiryTimer = rt.expiryTimer
  BY <1>8 DEF Alike, Names
<1>11. Sound(rt')
  <2> USE DEF Sound, Calm
  <2>1. SocketSound(rt') BY <1>0, <1>10 DEF SocketSound, OnlyOwn, Open, Lists
  <2>2. rt.tokenRequestGeneration \in {0} \cup Requests BY <1>0 DEF Shape, Typed
  <2>3. TokenSound(rt') BY <1>0, <1>2, <1>6, <1>8, <1>10, <2>2 DEF TokenSound, Lists
  <2>4. RequestsSound(rt')
    <3>1. /\ q.pc \in {"read", "legacy"} => q.session = 0
          /\ q.pc \in {"move", "drop"} => q.session # 0
      BY <1>1, <1>2, <1>5 DEF Reading
    <3> QED BY <1>0, <1>6, <1>8, <3>1 DEF RequestsSound
  <2>5. TimerSound(rt') BY <1>0, <1>10 DEF TimerSound
  <2>6. StreamSound(rt') BY <1>0, <1>10 DEF StreamSound, Acked, OwnStreams
  <2>7. Heeded(rt') /\ Told(rt') BY <1>0, <1>10 DEF Heeded, Told
  <2> QED BY <1>7, <1>9, <2>1, <2>3, <2>4, <2>5, <2>6, <2>7 DEF Shape
<1>12. OthersTyped' BY <1>0, <1>4, <1>5, ReadStoredTyped DEF OthersTyped
<1>13. /\ Effective' = Effective \/ raced' \/ Unheard
       /\ raced => raced'
       /\ legacy' \in {0, legacy}
       /\ p.pc = "move" => scoped' # 0 /\ Effective' = p.session
       /\ p.pc # "move" => scoped' = scoped
       /\ p.pc \in {"read", "legacy"} => Effective' = Effective
       /\ p.pc = "legacy" /\ legacy = 0 /\ scoped # 0 => raced'
  BY <1>1, <1>4, <1>5, ReadKeepsStored
<1>14. ASSUME NEW s, Agrees(s) PROVE s = Effective' \/ Unheard'
  BY <1>4, <1>13, <1>14 DEF Agrees, Unheard
<1>15. SocketAgrees' BY <1>0, <1>10, <1>14 DEF SessionInv, SocketAgrees, Agrees
<1>16. RequestsAgree'
  <2> SUFFICES ASSUME NEW x \in Requests, rt'.requests[x].pc \in {"drop", "got"},
                      ~rt'.requests[x].stale
               PROVE  rt'.requests[x].session = Effective' \/ Unheard'
    BY DEF RequestsAgree, Agrees
  <2>1. CASE x # r
    <3>1. rt'.requests[x] = rt.requests[x] BY <1>6, <1>8, <2>1
    <3>2. Agrees(rt.requests[x].session) BY <1>0, <3>1 DEF SessionInv, RequestsAgree
    <3> QED BY <1>14, <3>1, <3>2
  <2>2. CASE x = r
    <3>1. rt'.requests[x] = q BY <1>6, <1>8, <2>2
    <3>2. q.session = Effective' \/ Unheard' \/ Agrees(q.session)
      <4>1. CASE p.pc = "read" BY <1>2, <1>13, <3>1, <4>1 DEF Effective
      <4>2. CASE p.pc = "legacy"
        BY <1>2, <1>5, <1>13, <3>1, <4>2 DEF Effective, Unheard
      <4>3. CASE p.pc = "move" BY <1>2, <1>13, <4>3
      <4>4. CASE p.pc = "drop"
        BY <1>0, <1>2, <3>1, <4>4 DEF SessionInv, RequestsAgree
      <4> QED BY <1>1, <4>1, <4>2, <4>3, <4>4 DEF Reading
    <3> QED BY <1>14, <3>1, <3>2
  <2> QED BY <2>1, <2>2
<1>17. DropIsHarmless'
  <2> SUFFICES ASSUME Dropping'
               PROVE scoped' # 0 \/ legacy' = 0 \/ raced' \/ \E a \in Calls : calls'[a].pc = "clear"
    BY DEF DropIsHarmless
  <2>1. Dropping \/ p.pc = "move"
    <3>1. CASE \E a \in Calls : calls'[a].pc = "drop" BY <1>4, <3>1 DEF Dropping
    <3>2. CASE \E x \in Requests : rt'.requests[x].pc = "drop"
      <4>1. PICK x \in Requests : rt'.requests[x].pc = "drop" BY <3>2
      <4>2. CASE x # r BY <1>6, <1>8, <4>1, <4>2 DEF Dropping
      <4>3. CASE x = r
        <5>1. q.pc = "drop" BY <1>6, <1>8, <4>1, <4>3
        <5> QED BY <1>1, <1>2, <5>1 DEF Reading
      <4> QED BY <4>2, <4>3
    <3> QED BY <3>1, <3>2 DEF Dropping
  <2>2. CASE p.pc = "move" BY <1>13, <2>2
  <2>3. CASE Dropping /\ p.pc # "move"
    BY <1>0, <1>4, <1>13, <2>3 DEF SessionInv, DropIsHarmless
  <2> QED BY <2>1, <2>2, <2>3
<1>18. NotifiedLast' /\ MovesSession'
  BY <1>0, <1>4, <1>13 DEF SessionInv, NotifiedLast, MovesSession
<1> QED BY <1>10, <1>11, <1>12, <1>15, <1>16, <1>17, <1>18 DEF IInv, SessionInv

\* A sign-out does the same.
LEMMA CallReadsStep ==
  ASSUME IInv, NEW a \in Calls, CallReads(a)
  PROVE  IInv' /\ rt'.fabricated = rt.fabricated
<1> DEFINE p == calls[a]
           q == ReadNext(p)
<1>0. Sound(rt) /\ OthersTyped /\ SessionInv BY DEF IInv
<1>1. p \in CallType /\ p.pc \in Reading BY <1>0 DEF OthersTyped, CallReads
<1>2. /\ q \in CallType
      /\ p.pc = "read" /\ scoped # 0 => q.pc = "got" /\ q.session = scoped
      /\ p.pc = "read" /\ scoped = 0 => q.pc = "legacy" /\ q.session = p.session
      /\ p.pc = "legacy" /\ legacy # 0 => q.pc = "move" /\ q.session = legacy
      /\ p.pc = "legacy" /\ legacy = 0 => q.pc = "got" /\ q.session = p.session
      /\ p.pc = "move" => q.pc = "drop" /\ q.session = p.session
      /\ p.pc = "drop" => q.pc = "got" /\ q.session = p.session
  BY <1>0, <1>1, ReadNextEffect
<1>3. calls' = [calls EXCEPT ![a] = q] BY DEF CallReads
<1>4. ReadEffect(p) /\ rt' = rt /\ issued' = issued /\ trouble' = trouble BY DEF CallReads
<1>5. /\ p.pc \in {"move", "drop"} => p.session # 0
      /\ p.pc = "drop" => Dropping
      /\ p.session \in 0..MaxSessions
  BY <1>0, <1>1 DEF SessionInv, MovesSession, Dropping, CallType
<1> HIDE DEF q
<1>6. \A b \in Calls : calls'[b] = IF b = a THEN q ELSE calls[b]
  BY <1>0, <1>3 DEF OthersTyped
<1>7. calls' \in [Calls -> CallType] BY <1>0, <1>2, <1>3 DEF OthersTyped
<1>8. OthersTyped' BY <1>0, <1>4, <1>5, <1>7, ReadStoredTyped DEF OthersTyped
<1>9. p.pc \notin {"clear", "notify"} /\ q.pc \notin {"clear", "notify"}
  BY <1>1, <1>2 DEF Reading
<1>10. /\ Effective' = Effective \/ raced' \/ Unheard
       /\ raced => raced'
       /\ legacy' \in {0, legacy}
       /\ p.pc = "move" => scoped' # 0
       /\ p.pc # "move" => scoped' = scoped
  BY <1>1, <1>4, <1>5, ReadKeepsStored
<1>11. Unheard => Unheard'
  BY <1>6, <1>9, <1>10 DEF Unheard
<1>12. ASSUME NEW s, Agrees(s) PROVE s = Effective' \/ Unheard'
  BY <1>10, <1>11, <1>12 DEF Agrees, Unheard
<1>13. SocketAgrees' BY <1>0, <1>4, <1>12 DEF SessionInv, SocketAgrees, Agrees
<1>14. RequestsAgree' BY <1>0, <1>4, <1>12 DEF SessionInv, RequestsAgree, Agrees
<1>15. DropIsHarmless'
  <2> SUFFICES ASSUME Dropping'
               PROVE scoped' # 0 \/ legacy' = 0 \/ raced' \/ \E b \in Calls : calls'[b].pc = "clear"
    BY DEF DropIsHarmless
  <2>1. Dropping \/ p.pc = "move"
    <3>1. CASE \E r \in Requests : rt'.requests[r].pc = "drop" BY <1>4, <3>1 DEF Dropping
    <3>2. CASE \E b \in Calls : calls'[b].pc = "drop"
      <4>1. PICK b \in Calls : calls'[b].pc = "drop" BY <3>2
      <4>2. CASE b # a BY <1>6, <4>1, <4>2 DEF Dropping
      <4>3. CASE b = a
        <5>1. q.pc = "drop" BY <1>6, <4>1, <4>3
        <5> QED BY <1>1, <1>2, <5>1 DEF Reading
      <4> QED BY <4>2, <4>3
    <3> QED BY <3>1, <3>2 DEF Dropping
  <2>2. CASE p.pc = "move" BY <1>10, <2>2
  <2>3. CASE Dropping /\ p.pc # "move"
    <3>1. (\E b \in Calls : calls[b].pc = "clear") => \E b \in Calls : calls'[b].pc = "clear"
      BY <1>6, <1>9
    <3> QED BY <1>0, <1>10, <2>3, <3>1 DEF SessionInv, DropIsHarmless
  <2> QED BY <2>1, <2>2, <2>3
<1>16. NotifiedLast'
  <2>1. (\E b \in Calls : calls'[b].pc = "notify") => \E b \in Calls : calls[b].pc = "notify"
    BY <1>6, <1>9
  <2> QED BY <1>0, <1>10, <2>1 DEF SessionInv, NotifiedLast
<1>17. MovesSession'
  <2>1. q.pc \in {"move", "drop"} => q.session # 0 BY <1>1, <1>2, <1>5 DEF Reading
  <2> QED BY <1>0, <1>6, <2>1 DEF SessionInv, MovesSession
<1> QED BY <1>0, <1>4, <1>8, <1>13, <1>14, <1>15, <1>16, <1>17 DEF IInv, SessionInv

\* A step of a sign-in, a refresh or a sign-out that leaves storage as it is.
LEMMA CallMovesOn ==
  ASSUME IInv, NEW a \in Calls, NEW q \in CallType, calls' = [calls EXCEPT ![a] = q],
         UNCHANGED <<rt, scoped, legacy, raced>>,
         calls[a].pc \notin {"clear", "notify", "move", "drop"},
         q.pc \in {"idle", "read", "got", "set"}
  PROVE  SessionInv' /\ calls' \in [Calls -> CallType]
<1>0. SessionInv /\ OthersTyped BY DEF IInv
<1>1. \A b \in Calls : calls'[b] = IF b = a THEN q ELSE calls[b] BY <1>0 DEF OthersTyped
<1>2. /\ \A b \in Calls : calls'[b].pc \in {"clear", "notify", "move", "drop"} => calls'[b] = calls[b]
      /\ \A b \in Calls : calls[b].pc \in {"clear", "notify", "move", "drop"} => calls'[b] = calls[b]
  BY <1>1
<1>3. Effective' = Effective /\ (Unheard' <=> Unheard) BY <1>2 DEF Effective, Unheard
<1>4. SocketAgrees' BY <1>0, <1>3 DEF SessionInv, SocketAgrees, Agrees
<1>5. RequestsAgree' BY <1>0, <1>3 DEF SessionInv, RequestsAgree, Agrees
<1>6. Dropping' => Dropping BY <1>2 DEF Dropping
<1>7. DropIsHarmless' BY <1>0, <1>2, <1>6 DEF SessionInv, DropIsHarmless
<1>8. NotifiedLast' BY <1>0, <1>2 DEF SessionInv, NotifiedLast
<1>9. MovesSession' BY <1>0, <1>2 DEF SessionInv, MovesSession
<1>10. calls' \in [Calls -> CallType] BY <1>0 DEF OthersTyped
<1> QED BY <1>4, <1>5, <1>7, <1>8, <1>9, <1>10 DEF SessionInv

\* The places a call can get to.
LEMMA CallTypes ==
  ASSUME OthersTyped, NEW a \in Calls
  PROVE  /\ NoCall \in CallType /\ NoCall.pc = "idle"
         /\ calls[a] \in CallType
         /\ \A s \in {"read", "clear", "notify"} :
              [calls[a] EXCEPT !.pc = s] \in CallType /\ [calls[a] EXCEPT !.pc = s].pc = s
         /\ \A s \in {"set", "idle"} :
              [NoCall EXCEPT !.pc = s] \in CallType /\ [NoCall EXCEPT !.pc = s].pc = s
<1>1. calls[a] \in CallType BY DEF OthersTyped
<1>2. NoCall \in CallType /\ NoCall.pc = "idle" BY Zero DEF NoCall, CallType
<1>3. ASSUME NEW s \in {"read", "clear", "notify"}
      PROVE [calls[a] EXCEPT !.pc = s] \in CallType /\ [calls[a] EXCEPT !.pc = s].pc = s
  BY <1>1 DEF CallType, Reading
<1>4. ASSUME NEW s \in {"set", "idle"}
      PROVE [NoCall EXCEPT !.pc = s] \in CallType /\ [NoCall EXCEPT !.pc = s].pc = s
  BY Zero DEF NoCall, CallType
<1> QED BY <1>1, <1>2, <1>3, <1>4

\* A session has been issued.
LEMMA SessionArrivesStep ==
  ASSUME IInv, NEW a \in Calls, SessionArrives(a)
  PROVE  IInv' /\ rt'.fabricated = rt.fabricated
<1> DEFINE q == [pc |-> "set", session |-> issued + 1]
<1>0. Sound(rt) /\ OthersTyped BY DEF IInv
<1>1. /\ calls' = [calls EXCEPT ![a] = q] /\ UNCHANGED <<rt, scoped, legacy, raced>>
      /\ calls[a].pc = "idle" /\ issued' = issued + 1 /\ issued < MaxSessions /\ Disturb
  BY DEF SessionArrives, Begins
<1>2. issued + 1 \in 0..MaxSessions BY <1>0, <1>1, BoundsAssumption DEF OthersTyped
<1>3. q \in CallType /\ q.pc = "set" BY <1>2 DEF CallType
<1> HIDE DEF q
<1>4. SessionInv' /\ calls' \in [Calls -> CallType] BY <1>1, <1>3, CallMovesOn
<1>5. OthersTyped' BY <1>0, <1>1, <1>2, <1>4, TroubleCounts DEF OthersTyped
<1> QED BY <1>0, <1>1, <1>4, <1>5 DEF IInv

\* A sign-out begins, and is answered.
LEMMA LogoutStep ==
  ASSUME IInv, NEW a \in Calls, Logout(a) \/ LogoutAnswered(a)
  PROVE  IInv' /\ rt'.fabricated = rt.fabricated
<1>0. Sound(rt) /\ OthersTyped BY DEF IInv
<1>1. UNCHANGED <<rt, scoped, legacy, raced, issued>> BY DEF Logout, LogoutAnswered
<1>2. CASE Logout(a)
  <2> DEFINE q == [calls[a] EXCEPT !.pc = "read"]
  <2>1. q \in CallType /\ q.pc = "read" BY <1>0, CallTypes
  <2>2. calls' = [calls EXCEPT ![a] = q] /\ calls[a].pc = "idle" /\ Disturb
    BY <1>2 DEF Logout, Begins
  <2> HIDE DEF q
  <2>3. SessionInv' /\ calls' \in [Calls -> CallType] BY <1>1, <2>1, <2>2, CallMovesOn
  <2>4. OthersTyped' BY <1>0, <1>1, <2>2, <2>3, TroubleCounts DEF OthersTyped
  <2> QED BY <1>0, <1>1, <2>3, <2>4 DEF IInv
<1>3. CASE LogoutAnswered(a)
  <2>1. PICK done \in BOOLEAN :
          calls' = [calls EXCEPT ![a] = [NoCall EXCEPT !.pc = IF done THEN "set" ELSE "idle"]]
    BY <1>3 DEF LogoutAnswered
  <2> DEFINE q == [NoCall EXCEPT !.pc = IF done THEN "set" ELSE "idle"]
  <2>2. q \in CallType /\ q.pc \in {"set", "idle"} BY <1>0, CallTypes
  <2>3. calls' = [calls EXCEPT ![a] = q] /\ calls[a].pc = "got" /\ trouble' = trouble
    BY <1>3, <2>1 DEF LogoutAnswered
  <2> HIDE DEF q
  <2>4. SessionInv' /\ calls' \in [Calls -> CallType] BY <1>1, <2>2, <2>3, CallMovesOn
  <2>5. OthersTyped' BY <1>0, <1>1, <2>3, <2>4 DEF OthersTyped
  <2> QED BY <1>0, <1>1, <2>4, <2>5 DEF IInv
<1> QED BY <1>2, <1>3

\* The scoped key is written: until it is announced nothing speaks for the stored session.
LEMMA PersistScopedStep ==
  ASSUME IInv, NEW a \in Calls, PersistScoped(a)
  PROVE  IInv' /\ rt'.fabricated = rt.fabricated
<1>0. Sound(rt) /\ OthersTyped /\ SessionInv BY DEF IInv
<1>1. calls[a].pc = "set" /\ UNCHANGED <<rt, legacy, issued, raced>> BY DEF PersistScoped
<1>2. CASE scoped' = calls[a].session /\ calls' = [calls EXCEPT ![a].pc = "clear"] /\ trouble' = trouble
  <2> DEFINE q == [calls[a] EXCEPT !.pc = "clear"]
  <2>1. q \in CallType /\ q.pc = "clear" /\ calls[a].session \in 0..MaxSessions
    BY <1>0, CallTypes DEF CallType
  <2>2. calls' = [calls EXCEPT ![a] = q] BY <1>2
  <2> HIDE DEF q
  <2>3. /\ calls' \in [Calls -> CallType]
        /\ \A b \in Calls : calls'[b] = IF b = a THEN q ELSE calls[b]
    BY <1>0, <2>1, <2>2 DEF OthersTyped
  <2>4. OthersTyped' BY <1>0, <1>1, <1>2, <2>1, <2>3 DEF OthersTyped
  <2>5. \E b \in Calls : calls'[b].pc = "clear" BY <2>1, <2>3
  <2>6. SocketAgrees' /\ RequestsAgree' /\ DropIsHarmless'
    BY <2>5 DEF SocketAgrees, RequestsAgree, DropIsHarmless, Agrees, Unheard
  <2>7. NotifiedLast' /\ MovesSession'
    BY <1>0, <1>1, <2>1, <2>3 DEF SessionInv, NotifiedLast, MovesSession
  <2> QED BY <1>0, <1>1, <2>4, <2>6, <2>7 DEF IInv, SessionInv
<1>3. CASE Disturb /\ scoped' = scoped /\ calls' = [calls EXCEPT ![a] = NoCall]
  <2>1. NoCall \in CallType /\ NoCall.pc = "idle" BY <1>0, CallTypes
  <2>2. SessionInv' /\ calls' \in [Calls -> CallType] BY <1>1, <1>3, <2>1, CallMovesOn
  <2>3. OthersTyped' BY <1>0, <1>1, <1>3, <2>2, TroubleCounts DEF OthersTyped
  <2> QED BY <1>0, <1>1, <2>2, <2>3 DEF IInv
<1> QED BY <1>2, <1>3 DEF PersistScoped

\* The legacy key is dropped.
LEMMA ClearLegacyStep ==
  ASSUME IInv, NEW a \in Calls, ClearLegacy(a)
  PROVE  IInv' /\ rt'.fabricated = rt.fabricated
<1>0. Sound(rt) /\ OthersTyped /\ SessionInv BY DEF IInv
<1>1. calls[a].pc = "clear" /\ UNCHANGED <<rt, scoped, issued>> BY DEF ClearLegacy
<1>2. CASE legacy' = 0 /\ calls' = [calls EXCEPT ![a].pc = "notify"] /\ UNCHANGED <<raced, trouble>>
  <2> DEFINE q == [calls[a] EXCEPT !.pc = "notify"]
  <2>1. q \in CallType /\ q.pc = "notify" BY <1>0, CallTypes
  <2>2. calls' = [calls EXCEPT ![a] = q] BY <1>2
  <2> HIDE DEF q
  <2>3. /\ calls' \in [Calls -> CallType]
        /\ \A b \in Calls : calls'[b] = IF b = a THEN q ELSE calls[b]
    BY <1>0, <2>1, <2>2 DEF OthersTyped
  <2>4. OthersTyped' BY <1>0, <1>1, <1>2, <2>3, Zero DEF OthersTyped
  <2>5. Unheard' BY <2>1, <2>3 DEF Unheard
  <2>6. SocketAgrees' /\ RequestsAgree' BY <2>5 DEF SocketAgrees, RequestsAgree, Agrees
  <2>7. DropIsHarmless' /\ NotifiedLast' BY <1>2 DEF DropIsHarmless, NotifiedLast
  <2>8. MovesSession' BY <1>0, <2>1, <2>3 DEF SessionInv, MovesSession
  <2> QED BY <1>0, <1>1, <2>4, <2>6, <2>7, <2>8 DEF IInv, SessionInv
<1>3. CASE Disturb /\ legacy' = legacy /\ calls' = [calls EXCEPT ![a] = NoCall] /\ raced' = TRUE
  <2>1. NoCall \in CallType /\ NoCall.pc = "idle" BY <1>0, CallTypes
  <2>2. /\ calls' \in [Calls -> CallType]
        /\ \A b \in Calls : calls'[b] = IF b = a THEN NoCall ELSE calls[b]
    BY <1>0, <1>3, <2>1 DEF OthersTyped
  <2>3. OthersTyped' BY <1>0, <1>1, <1>3, <2>2, TroubleCounts DEF OthersTyped
  <2>4. Unheard' BY <1>3 DEF Unheard
  <2>5. SocketAgrees' /\ RequestsAgree' /\ DropIsHarmless'
    BY <1>3, <2>4 DEF SocketAgrees, RequestsAgree, Agrees, DropIsHarmless
  <2>6. NotifiedLast' /\ MovesSession'
    BY <1>0, <1>3, <2>1, <2>2 DEF SessionInv, NotifiedLast, MovesSession
  <2> QED BY <1>0, <1>1, <2>3, <2>5, <2>6 DEF IInv, SessionInv
<1> QED BY <1>2, <1>3 DEF ClearLegacy

\* The change is announced: the socket is given up and every request becomes outdated.
LEMMA NotifyStep ==
  ASSUME IInv, NEW a \in Calls, Notify(a)
  PROVE  IInv' /\ rt'.fabricated = rt.fabricated
<1>0. Sound(rt) /\ OthersTyped /\ SessionInv /\ trouble \in Nat BY TroubleCounts DEF IInv
<1>1. /\ calls[a].pc = "notify" /\ FreeRequests(rt) # {} /\ calls' = [calls EXCEPT ![a] = NoCall]
      /\ rt' \in HandleIdentityChange(Outdated(rt)) /\ raced' = FALSE
      /\ UNCHANGED <<scoped, legacy, issued, trouble>>
  BY DEF Notify, Room
<1>2. Sound(rt') /\ Carries(rt', Outdated(rt)) /\ rt'.ws = 0 /\ rt'.fabricated = rt.fabricated
  BY <1>0, <1>1, IdentityChangeSound
<1>3. NoCall \in CallType /\ NoCall.pc = "idle" BY <1>0, CallTypes
<1>4. /\ calls' \in [Calls -> CallType]
      /\ \A b \in Calls : calls'[b] = IF b = a THEN NoCall ELSE calls[b]
  BY <1>0, <1>1, <1>3 DEF OthersTyped
<1>5. OthersTyped' BY <1>0, <1>1, <1>4 DEF OthersTyped
<1>6. SocketAgrees' BY <1>2 DEF SocketAgrees
<1>7. RequestsAgree'
  <2>1. \A r \in Requests : /\ Outdated(rt).requests[r].pc = rt.requests[r].pc
                            /\ rt.requests[r].pc # "free" => Outdated(rt).requests[r].stale
    BY <1>0, OutdatedEffect DEF Sound, Calm
  <2>2. NoRequest.pc = "free" /\ NewRequest.pc = "read" BY DEF NoRequest, NewRequest
  <2> QED BY <1>2, <2>1, <2>2 DEF RequestsAgree, Carries
<1>8. DropIsHarmless' /\ NotifiedLast'
  <2>1. legacy' = 0 BY <1>0, <1>1 DEF SessionInv, NotifiedLast
  <2> QED BY <2>1 DEF DropIsHarmless, NotifiedLast
<1>9. MovesSession' BY <1>0, <1>3, <1>4 DEF SessionInv, MovesSession
<1> QED BY <1>2, <1>5, <1>6, <1>7, <1>8, <1>9 DEF IInv, SessionInv

-----------------------------------------------------------------------------
(* Every step, and the theorems *)

\* A step of the channel alone, that succeeds the state before or installs a
\* socket, leaves what is stored and its relation to the channel as they were.
LEMMA ChannelStep ==
  ASSUME IInv, Succeeds(rt', rt) \/ \E r \in Requests : Installs(r),
         UNCHANGED Environment, Disturb \/ trouble' = trouble
  PROVE  IInv' /\ rt'.fabricated = rt.fabricated
<1>0. Sound(rt) /\ OthersTyped BY DEF IInv
<1>1. UNCHANGED <<scoped, legacy, calls, issued, raced>> BY DEF Environment
<1>2. OthersTyped' BY <1>0, <1>1, TroubleCounts DEF OthersTyped
<1>3. Sound(rt') /\ rt'.fabricated = rt.fabricated BY DEF Succeeds, Installs
<1>4. SessionInv' BY <1>1, ChannelKeepsSession, InstallKeepsSession DEF Succeeds
<1> QED BY <1>2, <1>3, <1>4 DEF IInv

\* Every step of the specification keeps the inductive invariant; with one
\* subscription of a table it makes no change up either.
LEMMA NextInv ==
  ASSUME IInv, [Next]_vars
  PROVE  IInv' /\ (OneEach => rt'.fabricated = rt.fabricated)
<1>0. Sound(rt) /\ OthersTyped /\ trouble \in Nat BY TroubleCounts DEF IInv
<1>1. ASSUME AppSubscribes \/ AppUnsubscribes \/ AppRemovesChannel
      PROVE IInv' /\ rt'.fabricated = rt.fabricated
  <2>1. Succeeds(rt', rt) BY <1>0, <1>1, ApplicationStep
  <2>2. UNCHANGED Environment /\ trouble' = trouble
    BY <1>1 DEF AppSubscribes, AppUnsubscribes, AppRemovesChannel, Environment
  <2> QED BY <2>1, <2>2, ChannelStep
<1>2. ASSUME NEW a \in Calls, SignIn(a) \/ RefreshSession(a) \/ Logout(a) \/ Call(a)
      PROVE IInv' /\ rt'.fabricated = rt.fabricated
  BY <1>2, SessionArrivesStep, LogoutStep, CallReadsStep, PersistScopedStep, ClearLegacyStep,
     NotifyStep DEF SignIn, RefreshSession, Call
<1>3. ASSUME NEW r \in Requests, RequestReads(r)
      PROVE IInv' /\ rt'.fabricated = rt.fabricated
  BY <1>3, RequestReadsStep
<1>4. ASSUME NEW r \in Requests, TokenArrives(r)
      PROVE IInv' /\ rt'.fabricated = rt.fabricated
  <2>1. Succeeds(rt', rt) \/ Installs(r) BY <1>0, <1>4, TokenArrivesStep
  <2>2. UNCHANGED Environment /\ (Disturb \/ trouble' = trouble)
    BY <1>4 DEF TokenArrives, Environment
  <2> QED BY <2>1, <2>2, ChannelStep
<1>5. ASSUME NEW r \in Requests, NEW b \in BOOLEAN, TokenFails(r, b)
      PROVE IInv' /\ rt'.fabricated = rt.fabricated
  <2>1. Succeeds(rt', rt) BY <1>0, <1>5, TokenFailsStep
  <2>2. UNCHANGED Environment /\ Disturb BY <1>5 DEF TokenFails, Environment
  <2> QED BY <2>1, <2>2, ChannelStep
<1>6. ASSUME NEW i \in Sockets,
             SocketOpens(i) \/ ConnectionAck(i) \/ OperationError(i) \/ SocketFails(i)
      PROVE IInv' /\ rt'.fabricated = rt.fabricated
  <2>1. Succeeds(rt', rt)
    BY <1>0, <1>6, SocketOpensStep, ConnectionAckStep, OperationErrorStep, SocketFailsStep
  <2>2. UNCHANGED Environment /\ (Disturb \/ trouble' = trouble)
    BY <1>6 DEF SocketOpens, ConnectionAck, OperationError, SocketFails
  <2> QED BY <2>1, <2>2, ChannelStep
<1>7. ASSUME NEW i \in Sockets, NEW k \in DOMAIN Configs, NextResult(i, k)
      PROVE IInv' /\ (OneEach => rt'.fabricated = rt.fabricated)
  <2>1. Sound(rt') /\ Carries(rt', rt) /\ (OneEach => rt'.fabricated = rt.fabricated)
    BY <1>0, <1>7, NextResultStep
  <2>2. UNCHANGED <<scoped, legacy, calls, issued, raced>> /\ trouble' = trouble
    BY <1>7 DEF NextResult, Environment
  <2>3. SessionInv' BY <2>1, <2>2, ChannelKeepsSession
  <2>4. OthersTyped' BY <1>0, <2>2 DEF OthersTyped
  <2> QED BY <2>1, <2>3, <2>4 DEF IInv
<1>8. ASSUME NEW i \in Sockets, NEW b \in BOOLEAN, SocketCloses(i, b)
      PROVE IInv' /\ rt'.fabricated = rt.fabricated
  <2>1. Succeeds(rt', rt) BY <1>0, <1>8, SocketClosesStep
  <2>2. UNCHANGED Environment /\ (Disturb \/ trouble' = trouble) BY <1>8 DEF SocketCloses
  <2> QED BY <2>1, <2>2, ChannelStep
<1>9. ASSUME AckTimeout \/ RenewalDue \/ ExpiryDue \/ ReconnectDue
      PROVE IInv' /\ rt'.fabricated = rt.fabricated
  <2>1. Succeeds(rt', rt) BY <1>0, <1>9, AckTimeoutStep, RenewalStep, ExpiryStep, ReconnectDueStep
  <2>2. UNCHANGED Environment /\ (Disturb \/ trouble' = trouble)
    BY <1>9 DEF AckTimeout, RenewalDue, ExpiryDue, ReconnectDue
  <2> QED BY <2>1, <2>2, ChannelStep
<1>10. CASE UNCHANGED vars
  <2>1. UNCHANGED <<rt, scoped, legacy, calls, issued, raced, trouble>> BY <1>10 DEF vars
  <2>2. OthersTyped' BY <1>0, <2>1 DEF OthersTyped
  <2>3. Effective' = Effective /\ Unheard' = Unheard BY <2>1 DEF Effective, Unheard
  <2>4. SessionInv'
    BY <2>1, <2>3 DEF IInv, SessionInv, SocketAgrees, RequestsAgree, Agrees, DropIsHarmless,
                      Dropping, NotifiedLast, MovesSession
  <2> QED BY <1>0, <2>1, <2>2, <2>4 DEF IInv
<1> QED BY <1>1, <1>2, <1>3, <1>4, <1>5, <1>6, <1>7, <1>8, <1>9, <1>10 DEF Next

\* What the invariant says of the properties the runs check.
LEMMA InvIsSound == IInv => ChannelSound
<1> SUFFICES ASSUME IInv PROVE ChannelSound OBVIOUS
<1>1. /\ Shape(rt) /\ SocketSound(rt) /\ TimerSound(rt) /\ Told(rt) /\ Heeded(rt)
      /\ OthersTyped /\ SocketAgrees
  BY DEF IInv, Sound, Calm, SessionInv
<1>2. TypeOK
  <2>1. rt \in Channel BY <1>1, ShapeIsTyped DEF Shape
  <2> QED BY <1>1, <2>1 DEF TypeOK, OthersTyped, CallType
<1>3. IdentityIsCurrent BY <1>1 DEF SocketSound, IdentityIsCurrent
<1>4. SocketIsOfSession BY <1>1 DEF SocketIsOfSession, SocketAgrees, Agrees, Unheard, Reading
<1>5. NoSocketLeaks
  <2>1. rt.subscribed \in BOOLEAN /\ rt.disposed \in BOOLEAN BY <1>1 DEF Shape, Typed
  <2> QED BY <1>1, <2>1 DEF SocketSound, NoSocketLeaks, OnlyOwn, Open, Lists
<1>6. OneTimerEach BY <1>1 DEF TimerSound, OneTimerEach
<1>7. StatusIsTrue BY <1>1 DEF StatusIsTrue, Told, Heeded
<1> QED BY <1>2, <1>3, <1>4, <1>5, <1>6, <1>7 DEF ChannelSound

\* The channel is sound in every state, however sign-ins and sign-outs, token
\* requests, socket events, timers and the application's callbacks interleave: one
\* live socket at most, of the identity and the session in force, no timer armed
\* over a pending one, and a status the application can believe.
THEOREM ChannelIsSound == Spec => []ChannelSound
<1>1. IInv /\ [Next]_vars => IInv' BY NextInv
<1>2. Spec => []IInv BY <1>1, InitInv, PTL DEF Spec
<1>3. QED BY <1>2, InvIsSound, PTL

\* Where no two subscriptions of a channel are of one table, no change the
\* application is told of is made up from two different streams of results.
THEOREM NothingIsFabricated ==
  ASSUME OneEach
  PROVE  Spec => []NothingFabricated
<1>1. Init => IInv /\ NothingFabricated BY InitInv DEF Init, NothingFabricated
<1>2. IInv /\ NothingFabricated /\ [Next]_vars => (IInv /\ NothingFabricated)'
  BY NextInv DEF NothingFabricated
<1>3. QED BY <1>1, <1>2, PTL DEF Spec
=============================================================================
