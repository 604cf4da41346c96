--------------------------- MODULE RealtimeClient ---------------------------
(***************************************************************************)
(* The SDK's realtime channel and the project session it is opened for.     *)
(*                                                                         *)
(* A channel exchanges the stored session for a short-lived token, opens a  *)
(* socket with it, renews it before it expires and reconnects after a       *)
(* failure.  Everything is asynchronous: token requests, socket events and  *)
(* timers outlive what they were started for, sign-ins and sign-outs change *)
(* the stored session underneath, and the application calls back into the   *)
(* channel from its status and data callbacks.                              *)
(*                                                                         *)
(* A generation number is represented by its only bearer: the request or    *)
(* the socket that captured it, or 0 once it has been advanced past them.   *)
(* Backoff and expiry times are left out: a timer that is armed may fire.   *)
(* Sources: packages/sdk/src: modules/realtime.ts, realtime-token.ts,       *)
(* project-auth.ts, DruviaClient.ts, lib/fetch-adapter.ts.                  *)
(***************************************************************************)
EXTENDS Naturals, Sequences

CONSTANTS
    Configs,      \* the table of each .on() subscription of the channel
    MaxCalls,     \* sign-ins, refreshes and sign-outs under way
    StoredFirst,  \* session there is at first: "scoped", "legacy" or "none"
    MaxRequests,  \* token requests under way, abandoned ones included
    MaxSockets,   \* sockets that still have events to deliver
    MaxSessions,  \* sessions ever issued
    MaxTrouble,   \* sign-ins, sign-outs and failures
    MaxEvents     \* the same and the application's calls to the channel

ASSUME BoundsAssumption ==
    /\ {MaxCalls, MaxRequests, MaxSockets, MaxSessions} \subseteq Nat \ {0}
    /\ {MaxTrouble, MaxEvents} \subseteq Nat
    /\ Len(Configs) > 0 /\ StoredFirst \in {"scoped", "legacy", "none"}

VARIABLES
    rt,       \* the channel, its token requests and its sockets
    scoped,   \* session under druvia.project_session:<project>, 0 if none
    legacy,   \* session under druvia.project_session
    calls,    \* progress of each sign-in, refresh and sign-out
    issued,   \* sessions issued
    raced,    \* history: the stored session changed, or was missed, unannounced
    trouble   \* sign-ins, sign-outs and failures so far

vars == <<rt, scoped, legacy, calls, issued, raced, trouble>>

\* The handle of a reconnect timer that is pending, and of one that went off.
Armed == 1
Fired == 2

Calls == 1..MaxCalls
Requests == 1..MaxRequests
Sockets == 1..MaxSockets
Tables == {Configs[k] : k \in DOMAIN Configs}
Reading == {"read", "legacy", "move", "drop"}

NoRequest == [pc |-> "free", session |-> 0, stale |-> FALSE]
NoSocket == [phase |-> "free", session |-> 0, stale |-> FALSE, closed |-> FALSE]
NoStream == <<0, 0>>
NoSnapshot == [t \in Tables |-> NoStream]
NoCall == [pc |-> "idle", session |-> 0]

Request == [pc : Reading \cup {"free", "got"}, session : 0..MaxSessions, stale : BOOLEAN]
Socket == [phase : {"free", "connecting", "open", "acked"}, session : 0..MaxSessions,
           stale : BOOLEAN, closed : BOOLEAN]
Channel ==
    [subscribed : BOOLEAN, disposed : BOOLEAN, retryHalted : BOOLEAN, listening : BOOLEAN,
     handle : BOOLEAN, errorHeard : BOOLEAN, doubled : BOOLEAN, fabricated : BOOLEAN,
     reconnectTimer : {0, Armed, Fired},
     ws : {0} \cup Sockets, generation : {0} \cup Sockets, ackTimer : {0} \cup Sockets,
     renewalTimer : {0} \cup Sockets, expiryTimer : {0} \cup Sockets,
     tokenRequest : {0} \cup Requests, tokenRequestGeneration : {0} \cup Requests,
     snapshot : [Tables -> {NoStream} \cup (Sockets \X DOMAIN Configs)],
     requests : [Requests -> Request], sockets : [Sockets -> Socket], user : 0..MaxEvents]

TypeOK ==
    /\ rt \in Channel
    /\ {scoped, legacy, issued} \subseteq 0..MaxSessions /\ raced \in BOOLEAN
    /\ calls \in [Calls -> [pc : Reading \cup {"idle", "got", "set", "clear", "notify"},
                            session : 0..MaxSessions]]
    /\ trouble \in 0..MaxTrouble

\* The session readSessionRaw is meant to find.
Effective == IF scoped # 0 THEN scoped ELSE legacy

Init ==
    /\ rt = [subscribed |-> FALSE, disposed |-> FALSE, retryHalted |-> FALSE,
             listening |-> FALSE, handle |-> FALSE, errorHeard |-> FALSE,
             ws |-> 0, generation |-> 0, tokenRequest |-> 0, tokenRequestGeneration |-> 0,
             reconnectTimer |-> 0, ackTimer |-> 0, renewalTimer |-> 0, expiryTimer |-> 0,
             snapshot |-> NoSnapshot,
             requests |-> [r \in Requests |-> NoRequest],
             sockets |-> [i \in Sockets |-> NoSocket],
             user |-> 0, doubled |-> FALSE, fabricated |-> FALSE]
    /\ issued = IF StoredFirst = "none" THEN 0 ELSE 1
    /\ scoped = IF StoredFirst = "scoped" THEN 1 ELSE 0
    /\ legacy = IF StoredFirst = "legacy" THEN 1 ELSE 0
    /\ calls = [a \in Calls |-> NoCall]
    /\ raced = FALSE /\ trouble = 0

\* How many events there may still be.
Left(c) == MaxEvents > c.user + trouble
Disturb == Left(rt) /\ trouble < MaxTrouble /\ trouble' = trouble + 1

-----------------------------------------------------------------------------
(* Methods of the channel, as functions of its state.  Those that run a      *)
(* callback of the application give the set of states they may end in.       *)

ClearSocketTimers(c) == [c EXCEPT !.ackTimer = 0, !.renewalTimer = 0, !.expiryTimer = 0]
CancelReconnectTimer(c) == [c EXCEPT !.reconnectTimer = 0]
ClearAllTimers(c) == CancelReconnectTimer(ClearSocketTimers(c))

\* Arming a timer over one that is still pending would leave that one behind.
Arm(c, timer, i) ==
    [c EXCEPT ![timer] = i, !.doubled = @ \/ c[timer] # 0]

\* Mutant: the request under way keeps its generation and its place.
InvalidateTokenRequest_Kept(c) == c

InvalidateTokenRequest(c) == [c EXCEPT !.tokenRequest = 0, !.tokenRequestGeneration = 0]

\* A socket that was closed may still deliver events; whose it was is forgotten.
Close(c, i) ==
    IF i = 0 THEN c
    ELSE [c EXCEPT !.sockets[i] = [NoSocket EXCEPT !.phase = c.sockets[i].phase, !.closed = TRUE]]

InvalidateActiveSocket(c) ==
    Close([ClearSocketTimers(c) EXCEPT !.generation = 0, !.ws = 0], c.ws)

IsTokenRequestCurrent(c, r) == c.subscribed /\ ~c.disposed /\ c.tokenRequestGeneration = r
IsSocketCurrent(c, i) == c.subscribed /\ ~c.disposed /\ c.generation = i /\ c.ws = i

FreeRequests(c) == {r \in Requests : c.requests[r].pc = "free"}

\* One token request at a time; it begins by reading the stored session.
StartConnection(c) ==
    IF ~c.subscribed \/ c.disposed \/ c.retryHalted \/ c.tokenRequest # 0 THEN c
    ELSE LET r == CHOOSE x \in FreeRequests(c) : TRUE IN
         [c EXCEPT !.tokenRequest = r, !.tokenRequestGeneration = r,
                   !.requests[r] = [NoRequest EXCEPT !.pc = "read"]]

\* What a channel holds, given up: its token request, its timers and its socket.
Released(c) == InvalidateActiveSocket(ClearAllTimers(InvalidateTokenRequest(c)))

\* stopLifecycle, before and after the application is told CLOSED: the callback is
\* forgotten whatever it did.
Stopped(c) ==
    [Released([c EXCEPT !.subscribed = FALSE, !.retryHalted = FALSE, !.handle = FALSE])
        EXCEPT !.snapshot = NoSnapshot]
CallbackForgotten(c) == [c EXCEPT !.listening = FALSE]

\* subscribe, before and after the application is told CONNECTING.  The caller has
\* the handle to unsubscribe only when subscribe has returned.
Subscribing(c) ==
    [c EXCEPT !.subscribed = TRUE, !.retryHalted = FALSE, !.listening = TRUE, !.handle = FALSE]
Subscribed(c) == [StartConnection(c) EXCEPT !.handle = c.subscribed]

\* The end of dispose.
Disposed(c) == [c EXCEPT !.disposed = TRUE, !.snapshot = NoSnapshot]

-----------------------------------------------------------------------------
(* The application's callbacks, and the methods that run them *)

\* Of the status the application heard last, whether it was an error.
Heard(c, status) == IF c.listening THEN [c EXCEPT !.errorHeard = (status = "CHANNEL_ERROR")] ELSE c

\* What a callback may do before it returns: unsubscribe, subscribe again, or
\* remove the channel.  Callbacks those run in turn return at once.
Reactions(c) ==
    IF ~Left(c) \/ FreeRequests(c) = {} THEN {}
    ELSE LET d == [c EXCEPT !.user = @ + 1]
             ended == CallbackForgotten(Heard(Stopped(d), "CLOSED"))
             stopped == IF d.handle THEN {ended} ELSE {}
             again == {e \in stopped \cup {d} : ~e.subscribed /\ ~e.disposed}
         IN stopped \cup {Subscribed(Heard(Subscribing(e), "CONNECTING")) : e \in again}
                    \cup (IF d.disposed THEN {}
                          ELSE {Disposed(IF d.subscribed THEN ended ELSE Released(d))})

EmitStatus(c, status) ==
    LET d == Heard(c, status) IN {d} \cup IF c.listening THEN Reactions(d) ELSE {}

\* A data callback may do the same.
EmitChange(c) == {c} \cup Reactions(c)

ScheduleReconnect(c) ==
    IF ~c.subscribed \/ c.disposed \/ c.retryHalted \/ c.reconnectTimer # 0 THEN {c}
    ELSE {Arm(d, "reconnectTimer", Armed) : d \in EmitStatus(c, "RECONNECTING")}

StopLifecycle(c) == {CallbackForgotten(d) : d \in EmitStatus(Stopped(c), "CLOSED")}

Subscribe(c) == {Subscribed(d) : d \in EmitStatus(Subscribing(c), "CONNECTING")}

Dispose(c) ==
    {Disposed(d) : d \in IF c.subscribed THEN StopLifecycle(c) ELSE {Released(c)}}

HandleIdentityChange(c) ==
    IF ~c.subscribed \/ c.disposed THEN {c}
    ELSE {StartConnection(d) :
            d \in EmitStatus([InvalidateActiveSocket(InvalidateTokenRequest(CancelReconnectTimer(c)))
                                EXCEPT !.retryHalted = FALSE, !.snapshot = NoSnapshot], "CONNECTING")}

\* retryHalted, the socket given up, and the application told.
Halt(c) == EmitStatus([InvalidateActiveSocket(c) EXCEPT !.retryHalted = TRUE], "CHANNEL_ERROR")

Room == FreeRequests(rt) # {}
Spent == [rt EXCEPT !.user = @ + 1]

AppSubscribes ==
    /\ Left(rt) /\ Room /\ ~rt.disposed /\ ~rt.subscribed
    /\ rt' \in Subscribe(Spent)
    /\ UNCHANGED <<scoped, legacy, calls, issued, raced, trouble>>

AppUnsubscribes ==
    /\ Left(rt) /\ rt.handle /\ rt.subscribed
    /\ rt' \in StopLifecycle(Spent)
    /\ UNCHANGED <<scoped, legacy, calls, issued, raced, trouble>>

\* removeChannel, for a channel that has not been removed yet.
AppRemovesChannel ==
    /\ Left(rt) /\ ~rt.disposed
    /\ rt' \in Dispose(Spent)
    /\ UNCHANGED <<scoped, legacy, calls, issued, raced, trouble>>

-----------------------------------------------------------------------------
(* The stored session *)

\* readSessionRaw, one storage call at a time, for a token request or a sign-out:
\* the scoped key, then the legacy one, which is moved to the scoped key.
ReadNext(p) ==
    CASE p.pc = "read" ->
           IF scoped # 0 THEN [p EXCEPT !.pc = "got", !.session = scoped]
           ELSE [p EXCEPT !.pc = "legacy"]
      [] p.pc = "legacy" ->
           IF legacy # 0 THEN [p EXCEPT !.pc = "move", !.session = legacy]
           ELSE [p EXCEPT !.pc = "got"]
      [] p.pc = "move" -> [p EXCEPT !.pc = "drop"]
      [] p.pc = "drop" -> [p EXCEPT !.pc = "got"]

\* The move may undo a sign-in or a sign-out that happened since the read, and a
\* read may fall between the two keys while another one moves the session.
ReadEffect(p) ==
    /\ scoped' = IF p.pc = "move" THEN p.session ELSE scoped
    /\ legacy' = IF p.pc = "drop" THEN 0 ELSE legacy
    /\ raced' = \/ raced
                \/ p.pc = "move" /\ Effective # p.session
                \/ p.pc = "legacy" /\ legacy = 0 /\ scoped # 0

RequestReads(r) ==
    /\ rt.requests[r].pc \in Reading
    /\ rt' = [rt EXCEPT !.requests[r] = ReadNext(@)]
    /\ ReadEffect(rt.requests[r])
    /\ UNCHANGED <<calls, issued, trouble>>

CallReads(a) ==
    /\ calls[a].pc \in Reading
    /\ calls' = [calls EXCEPT ![a] = ReadNext(@)]
    /\ ReadEffect(calls[a])
    /\ UNCHANGED <<rt, issued, trouble>>

\* A call begins in the first place that is free.
Begins(a) == calls[a].pc = "idle" /\ \A b \in 1..(a - 1) : calls[b].pc # "idle"

\* The answer has brought a session; what is refused or unanswered changes nothing.
SessionArrives(a) ==
    /\ Begins(a) /\ Disturb /\ issued < MaxSessions
    /\ issued' = issued + 1
    /\ calls' = [calls EXCEPT ![a] = [pc |-> "set", session |-> issued + 1]]
    /\ UNCHANGED <<rt, scoped, legacy, raced>>

\* authRequest, for every provider, and refreshSession.
SignIn(a) == SessionArrives(a)
RefreshSession(a) == SessionArrives(a)

\* logout reads the stored session for its Authorization header first.
Logout(a) ==
    /\ Begins(a) /\ Disturb
    /\ calls' = [calls EXCEPT ![a].pc = "read"]
    /\ UNCHANGED <<rt, scoped, legacy, issued, raced>>

LogoutAnswered(a) ==
    /\ calls[a].pc = "got"
    /\ \E done \in BOOLEAN :
         calls' = [calls EXCEPT ![a] = [NoCall EXCEPT !.pc = IF done THEN "set" ELSE "idle"]]
    /\ UNCHANGED <<rt, scoped, legacy, issued, raced, trouble>>

\* persistSession or clearStoredSession: the scoped key, then the legacy one.  A
\* storage error ends the call without an announcement.
PersistScoped(a) ==
    /\ calls[a].pc = "set"
    /\ \/ /\ scoped' = calls[a].session
          /\ calls' = [calls EXCEPT ![a].pc = "clear"] /\ UNCHANGED trouble
       \/ /\ Disturb /\ UNCHANGED scoped
          /\ calls' = [calls EXCEPT ![a] = NoCall]
    /\ UNCHANGED <<rt, legacy, issued, raced>>

ClearLegacy(a) ==
    /\ calls[a].pc = "clear"
    /\ \/ /\ legacy' = 0
          /\ calls' = [calls EXCEPT ![a].pc = "notify"] /\ UNCHANGED <<raced, trouble>>
       \/ /\ Disturb /\ UNCHANGED legacy
          /\ calls' = [calls EXCEPT ![a] = NoCall]
          /\ raced' = TRUE
    /\ UNCHANGED <<rt, scoped, issued>>

\* History: a request that has begun and a socket there is are of the past.
Outdated(c) ==
    [c EXCEPT !.requests = [r \in Requests |-> IF c.requests[r].pc = "free" THEN c.requests[r]
                                               ELSE [c.requests[r] EXCEPT !.stale = TRUE]],
              !.sockets = [i \in Sockets |->
                             IF c.sockets[i].phase = "free" \/ c.sockets[i].closed THEN c.sockets[i]
                             ELSE [c.sockets[i] EXCEPT !.stale = TRUE]]]

\* notify: the client's listener tells the channel of the new identity.
Notify(a) ==
    /\ calls[a].pc = "notify" /\ Room
    /\ calls' = [calls EXCEPT ![a] = NoCall]
    /\ rt' \in HandleIdentityChange(Outdated(rt))
    /\ raced' = FALSE
    /\ UNCHANGED <<scoped, legacy, issued, trouble>>

-----------------------------------------------------------------------------
(* Token requests *)

\* The promise settles: its handler has run, and `finally` frees the place.
Settled(c, r) ==
    [c EXCEPT !.requests[r] = NoRequest, !.tokenRequest = IF @ = r THEN 0 ELSE @]

\* Slots of sockets nothing refers to any more.
FreeSockets(c) ==
    {i \in Sockets : /\ c.sockets[i].phase = "free"
                     /\ i \notin {c.ackTimer, c.renewalTimer, c.expiryTimer}
                     /\ \A t \in Tables : c.snapshot[t][1] # i}

\* installSocket up to wsFactory: the previous socket is given up first.
Uninstall(c) == Close([ClearAllTimers(c) EXCEPT !.ws = 0, !.generation = 0], c.ws)

Install(c, r) ==
    LET d == Uninstall(c)  i == CHOOSE x \in FreeSockets(c) : TRUE IN
    [d EXCEPT !.ws = i, !.generation = i,
              !.sockets[i] = [phase |-> "connecting", session |-> c.requests[r].session,
                              stale |-> c.requests[r].stale, closed |-> FALSE]]

\* The token service answers with a token; one nobody waits for is dropped.
TokenArrives(r) ==
    /\ rt.requests[r].pc = "got"
    /\ \/ ~IsTokenRequestCurrent(rt, r) /\ rt' = Settled(rt, r) /\ UNCHANGED trouble
       \/ /\ IsTokenRequestCurrent(rt, r) /\ FreeSockets(rt) # {}
          /\ rt' = Settled(Install(rt, r), r) /\ UNCHANGED trouble
       \/ \* the socket factory throws
          /\ IsTokenRequestCurrent(rt, r) /\ Disturb
          /\ rt' \in {Settled(c, r) : c \in ScheduleReconnect(Uninstall(rt))}
    /\ UNCHANGED <<scoped, legacy, calls, issued, raced>>

\* A network error, 429 or 5xx may be retried; another 4xx and a malformed
\* answer may not.  A storage error while the session is read is a network error.
TokenFails(r, retryable) ==
    /\ rt.requests[r].pc # "free" /\ Disturb
    /\ rt.requests[r].pc # "got" => retryable
    /\ rt' \in {Settled(c, r) : c \in
         IF ~IsTokenRequestCurrent(rt, r) THEN {rt}
         ELSE IF retryable THEN ScheduleReconnect(rt)
         ELSE Halt(rt)}
    /\ UNCHANGED <<scoped, legacy, calls, issued, raced>>

-----------------------------------------------------------------------------
(* Socket events, which may come after the socket was given up *)

Environment == <<scoped, legacy, calls, issued, raced>>

\* connection_init is sent and its acknowledgment timed; only the current socket
\* says anything.
SocketOpens(i) ==
    /\ rt.sockets[i].phase = "connecting" /\ IsSocketCurrent(rt, i)
    /\ rt' = Arm([rt EXCEPT !.sockets[i].phase = "open"], "ackTimer", i)
    /\ UNCHANGED <<Environment, trouble>>

\* Mutant: the snapshot of the previous socket is kept.
Acknowledged_KeepsSnapshot(c) == [c EXCEPT !.ackTimer = 0, !.retryHalted = FALSE]

\* connection_ack: the handshake is over and everything begins anew.
Acknowledged(c) == [c EXCEPT !.ackTimer = 0, !.retryHalted = FALSE, !.snapshot = NoSnapshot]

\* Renewal and expiry are timed for this socket after the application was told.
ConnectionAck(i) ==
    LET acked == [rt EXCEPT !.sockets[i].phase = "acked"] IN
    /\ rt.sockets[i].phase = "open"
    /\ rt' \in IF ~IsSocketCurrent(rt, i) THEN {acked}
               ELSE {Arm(Arm(c, "renewalTimer", i), "expiryTimer", i) :
                       c \in EmitStatus(Acknowledged(acked), "SUBSCRIBED")}
    /\ UNCHANGED <<Environment, trouble>>

\* A result of subscription k: the first one of its table is the snapshot, a
\* later one is compared with it, the changes are given to the application, and
\* it becomes the snapshot, whatever the application did.
NextResult(i, k) ==
    LET t == Configs[k]  stream == <<i, k>> IN
    /\ rt.sockets[i].phase = "acked"
    /\ IsSocketCurrent(rt, i)
    /\ rt' \in {[c EXCEPT !.snapshot[t] = stream] :
                  c \in IF rt.snapshot[t] = NoStream THEN {rt}
                        ELSE EmitChange([rt EXCEPT !.fabricated = @ \/ rt.snapshot[t] # stream])}
    /\ UNCHANGED <<Environment, trouble>>

\* An error message of an operation.
OperationError(i) ==
    /\ rt.sockets[i].phase = "acked" /\ IsSocketCurrent(rt, i) /\ Disturb
    /\ rt' \in Halt(rt)
    /\ UNCHANGED Environment

\* The close event, the last of a socket: after a close of ours, or of its own,
\* with an authorization code or another.
Closed(c, i) == [c EXCEPT !.sockets[i] = NoSocket]
SocketCloses(i, unauthorized) ==
    LET gone == Closed(ClearSocketTimers([rt EXCEPT !.ws = 0, !.generation = 0]), i) IN
    /\ rt.sockets[i].phase # "free"
    /\ \/ /\ ~IsSocketCurrent(rt, i) /\ rt.sockets[i].closed
          /\ rt' = Closed(rt, i) /\ UNCHANGED trouble
       \/ /\ IsSocketCurrent(rt, i) /\ Disturb
          /\ rt' \in IF unauthorized
                     THEN EmitStatus([gone EXCEPT !.retryHalted = TRUE], "CHANNEL_ERROR")
                     ELSE ScheduleReconnect(gone)
    /\ UNCHANGED Environment

SocketFails(i) ==
    /\ rt.sockets[i].phase # "free" /\ IsSocketCurrent(rt, i) /\ Disturb
    /\ rt' \in ScheduleReconnect(InvalidateActiveSocket(rt))
    /\ UNCHANGED Environment

-----------------------------------------------------------------------------
(* Timers *)

\* No acknowledgment within ten seconds.
AckTimeout ==
    LET i == rt.ackTimer  c == [rt EXCEPT !.ackTimer = 0] IN
    /\ i # 0
    /\ IF IsSocketCurrent(rt, i)
       THEN Disturb /\ rt' \in ScheduleReconnect(InvalidateActiveSocket(c))
       ELSE rt' = c /\ UNCHANGED trouble
    /\ UNCHANGED Environment

RenewalDue ==
    LET i == rt.renewalTimer  c == [rt EXCEPT !.renewalTimer = 0] IN
    /\ i # 0 /\ Room
    /\ rt' = IF IsSocketCurrent(rt, i) THEN StartConnection(c) ELSE c
    /\ UNCHANGED <<Environment, trouble>>

\* The token runs out before its replacement came: the socket is given up, and
\* a retry that is timed or a request under way is left to bring the next one.
ExpiryDue ==
    LET i == rt.expiryTimer  c == [rt EXCEPT !.expiryTimer = 0] IN
    /\ i # 0 /\ Room
    /\ rt' \in IF IsSocketCurrent(rt, i)
               THEN {IF d.reconnectTimer = 0 /\ d.tokenRequest = 0 THEN StartConnection(d) ELSE d :
                       d \in EmitStatus(InvalidateActiveSocket(c), "RECONNECTING")}
               ELSE {c}
    /\ UNCHANGED <<Environment, trouble>>

\* Mutant: the timer that fired still counts as pending.
TimerFired_StillSet(c) == [c EXCEPT !.reconnectTimer = Fired]

TimerFired(c) == CancelReconnectTimer(c)

ReconnectDue ==
    /\ rt.reconnectTimer = Armed /\ Room
    /\ rt' = StartConnection(TimerFired(rt))
    /\ UNCHANGED <<Environment, trouble>>

-----------------------------------------------------------------------------
Call(a) == CallReads(a) \/ LogoutAnswered(a) \/ PersistScoped(a) \/ ClearLegacy(a) \/ Notify(a)

Next ==
    \/ AppSubscribes \/ AppUnsubscribes \/ AppRemovesChannel
    \/ \E a \in Calls : SignIn(a) \/ RefreshSession(a) \/ Logout(a) \/ Call(a)
    \/ \E r \in Requests : RequestReads(r) \/ TokenArrives(r) \/ \E b \in BOOLEAN : TokenFails(r, b)
    \/ \E i \in Sockets :
         \/ SocketOpens(i) \/ ConnectionAck(i) \/ OperationError(i) \/ SocketFails(i)
         \/ \E k \in DOMAIN Configs : NextResult(i, k)
         \/ \E b \in BOOLEAN : SocketCloses(i, b)
    \/ AckTimeout \/ RenewalDue \/ ExpiryDue \/ ReconnectDue

Spec == Init /\ [][Next]_vars

\* What the channel and its peers do by themselves: session reads and token
\* requests end, sockets open and are acknowledged or report their close, and
\* the reconnect timer fires.
Progress ==
    \/ \E r \in Requests : RequestReads(r) \/ TokenArrives(r)
    \/ \E i \in Sockets : \/ SocketOpens(i) \/ ConnectionAck(i)
                          \/ ~IsSocketCurrent(rt, i) /\ SocketCloses(i, FALSE)
    \/ ReconnectDue

\* Something of that happens as long as something of it can.
FairSpec == Spec /\ WF_vars(Progress)

-----------------------------------------------------------------------------
(* Properties *)

\* Whatever was started for an earlier identity cannot come back: the current
\* socket's token was asked for after the last announced identity change.
IdentityIsCurrent ==
    rt.ws # 0 => rt.generation = rt.ws /\ ~rt.sockets[rt.ws].stale

\* With no sign-in or sign-out under way, and none that ended unannounced, the
\* socket speaks for the session in the storage, in whatever order concurrent
\* calls wrote it and announced it.
SocketIsOfSession ==
    (rt.ws # 0 /\ ~raced /\ \A a \in Calls : calls[a].pc \in Reading \cup {"idle", "got"})
        => rt.sockets[rt.ws].session = Effective

\* No socket but the channel's is left open, and a channel that was stopped or
\* removed has none, even if it was stopped from inside a callback.
NoSocketLeaks ==
    /\ \A i \in Sockets : rt.sockets[i].phase # "free" /\ ~rt.sockets[i].closed => i = rt.ws
    /\ ~rt.subscribed \/ rt.disposed => rt.ws = 0

\* At most one timer of a kind is pending.
OneTimerEach == ~rt.doubled

\* What the application heard last is CHANNEL_ERROR exactly when retries are
\* halted, and nobody is told about a channel that is not subscribed.
StatusIsTrue ==
    rt.listening => /\ rt.subscribed
                    /\ rt.retryHalted <=> rt.errorHeard

\* The channel is sound: well typed, it speaks for the session in force, leaks
\* neither sockets nor timers, and tells the application what is the case.
ChannelSound ==
    TypeOK /\ IdentityIsCurrent /\ SocketIsOfSession /\ NoSocketLeaks /\ OneTimerEach /\ StatusIsTrue

\* Changes are only told from two results of one subscription over one socket:
\* none is made up from what came before a reconnect.
NothingFabricated == ~rt.fabricated

Live == rt.ws # 0 /\ rt.sockets[rt.ws].phase = "acked"

\* A subscribed channel gets (back) to a live stream, unless it is halted or
\* stopped: no order of failures, timers and identity changes wedges it.
Reconnects ==
    (rt.subscribed /\ ~rt.disposed /\ ~rt.retryHalted)
        ~> (Live \/ rt.retryHalted \/ ~rt.subscribed \/ rt.disposed)

-----------------------------------------------------------------------------
(* Statements of the design that the code does not keep *)

\* A permanent failure is not followed by a connection.
HaltedStaysDown == rt.retryHalted => rt.ws = 0

\* Whoever subscribed with a callback is told what becomes of the channel.
SubscriberIsTold == rt.subscribed /\ ~rt.disposed => rt.listening

\* Moving a legacy session to its new key changes no session: it undoes neither a
\* sign-in nor a sign-out.
MoveKeepsSession ==
    [][\A r \in Requests : rt.requests[r].pc = "move" /\ rt'.requests[r].pc = "drop"
         => Effective' = Effective]_vars
=============================================================================
