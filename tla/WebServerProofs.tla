-------------------------- MODULE WebServerProofs ---------------------------
(***************************************************************************)
(* The web console's server: types, sockets and their sessions, the slots  *)
(* that are counted, the gate of the rechecks and the shutdown, for any    *)
(* number of requests, sessions, sockets, trades and ticks.                *)
(***************************************************************************)
EXTENDS WebServer, FiniteSetTheorems, FunctionTheorems, TLAPS

(* The steps at which a goroutine has a socket of its own.                 *)
Connected == {"upgraded", "serving", "leaving"}

Locals == [at: Steps, sid: 0 .. MaxSessions, sock: 0 .. MaxSockets, trade: Trades,
           stamp: 0 .. MaxNow]

OneSocketEach ==
  \A g, h \in Handlers :
    /\ handler[g].at \in Connected => handler[g].sock \in 1 .. dialled
    /\ handler[g].at \in Connected /\ handler[h].at \in Connected
         /\ handler[g].sock = handler[h].sock => g = h

(* Only a goroutine that is closing sockets has any to close.              *)
ClosesAtClosing == \A h \in Handlers : toClose[h] # {} => At(h, "closing")

(* Whoever was given a session remembers which.                            *)
HasSession ==
  \A h \in Handlers :
    handler[h].at \in {"logout", "socket"} \union Connected => handler[h].sid \in Sids

Inv == TypeOK /\ HasSession /\ OneSocketEach /\ ClosesAtClosing /\ NoOrphan

-----------------------------------------------------------------------------
(* Operators of the model.                                                 *)

(* A count that is floored at 0 is one.                                    *)
LEMMA MaxWithZero == ASSUME NEW n \in Int PROVE Max({n, 0}) \in Nat
<1> DEFINE S == {n, 0}
<1>1. \E x \in S : \A y \in S : x >= y
  <2>1. CASE n >= 0  BY <2>1
  <2>2. CASE ~(n >= 0)  BY <2>2
  <2> QED  BY <2>1, <2>2
<1>2. Max(S) \in S /\ \A y \in S : Max(S) >= y  BY <1>1 DEF Max
<1> QED  BY <1>2

(* The sockets of a session are finitely many.                             *)
LEMMA SocketsCounted == ASSUME TypeOK, NEW s \in Sids PROVE Cardinality(conns[s]) \in Nat
<1>1. MaxSockets \in Nat  BY ServerLimits
<1>2. IsFiniteSet(Socks)  BY <1>1, FS_Interval DEF Socks
<1>3. conns[s] \subseteq Socks  BY DEF TypeOK
<1> QED  BY <1>2, <1>3, FS_Subset, FS_CardinalityType

(* The locals of a goroutine that has returned are of their type.          *)
LEMMA IdleIsLocal == Idle \in Locals
BY ServerLimits DEF Idle, Locals, Steps

(* What a goroutine writes to its own locals.                              *)
LEMMA GoesOn ==
  ASSUME TypeOK, NEW h \in Handlers, NEW step \in Steps, Goes(h, step)
  PROVE  /\ handler' \in [Handlers -> Locals]
         /\ handler'[h].at = step
         /\ handler'[h].sid = handler[h].sid /\ handler'[h].sock = handler[h].sock
         /\ \A g \in Handlers \ {h} : handler'[g] = handler[g]
BY DEF TypeOK, Goes, Locals

(* Returning changes no other goroutine.                                   *)
LEMMA ReturnsIdle ==
  ASSUME TypeOK, NEW h \in Handlers, Returns(h)
  PROVE  /\ handler' \in [Handlers -> Locals]
         /\ handler'[h].at = "idle"
         /\ \A g \in Handlers \ {h} : handler'[g] = handler[g]
BY IdleIsLocal DEF TypeOK, Returns, Idle, Locals

(* A request begins with the session its cookie named, or none.            *)
LEMMA BeginsRequest ==
  ASSUME TypeOK, NEW h \in Handlers, NEW s \in Sids, NEW request \in Requests,
         Begins(h, request, s)
  PROVE  /\ handler' \in [Handlers -> Locals]
         /\ handler'[h].at = request
         /\ \A g \in Handlers \ {h} : handler'[g] = handler[g]
<1> USE IdleIsLocal
<1>1. s \in 0 .. MaxSessions  BY ServerLimits DEF Sids
<1>2. CASE handler' = [handler EXCEPT ![h] = [Idle EXCEPT !.at = request, !.sid = s]]
  BY <1>1, <1>2 DEF TypeOK, Locals, Steps
<1>3. ASSUME NEW t \in Trades,
             handler' = [handler EXCEPT ![h] = [Idle EXCEPT !.at = request, !.trade = t,
                                                            !.stamp = now]]
      PROVE  handler' \in [Handlers -> Locals] /\ handler'[h].at = request
             /\ \A g \in Handlers \ {h} : handler'[g] = handler[g]
  BY <1>3 DEF TypeOK, Locals, Steps
<1> QED  BY <1>2, <1>3 DEF Begins

(* A session that is taken out takes its sockets with it.                  *)
LEMMA TakenOut ==
  ASSUME TypeOK, NEW closer \in Closers, NEW s, TakeOut(closer, s), s \in Sids
  PROVE  /\ live' \subseteq 1 .. created /\ totalConns' \in Nat
         /\ conns' \in [Sids -> SUBSET Socks] /\ toClose' \in [Closers -> SUBSET Socks]
<1>1. totalConns - Cardinality(conns[s]) \in Int  BY SocketsCounted DEF TypeOK
<1>2. totalConns' \in Nat  BY <1>1, MaxWithZero DEF TakeOut
<1> QED  BY <1>2 DEF TakeOut, TypeOK

-----------------------------------------------------------------------------
(* Types.                                                                  *)

(* The server starts with variables of their types.                        *)
LEMMA TypesAtFirst == Init => TypeOK
BY ServerLimits, IdleIsLocal DEF Init, TypeOK, Locals, Sids, Closers

(* A step of a request keeps the types of the variables.                   *)
LEMMA TypesOfHandler ==
  ASSUME TypeOK, HasSession, OneSocketEach, NEW h \in Handlers,
         BrowserLeaves(h) \/ Proceeds(h)
         \/ \E s \in Sids, request \in Requests : Authenticated(h, request, s)
  PROVE  TypeOK'
<1> USE DEF Locals, gateVars, history, sessionVars
<1>1. Requests \subseteq Steps
      /\ {"closing", "upgraded", "serving", "leaving", "rechecking"} \subseteq Steps
  BY DEF Steps
<1>2. h \in Closers  BY DEF Closers
<1>3. CASE BrowserLeaves(h)
  BY <1>3 DEF BrowserLeaves, TypeOK
<1>4. ASSUME NEW s \in Sids, NEW request \in Requests, Authenticated(h, request, s)
      PROVE  TypeOK'
  <2>1. CASE now < expires[s]
    <3>1. Begins(h, request, s) /\ UNCHANGED <<sessionVars, toClose>>
      BY <1>4, <2>1 DEF Authenticated
    <3>2. handler' \in [Handlers -> Locals]  BY <3>1, BeginsRequest
    <3> QED  BY <1>4, <3>1, <3>2 DEF Authenticated, TypeOK
  <2>2. CASE ~(now < expires[s])
    <3>1. Goes(h, "closing") /\ TakeOut(h, s)  BY <1>4, <2>2 DEF Authenticated
    <3>2. handler' \in [Handlers -> Locals]  BY <1>1, <3>1, GoesOn
    <3>3. created' = created /\ expires' = expires  BY <3>1 DEF TakeOut
    <3>4. /\ live' \subseteq 1 .. created /\ totalConns' \in Nat
          /\ conns' \in [Sids -> SUBSET Socks] /\ toClose' \in [Closers -> SUBSET Socks]
      BY <1>2, <3>1, TakenOut
    <3> QED  BY <1>4, <3>2, <3>3, <3>4 DEF Authenticated, TypeOK
  <2> QED  BY <2>1, <2>2
<1>5. CASE delete(h)
  <2>1. handler[h].sid \in Sids  BY <1>5 DEF delete, HasSession, At
  <2>2. TakeOut(h, handler[h].sid)  BY <1>5 DEF delete
  <2>3. handler' \in [Handlers -> Locals]  BY <1>1, <1>5, IdleIsLocal DEF delete, TypeOK
  <2>4. created' = created /\ expires' = expires  BY <2>2 DEF TakeOut
  <2>5. /\ live' \subseteq 1 .. created /\ totalConns' \in Nat
        /\ conns' \in [Sids -> SUBSET Socks] /\ toClose' \in [Closers -> SUBSET Socks]
    BY <1>2, <2>1, <2>2, TakenOut
  <2> QED  BY <1>5, <2>3, <2>4, <2>5 DEF delete, TypeOK
<1>6. CASE CloseOne(h)
  BY <1>2, <1>6 DEF CloseOne, TypeOK
<1>7. CASE Closed(h)
  <2>1. handler' \in [Handlers -> Locals]  BY <1>7, ReturnsIdle DEF Closed
  <2> QED  BY <1>7, <2>1 DEF Closed, TypeOK
<1>8. CASE Upgrade(h)
  <2>1. dialled' \in 1 .. MaxSockets /\ dialled' = dialled + 1
    <3>1. dialled < MaxSockets /\ dialled' = dialled + 1  BY <1>8 DEF Upgrade
    <3>2. MaxSockets \in Nat /\ dialled \in 0 .. MaxSockets  BY ServerLimits DEF TypeOK
    <3> QED  BY <3>1, <3>2
  <2>2. handler' \in [Handlers -> Locals]
    <3>1. handler \in [Handlers -> Locals]  BY DEF TypeOK
    <3>2. dialled + 1 \in 0 .. MaxSockets  BY <2>1
    <3>3. handler' = [handler EXCEPT ![h].at = "upgraded", ![h].sock = dialled + 1]
      BY <1>8 DEF Upgrade
    <3> QED  BY <1>1, <3>1, <3>2, <3>3
  <2>3. open' \subseteq 1 .. dialled'
    BY <1>8, <2>1, ServerLimits DEF Upgrade, TypeOK
  <2>4. dialled' \in 0 .. MaxSockets  BY <2>1
  <2> QED  BY <1>8, <2>2, <2>3, <2>4 DEF Upgrade, TypeOK
<1>9. CASE addConn(h)
  <2>1. handler[h].sid \in Sids /\ handler[h].sock \in 0 .. MaxSockets
    BY <1>9 DEF addConn, HasSession, At, Connected, TypeOK
  <2>2. CASE RoomFor(handler[h].sid)
    <3>1. handler' \in [Handlers -> Locals]  BY <1>1, <1>9, <2>2, GoesOn DEF addConn
    <3>2. handler[h].sock \in Socks  BY <1>9, ServerLimits DEF addConn, At, Connected, Socks, OneSocketEach, TypeOK
    <3>3. conns' = [conns EXCEPT ![handler[h].sid] = @ \union {handler[h].sock}]
          /\ totalConns' = totalConns + 1 /\ open' = open
      BY <1>9, <2>2 DEF addConn
    <3>4. conns' \in [Sids -> SUBSET Socks]  BY <3>2, <3>3 DEF TypeOK
    <3> QED  BY <1>9, <3>1, <3>3, <3>4 DEF addConn, TypeOK
  <2>3. CASE ~RoomFor(handler[h].sid)
    <3>1. handler' \in [Handlers -> Locals]  BY <1>9, <2>3, ReturnsIdle DEF addConn
    <3> QED  BY <1>9, <2>3, <3>1 DEF addConn, TypeOK
  <2> QED  BY <2>2, <2>3
<1>10. CASE ServingEnds(h)
  <2>1. handler' \in [Handlers -> Locals]  BY <1>1, <1>10, GoesOn DEF ServingEnds
  <2> QED  BY <1>10, <2>1 DEF ServingEnds, TypeOK
<1>11. CASE removeConn(h)
  <2>1. handler' \in [Handlers -> Locals]  BY <1>11, ReturnsIdle DEF removeConn
  <2>2. totalConns' \in Nat
    <3>1. Max({totalConns - 1, 0}) \in Nat  BY MaxWithZero DEF TypeOK
    <3> QED  BY <1>11, <3>1 DEF removeConn, TypeOK
  <2>3. conns' \in [Sids -> SUBSET Socks] /\ open' \subseteq open
    BY <1>11 DEF removeConn, TypeOK
  <2> QED  BY <1>11, <2>1, <2>2, <2>3 DEF removeConn, TypeOK
<1>12. CASE begin(h)
  <2>1. handler' \in [Handlers -> Locals]
    BY <1>1, <1>12, GoesOn, ReturnsIdle DEF begin
  <2>2. active' \subseteq Trades /\ begun' \in [Trades -> -Spacing .. MaxNow]
    BY <1>12, ServerLimits DEF begin, TypeOK
  <2> QED  BY <1>12, <2>1, <2>2 DEF begin, TypeOK
<1>13. CASE finish(h)
  <2>1. handler' \in [Handlers -> Locals]  BY <1>13, ReturnsIdle DEF finish
  <2>2. active' \subseteq Trades /\ last' \in [Trades -> -Spacing .. MaxNow]
    BY <1>13, ServerLimits DEF finish, TypeOK
  <2> QED  BY <1>13, <2>1, <2>2 DEF finish, TypeOK
<1> QED
  BY <1>3, <1>4, <1>5, <1>6, <1>7, <1>8, <1>9, <1>10, <1>11, <1>12, <1>13 DEF Proceeds

(* The janitor, the logins and Shutdown keep the types of the variables.   *)
LEMMA TypesOfServer ==
  ASSUME TypeOK,
         Tick \/ Login \/ ShutdownBegins \/ closeAll \/ CloseOne("main") \/ ListenerCloses
         \/ ShutdownReturns
  PROVE  TypeOK'
<1> USE DEF gateVars, history, sessionVars
<1>1. "main" \in Closers  BY DEF Closers
<1>2. CASE Tick
  BY <1>2, ServerLimits DEF Tick, TypeOK
<1>3. CASE Login
  <2>1. created + 1 \in 1 .. MaxSessions /\ now + TTL \in 0 .. MaxNow + TTL
    BY <1>3, ServerLimits DEF Login, TypeOK
  <2>2. live' \subseteq 1 .. created' /\ created' \in 0 .. MaxSessions
    BY <1>3, <2>1, ServerLimits DEF Login, create, TypeOK
  <2>3. expires' \in [Sids -> 0 .. MaxNow + TTL]
    BY <1>3, <2>1 DEF Login, create, TypeOK
  <2> QED  BY <1>3, <2>2, <2>3 DEF Login, TypeOK
<1>4. CASE ShutdownBegins
  <2>1. live \subseteq Sids  BY ServerLimits DEF TypeOK, Sids
  <2> QED  BY <1>4, <2>1 DEF ShutdownBegins, TypeOK
<1>5. ASSUME NEW s \in ids, ids' = ids \ {s}, TakeOut("main", s), closeAll
      PROVE  TypeOK'
  <2>1. s \in Sids  BY DEF TypeOK
  <2>2. created' = created /\ expires' = expires  BY <1>5 DEF TakeOut
  <2>3. /\ live' \subseteq 1 .. created /\ totalConns' \in Nat
        /\ conns' \in [Sids -> SUBSET Socks] /\ toClose' \in [Closers -> SUBSET Socks]
    BY <1>1, <1>5, <2>1, TakenOut
  <2> QED  BY <1>5, <2>2, <2>3 DEF closeAll, TypeOK
<1>6. CASE CloseOne("main")
  BY <1>1, <1>6 DEF CloseOne, TypeOK
<1>7. CASE ListenerCloses
  BY <1>7 DEF ListenerCloses, TypeOK
<1>8. CASE ShutdownReturns
  BY <1>8 DEF ShutdownReturns, TypeOK
<1> QED  BY <1>2, <1>3, <1>4, <1>5, <1>6, <1>7, <1>8 DEF closeAll

-----------------------------------------------------------------------------
(* Sockets.                                                                *)

(* What every goroutine but the acting one keeps, and the acting one gives *)
(* its sockets up or goes on with what it has.                             *)
LEMMA SocketsStay ==
  ASSUME OneSocketEach, HasSession, dialled' = dialled, NEW h \in Handlers,
         \A g \in Handlers \ {h} : handler'[g] = handler[g],
         handler'[h].at \in {"idle", "closing", "recheck", "rechecking"}
         \/ /\ handler[h].at \in Connected /\ handler'[h].at \in Connected
            /\ handler'[h].sid = handler[h].sid /\ handler'[h].sock = handler[h].sock
  PROVE  OneSocketEach' /\ HasSession'
<1>1. OneSocketEach'
  BY DEF OneSocketEach, Connected
<1>2. HasSession'
  BY DEF HasSession, Connected
<1> QED  BY <1>1, <1>2

(* A socket has one handler, which has its session, whatever the request   *)
(* does.                                                                   *)
LEMMA SocketsOfHandler ==
  ASSUME TypeOK, HasSession, OneSocketEach, NEW h \in Handlers,
         BrowserLeaves(h) \/ Proceeds(h)
         \/ \E s \in Sids, request \in Requests : Authenticated(h, request, s)
  PROVE  OneSocketEach' /\ HasSession'
<1> USE DEF gateVars, history, sessionVars
<1>1. \A g \in Handlers : handler[g] \in Locals  BY DEF TypeOK, Locals
<1>2. CASE BrowserLeaves(h) \/ CloseOne(h)
  BY <1>2 DEF BrowserLeaves, CloseOne, OneSocketEach, HasSession
<1>3. ASSUME NEW s \in Sids, NEW request \in Requests, Authenticated(h, request, s)
      PROVE  OneSocketEach' /\ HasSession'
  <2>1. CASE now < expires[s]
    <3>1. Begins(h, request, s) /\ dialled' = dialled
      BY <1>3, <2>1 DEF Authenticated
    <3>2. /\ handler'[h].at = request
          /\ \A g \in Handlers \ {h} : handler'[g] = handler[g]
      BY <3>1, BeginsRequest
    <3>3. request # "recheck" => handler'[h].sid = s
      <4>1. CASE request # "recheck"
        <5>1. handler' = [handler EXCEPT ![h] = [Idle EXCEPT !.at = request, !.sid = s]]
          BY <3>1, <4>1 DEF Begins
        <5> QED  BY <5>1 DEF TypeOK, Idle
      <4> QED  BY <4>1
    <3>4. OneSocketEach'  BY <3>1, <3>2 DEF OneSocketEach, Connected, Requests
    <3>5. HasSession'  BY <3>2, <3>3 DEF HasSession, Connected, Requests
    <3> QED  BY <3>4, <3>5
  <2>2. CASE ~(now < expires[s])
    <3>1. Goes(h, "closing") /\ dialled' = dialled  BY <1>3, <2>2 DEF Authenticated
    <3>2. /\ handler'[h].at = "closing"
          /\ \A g \in Handlers \ {h} : handler'[g] = handler[g]
      BY <3>1, GoesOn DEF Steps
    <3> QED  BY <3>1, <3>2, SocketsStay
  <2> QED  BY <2>1, <2>2
<1>4. CASE delete(h)
  <2>1. handler'[h].at = "closing" /\ \A g \in Handlers \ {h} : handler'[g] = handler[g]
    BY <1>4 DEF delete, TypeOK, Idle
  <2> QED  BY <1>4, <2>1, SocketsStay DEF delete
<1>5. ASSUME Returns(h), dialled' = dialled  PROVE OneSocketEach' /\ HasSession'
  BY <1>5, ReturnsIdle, SocketsStay
<1>6. ASSUME NEW step \in Steps, Goes(h, step), dialled' = dialled,
             step = "rechecking" \/ (step \in Connected /\ handler[h].at \in Connected)
      PROVE  OneSocketEach' /\ HasSession'
  BY <1>6, GoesOn, SocketsStay
<1>7. CASE Closed(h) \/ removeConn(h) \/ finish(h)
  BY <1>5, <1>7 DEF Closed, removeConn, finish
<1>8. CASE Upgrade(h)
  <2>1. /\ handler'[h].at = "upgraded" /\ handler'[h].sock = dialled + 1
        /\ handler'[h].sid = handler[h].sid
        /\ \A g \in Handlers \ {h} : handler'[g] = handler[g]
    BY <1>1, <1>8 DEF Upgrade, TypeOK, Locals
  <2>2. dialled' = dialled + 1 /\ dialled \in Nat  BY <1>8, ServerLimits DEF Upgrade, TypeOK
  <2>3. handler[h].sid \in Sids  BY <1>8 DEF Upgrade, At, HasSession
  <2>4. OneSocketEach'  BY <2>1, <2>2 DEF OneSocketEach
  <2>5. HasSession'  BY <2>1, <2>3 DEF HasSession
  <2> QED  BY <2>4, <2>5
<1>9. CASE addConn(h)
  BY <1>5, <1>6, <1>9 DEF addConn, At, Connected, Steps
<1>10. CASE ServingEnds(h)
  BY <1>6, <1>10 DEF ServingEnds, At, Connected, Steps
<1>11. CASE begin(h)
  BY <1>5, <1>6, <1>11 DEF begin, Steps
<1> QED
  BY <1>2, <1>3, <1>4, <1>7, <1>8, <1>9, <1>10, <1>11 DEF Proceeds

(* The server's own steps leave the goroutines alone.                      *)
LEMMA ServerLeavesHandlers ==
  ASSUME Tick \/ Login \/ ShutdownBegins \/ closeAll \/ CloseOne("main") \/ ListenerCloses
         \/ ShutdownReturns
  PROVE  handler' = handler /\ dialled' = dialled
BY DEF Tick, Login, ShutdownBegins, closeAll, CloseOne, ListenerCloses, ShutdownReturns

-----------------------------------------------------------------------------
(* No orphans.                                                             *)

OrphanInv == ClosesAtClosing /\ NoOrphan

(* A session in the map was created.                                       *)
LEMMA LiveHasRecord == TypeOK => live \subseteq Sids
<1> SUFFICES ASSUME TypeOK PROVE live \subseteq Sids  OBVIOUS
<1>1. MaxSessions \in Nat  BY ServerLimits
<1>2. created \in 0 .. MaxSessions /\ live \subseteq 1 .. created  BY DEF TypeOK
<1> QED  BY <1>1, <1>2 DEF Sids

(* A socket that is served after a step in which no handler starts to      *)
(* serve, and no closing is forgotten, was served before.                  *)
LEMMA ServedBefore ==
  ASSUME NEW g \in Handlers, g \in Served',
         handler'[g] = handler[g], open' \subseteq open \/ handler[g].sock \in open,
         \A w \in Closers : \A c \in toClose[w] : c \in toClose'[w] \/ c \notin open'
  PROVE  g \in Served
BY DEF Served, At, BeingClosed

(* Taking out a session makes no orphan: its sockets are about to be       *)
(* closed, provided that the goroutine had none to close before.           *)
LEMMA TakingOutIsSafe ==
  ASSUME TypeOK, OrphanInv, NEW closer \in Closers, NEW s \in Sids, TakeOut(closer, s),
         toClose[closer] = {}, open' = open, NEW g \in Handlers, g \in Served',
         handler'[g] = handler[g]
  PROVE  handler'[g].sid \in live' /\ handler'[g].sock \in conns'[handler'[g].sid]
<1>1. /\ live' = live \ {s} /\ conns' = [conns EXCEPT ![s] = {}]
      /\ toClose' = [toClose EXCEPT ![closer] = conns[s]]
  BY DEF TakeOut
<1>2. conns \in [Sids -> SUBSET Socks] /\ toClose \in [Closers -> SUBSET Socks]
  BY DEF TypeOK
<1>3. g \in Served
  <2>1. \A w \in Closers : \A c \in toClose[w] : c \in toClose'[w]  BY <1>1, <1>2
  <2> QED  BY <2>1, ServedBefore
<1>4. handler[g].sid \in live /\ handler[g].sock \in conns[handler[g].sid]
  BY <1>3 DEF OrphanInv, NoOrphan
<1>5. handler[g].sid # s
  <2>1. handler[g].sock \notin toClose'[closer]  BY DEF Served, BeingClosed
  <2>2. toClose'[closer] = conns[s]  BY <1>1, <1>2
  <2> QED  BY <1>4, <2>1, <2>2
<1>6. handler[g].sid \in live' /\ conns'[handler[g].sid] = conns[handler[g].sid]
  BY <1>1, <1>2, <1>4, <1>5, LiveHasRecord
<1> QED  BY <1>4, <1>6

(* ... and so nobody is an orphan after it.                                *)
LEMMA TakingOutKeeps ==
  ASSUME TypeOK, OrphanInv, NEW closer \in Closers, NEW s \in Sids, TakeOut(closer, s),
         toClose[closer] = {}, open' = open,
         \A g \in Handlers : g # closer => handler'[g] = handler[g],
         closer \in Handlers => handler'[closer].at = "closing"
  PROVE  OrphanInv'
<1>1. toClose' = [toClose EXCEPT ![closer] = conns[s]] /\ toClose \in [Closers -> SUBSET Socks]
  BY DEF TakeOut, TypeOK
<1>2. ClosesAtClosing'
  BY <1>1 DEF OrphanInv, ClosesAtClosing, At, Closers
<1>3. ASSUME NEW g \in Served'
      PROVE  handler'[g].sid \in live' /\ handler'[g].sock \in conns'[handler'[g].sid]
  <2>1. g \in Handlers /\ handler'[g].at = "serving"  BY <1>3 DEF Served, At
  <2>2. handler'[g] = handler[g]  BY <2>1
  <2> QED  BY <1>3, <2>1, <2>2, TakingOutIsSafe
<1> QED  BY <1>2, <1>3 DEF OrphanInv, NoOrphan

(* A socket that is closed is no longer served.                            *)
LEMMA ClosingKeeps ==
  ASSUME TypeOK, OrphanInv, NEW closer \in Closers, CloseOne(closer)
  PROVE  OrphanInv'
<1> USE DEF sessionVars
<1>1. PICK c \in toClose[closer] :
        /\ toClose' = [toClose EXCEPT ![closer] = @ \ {c}] /\ open' = open \ {c}
        /\ UNCHANGED <<sessionVars, handler>>
  BY DEF CloseOne
<1>2. toClose \in [Closers -> SUBSET Socks]  BY DEF TypeOK
<1>3. ClosesAtClosing'
  BY <1>1, <1>2 DEF OrphanInv, ClosesAtClosing, At, Closers
<1>4. ASSUME NEW g \in Served'  PROVE g \in Served
  <2>1. \A w \in Closers : \A d \in toClose[w] : d \in toClose'[w] \/ d \notin open'
    BY <1>1, <1>2
  <2>2. g \in Handlers  BY <1>4 DEF Served
  <2> QED  BY <1>1, <1>4, <2>1, <2>2, ServedBefore
<1>5. NoOrphan'  BY <1>1, <1>4 DEF OrphanInv, NoOrphan
<1> QED  BY <1>3, <1>5 DEF OrphanInv

(* A socket that begins to be served is registered in a session that is in *)
(* the map.                                                                *)
LEMMA RegisteringKeeps ==
  ASSUME TypeOK, HasSession, OrphanInv, NEW h \in Handlers, addConn(h), RoomFor(handler[h].sid)
  PROVE  OrphanInv'
<1> DEFINE s == handler[h].sid
<1> DEFINE c == handler[h].sock
<1>1. /\ conns' = [conns EXCEPT ![s] = @ \union {c}] /\ Goes(h, "serving")
      /\ open' = open /\ live' = live /\ toClose' = toClose /\ At(h, "upgraded")
  BY DEF addConn
<1>2. /\ handler'[h].at = "serving" /\ handler'[h].sid = s /\ handler'[h].sock = c
      /\ \A g \in Handlers \ {h} : handler'[g] = handler[g]
  BY <1>1, GoesOn DEF Steps
<1>3. s \in Sids /\ conns \in [Sids -> SUBSET Socks]
  BY <1>1 DEF HasSession, At, Connected, TypeOK
<1>4. \A r \in Sids : conns[r] \subseteq conns'[r]  BY <1>1, <1>3
<1>5. ClosesAtClosing'
  BY <1>1, <1>2 DEF OrphanInv, ClosesAtClosing, At
<1>6. ASSUME NEW g \in Served'
      PROVE  handler'[g].sid \in live' /\ handler'[g].sock \in conns'[handler'[g].sid]
  <2>1. CASE g = h
    BY <1>1, <1>2, <1>3, <2>1 DEF RoomFor
  <2>2. CASE g # h
    <3>1. g \in Handlers /\ handler'[g] = handler[g]  BY <1>2, <1>6, <2>2 DEF Served
    <3>2. g \in Served  BY <1>1, <1>6, <3>1, ServedBefore
    <3>3. handler[g].sid \in live /\ handler[g].sock \in conns[handler[g].sid]
      BY <3>2 DEF OrphanInv, NoOrphan
    <3> QED  BY <1>1, <1>4, <3>1, <3>3, LiveHasRecord
  <2> QED  BY <2>1, <2>2
<1> QED  BY <1>5, <1>6 DEF OrphanInv, NoOrphan

(* The socket that leaves is nobody else's.                                *)
LEMMA LeavingKeeps ==
  ASSUME TypeOK, HasSession, OneSocketEach, OrphanInv, NEW h \in Handlers, removeConn(h)
  PROVE  OrphanInv'
<1> DEFINE s == handler[h].sid
<1> DEFINE c == handler[h].sock
<1>1. /\ conns' = [conns EXCEPT ![s] = @ \ {c}] \/ conns' = conns
      /\ Returns(h) /\ At(h, "leaving")
      /\ open' = open \ {c} /\ live' = live /\ toClose' = toClose
  BY DEF removeConn
<1>2. /\ handler'[h].at = "idle"
      /\ \A g \in Handlers \ {h} : handler'[g] = handler[g]
  BY <1>1, ReturnsIdle
<1>3. s \in Sids /\ conns \in [Sids -> SUBSET Socks]
  BY <1>1 DEF HasSession, At, Connected, TypeOK
<1>4. \A r \in Sids : conns[r] \ {c} \subseteq conns'[r]  BY <1>1, <1>3
<1>5. ClosesAtClosing'
  BY <1>1, <1>2 DEF OrphanInv, ClosesAtClosing, At
<1>6. ASSUME NEW g \in Served'
      PROVE  handler'[g].sid \in live' /\ handler'[g].sock \in conns'[handler'[g].sid]
  <2>1. g \in Handlers /\ handler'[g].at = "serving"  BY <1>6 DEF Served, At
  <2>2. g # h /\ handler'[g] = handler[g]  BY <1>2, <2>1
  <2>3. g \in Served  BY <1>1, <1>6, <2>1, <2>2, ServedBefore
  <2>4. handler[g].sid \in live /\ handler[g].sock \in conns[handler[g].sid]
    BY <2>3 DEF OrphanInv, NoOrphan
  <2>5. handler[g].sock # c
    BY <1>1, <2>1, <2>2 DEF OneSocketEach, At, Connected
  <2> QED  BY <1>1, <1>4, <2>2, <2>4, <2>5, LiveHasRecord
<1> QED  BY <1>5, <1>6 DEF OrphanInv, NoOrphan

(* A step that changes neither the sessions nor what is to be closed, and  *)
(* lets nobody start to serve.                                             *)
LEMMA NobodyStarts ==
  ASSUME TypeOK, OrphanInv, NEW h \in Handlers,
         live' = live, conns' = conns, toClose' = toClose,
         \A g \in Handlers \ {h} : handler'[g] = handler[g],
         handler'[h] = handler[h] \/ (handler'[h].at # "serving" /\ toClose[h] = {}),
         open' \subseteq open
         \/ (\A g \in Handlers : At(g, "serving") /\ handler[g].sock \in open'
                                => handler[g].sock \in open)
  PROVE  OrphanInv'
<1>1. ASSUME NEW g \in Handlers, g \in Served'
      PROVE  g \in Served /\ handler'[g] = handler[g]
  <2>1. handler'[g] = handler[g]  BY <1>1 DEF Served, At
  <2> QED  BY <1>1, <2>1 DEF Served, At, BeingClosed
<1>2. NoOrphan'
  <2>1. \A g \in Served' : g \in Handlers  BY DEF Served
  <2> QED  BY <1>1, <2>1 DEF OrphanInv, NoOrphan
<1>3. ClosesAtClosing'  BY DEF OrphanInv, ClosesAtClosing, At
<1> QED  BY <1>2, <1>3 DEF OrphanInv

(* No step of a request leaves a socket open without its session.          *)
LEMMA OrphansOfHandler ==
  ASSUME Inv, NEW h \in Handlers,
         BrowserLeaves(h) \/ Proceeds(h)
         \/ \E s \in Sids, request \in Requests : Authenticated(h, request, s)
  PROVE  OrphanInv'
<1> USE DEF gateVars, history, sessionVars
<1>1. TypeOK /\ OneSocketEach /\ HasSession /\ OrphanInv  BY DEF Inv, OrphanInv
<1>2. h \in Closers /\ Handlers \subseteq Closers  BY DEF Closers
<1>3. ~At(h, "closing") => toClose[h] = {}  BY <1>1 DEF OrphanInv, ClosesAtClosing
<1>4. CASE BrowserLeaves(h)
  <2>1. /\ handler' = handler /\ live' = live /\ conns' = conns /\ toClose' = toClose
        /\ open' \subseteq open
    BY <1>4 DEF BrowserLeaves
  <2> QED  BY <1>1, <2>1, NobodyStarts
<1>5. ASSUME NEW s \in Sids, NEW request \in Requests, Authenticated(h, request, s)
      PROVE  OrphanInv'
  <2>1. toClose[h] = {}  BY <1>3, <1>5 DEF Authenticated, Accepts, At
  <2>2. CASE now < expires[s]
    <3>1. Begins(h, request, s) /\ UNCHANGED <<sessionVars, toClose, open>>
      BY <1>5, <2>2 DEF Authenticated
    <3>2. /\ handler'[h].at = request
          /\ \A g \in Handlers \ {h} : handler'[g] = handler[g]
      BY <1>1, <3>1, BeginsRequest
    <3>3. handler'[h].at # "serving"  BY <3>2 DEF Requests
    <3>4. open' \subseteq open  BY <3>1
    <3> QED  BY <1>1, <2>1, <3>1, <3>2, <3>3, <3>4, NobodyStarts
  <2>3. CASE ~(now < expires[s])
    <3>1. Goes(h, "closing") /\ TakeOut(h, s) /\ open' = open
      BY <1>5, <2>3 DEF Authenticated
    <3>2. /\ handler'[h].at = "closing"
          /\ \A g \in Handlers \ {h} : handler'[g] = handler[g]
      BY <1>1, <3>1, GoesOn DEF Steps
    <3> QED  BY <1>1, <1>2, <2>1, <3>1, <3>2, TakingOutKeeps
  <2> QED  BY <2>2, <2>3
<1>6. CASE delete(h)
  <2>1. toClose[h] = {} /\ handler[h].sid \in Sids
    BY <1>1, <1>3, <1>6 DEF delete, At, HasSession
  <2>2. TakeOut(h, handler[h].sid) /\ open' = open  BY <1>6 DEF delete
  <2>3. /\ handler'[h].at = "closing"
        /\ \A g \in Handlers \ {h} : handler'[g] = handler[g]
    BY <1>1, <1>6 DEF delete, TypeOK, Idle
  <2> QED  BY <1>1, <1>2, <2>1, <2>2, <2>3, TakingOutKeeps
<1>7. CASE CloseOne(h)
  BY <1>1, <1>2, <1>7, ClosingKeeps
<1>8. CASE Closed(h)
  <2>1. Returns(h) /\ toClose[h] = {} /\ UNCHANGED <<sessionVars, toClose, open>>
    BY <1>8 DEF Closed
  <2>2. /\ handler'[h].at = "idle"
        /\ \A g \in Handlers \ {h} : handler'[g] = handler[g]
    BY <1>1, <2>1, ReturnsIdle
  <2>3. open' \subseteq open  BY <2>1
  <2> QED  BY <1>1, <2>1, <2>2, <2>3, NobodyStarts
<1>9. CASE Upgrade(h)
  <2>1. /\ handler'[h].at = "upgraded"
        /\ \A g \in Handlers \ {h} : handler'[g] = handler[g]
    BY <1>1, <1>9 DEF Upgrade, TypeOK
  <2>2. \A g \in Handlers : At(g, "serving") /\ handler[g].sock \in open'
                             => handler[g].sock \in open
    <3>1. open' = open \union {dialled + 1} /\ dialled \in Nat
      BY <1>1, <1>9, ServerLimits DEF Upgrade, TypeOK
    <3>2. \A g \in Handlers : At(g, "serving") => handler[g].sock \in 1 .. dialled
      BY <1>1 DEF OneSocketEach, At, Connected
    <3> QED  BY <3>1, <3>2
  <2>3. toClose[h] = {} /\ UNCHANGED <<sessionVars, toClose>>
    BY <1>3, <1>9 DEF Upgrade, At
  <2> QED  BY <1>1, <2>1, <2>2, <2>3, NobodyStarts
<1>10. CASE addConn(h)
  <2>1. toClose[h] = {} /\ toClose' = toClose /\ live' = live
    BY <1>3, <1>10 DEF addConn, At
  <2>2. CASE RoomFor(handler[h].sid)
    BY <1>1, <1>10, <2>2, RegisteringKeeps
  <2>3. CASE ~RoomFor(handler[h].sid)
    <3>1. Returns(h) /\ conns' = conns /\ open' \subseteq open
      BY <1>10, <2>3 DEF addConn
    <3>2. /\ handler'[h].at = "idle"
          /\ \A g \in Handlers \ {h} : handler'[g] = handler[g]
      BY <1>1, <3>1, ReturnsIdle
    <3> QED  BY <1>1, <2>1, <3>1, <3>2, NobodyStarts
  <2> QED  BY <2>2, <2>3
<1>11. CASE ServingEnds(h)
  <2>1. Goes(h, "leaving") /\ toClose[h] = {} /\ UNCHANGED <<sessionVars, toClose, open>>
    BY <1>3, <1>11 DEF ServingEnds, At
  <2>2. /\ handler'[h].at = "leaving"
        /\ \A g \in Handlers \ {h} : handler'[g] = handler[g]
    BY <1>1, <2>1, GoesOn DEF Steps
  <2>3. open' \subseteq open  BY <2>1
  <2> QED  BY <1>1, <2>1, <2>2, <2>3, NobodyStarts
<1>12. CASE removeConn(h)
  BY <1>1, <1>12, LeavingKeeps
<1>13. CASE begin(h) \/ finish(h)
  <2>1. toClose[h] = {} /\ UNCHANGED <<sessionVars, toClose, open>>
    BY <1>3, <1>13 DEF begin, finish, At
  <2>2. Returns(h) \/ Goes(h, "rechecking")  BY <1>13 DEF begin, finish
  <2>3. /\ handler'[h].at # "serving"
        /\ \A g \in Handlers \ {h} : handler'[g] = handler[g]
    BY <1>1, <2>2, ReturnsIdle, GoesOn DEF Steps
  <2>4. open' \subseteq open  BY <2>1
  <2> QED  BY <1>1, <2>1, <2>3, <2>4, NobodyStarts
<1> QED
  BY <1>4, <1>5, <1>6, <1>7, <1>8, <1>9, <1>10, <1>11, <1>12, <1>13 DEF Proceeds

(* Sessions that the janitor or Shutdown drop have their sockets on the    *)
(* list of the closer.                                                     *)
LEMMA OrphansOfServer ==
  ASSUME Inv,
         Tick \/ Login \/ ShutdownBegins \/ closeAll \/ CloseOne("main") \/ ListenerCloses
         \/ ShutdownReturns
  PROVE  OrphanInv'
<1> USE DEF gateVars, history, sessionVars
<1>1. TypeOK /\ OrphanInv  BY DEF Inv, OrphanInv
<1>2. handler' = handler  BY ServerLeavesHandlers
<1>3. "main" \in Closers /\ "main" \notin Handlers  BY ServerLimits DEF Closers
<1>4. CASE CloseOne("main")
  BY <1>1, <1>3, <1>4, ClosingKeeps
<1>5. ASSUME NEW s \in ids, TakeOut("main", s), closeAll  PROVE OrphanInv'
  <2>1. s \in Sids  BY <1>1 DEF TypeOK
  <2>2. toClose["main"] = {} /\ open' = open  BY <1>5 DEF closeAll
  <2> QED  BY <1>1, <1>2, <1>3, <1>5, <2>1, <2>2, TakingOutKeeps
<1>6. CASE Tick \/ ShutdownBegins \/ ListenerCloses \/ ShutdownReturns
  <2>1. UNCHANGED <<sessionVars, toClose, open>>
    BY <1>6 DEF Tick, ShutdownBegins, ListenerCloses, ShutdownReturns
  <2> QED
    BY <1>1, <1>2, <2>1 DEF OrphanInv, ClosesAtClosing, NoOrphan, Served, At, BeingClosed
<1>7. CASE Login
  <2>1. live \subseteq live' /\ conns' = conns /\ toClose' = toClose /\ open' = open
    BY <1>7 DEF Login, create
  <2> QED
    BY <1>1, <1>2, <2>1 DEF OrphanInv, ClosesAtClosing, NoOrphan, Served, At, BeingClosed
<1> QED  BY <1>4, <1>5, <1>6, <1>7 DEF closeAll

-----------------------------------------------------------------------------
(* The invariant.                                                          *)

(* No socket is open at first.                                             *)
LEMMA Initially == Init => Inv
<1> SUFFICES ASSUME Init PROVE Inv  OBVIOUS
<1>1. TypeOK  BY TypesAtFirst
<1>2. \A h \in Handlers : handler[h].at = "idle" /\ toClose[h] = {}
  BY DEF Init, Idle, Closers
<1> QED
  BY <1>1, <1>2 DEF Inv, HasSession, OneSocketEach, ClosesAtClosing, NoOrphan, Served, At,
                    Connected

(* Every step keeps the sockets and their sessions together.               *)
LEMMA Inductive == Inv /\ [Next]_vars => Inv'
<1> SUFFICES ASSUME Inv, [Next]_vars PROVE Inv'  OBVIOUS
<1>1. TypeOK /\ OneSocketEach /\ HasSession  BY DEF Inv
<1>2. ASSUME NEW h \in Handlers,
             BrowserLeaves(h) \/ Proceeds(h)
             \/ \E s \in Sids, request \in Requests : Authenticated(h, request, s)
      PROVE  Inv'
  BY <1>1, <1>2, TypesOfHandler, SocketsOfHandler, OrphansOfHandler DEF Inv, OrphanInv
<1>3. CASE Tick \/ Login \/ ShutdownBegins \/ closeAll \/ CloseOne("main")
           \/ ListenerCloses \/ ShutdownReturns
  <2>1. OneSocketEach' /\ HasSession'
    BY <1>1, <1>3, ServerLeavesHandlers DEF OneSocketEach, HasSession
  <2> QED  BY <1>1, <1>3, <2>1, TypesOfServer, OrphansOfServer DEF Inv, OrphanInv
<1>4. CASE UNCHANGED vars
  BY <1>4 DEF Inv, vars, sessionVars, gateVars, history, TypeOK, HasSession, OneSocketEach,
              ClosesAtClosing, NoOrphan, Served, At, BeingClosed
<1> QED  BY <1>2, <1>3, <1>4 DEF Next

-----------------------------------------------------------------------------
(* Rechecks.                                                               *)

(* Whoever rechecks a trade is alone, holds its mark, and has the stamp of *)
(* the last recheck; when nobody does, that stamp is the one begin looks at.*)
GateInv ==
  /\ \A h \in Handlers : At(h, "rechecking") =>
       handler[h].trade \in active /\ handler[h].stamp = begun[handler[h].trade]
  /\ \A g, h \in Handlers :
       At(g, "rechecking") /\ At(h, "rechecking") /\ handler[g].trade = handler[h].trade
         => g = h
  /\ \A t \in Trades \ active : last[t] = begun[t]

(* Every action but begin and finish.                                      *)
GateStays ==
  /\ UNCHANGED <<active, last, begun>>
  /\ \A h \in Handlers : handler'[h].at = "rechecking" => handler'[h] = handler[h]

(* Only begin and finish of a recheck touch the gate.                      *)
LEMMA GateStaysUnlessUsed ==
  ASSUME Inv, [Next]_vars
  PROVE  GateStays \/ \E h \in Handlers : begin(h) \/ finish(h)
<1> USE DEF gateVars, history, sessionVars
<1>1. TypeOK /\ HasSession  BY DEF Inv
<1>2. ASSUME NEW h \in Handlers, NEW s \in Sids, NEW request \in Requests,
             Authenticated(h, request, s)
      PROVE  GateStays
  <2>1. UNCHANGED <<active, last, begun>>  BY <1>2 DEF Authenticated
  <2>2. CASE Begins(h, request, s)
    BY <1>1, <2>1, <2>2, BeginsRequest DEF GateStays, Requests
  <2>3. CASE Goes(h, "closing")
    BY <1>1, <2>1, <2>3, GoesOn DEF GateStays, Steps
  <2> QED  BY <1>2, <2>2, <2>3 DEF Authenticated
<1>3. ASSUME NEW h \in Handlers, Returns(h), UNCHANGED <<active, last, begun>>  PROVE GateStays
  BY <1>1, <1>3, ReturnsIdle DEF GateStays
<1>4. ASSUME NEW h \in Handlers, NEW step \in {"serving", "leaving"}, Goes(h, step),
             UNCHANGED <<active, last, begun>>
      PROVE  GateStays
  BY <1>1, <1>4, GoesOn DEF GateStays, Steps
<1>5. ASSUME NEW h \in Handlers, delete(h) \/ Upgrade(h)  PROVE GateStays
  <2>1. handler'[h].at # "rechecking" /\ \A g \in Handlers \ {h} : handler'[g] = handler[g]
    BY <1>1, <1>5 DEF delete, Upgrade, TypeOK, Idle
  <2> QED  BY <1>5, <2>1 DEF delete, Upgrade, GateStays
<1>6. ASSUME NEW h \in Handlers, addConn(h) \/ ServingEnds(h) \/ Closed(h) \/ removeConn(h)
      PROVE  GateStays
  BY <1>3, <1>4, <1>6 DEF addConn, ServingEnds, Closed, removeConn
<1>7. ASSUME handler' = handler, UNCHANGED <<active, last, begun>>  PROVE GateStays
  BY <1>7 DEF GateStays
<1>8. ASSUME NEW h \in Handlers, BrowserLeaves(h) \/ CloseOne(h)  PROVE GateStays
  BY <1>7, <1>8 DEF BrowserLeaves, CloseOne
<1>9. CASE Tick \/ Login \/ ShutdownBegins \/ closeAll \/ CloseOne("main")
           \/ ListenerCloses \/ ShutdownReturns
  BY <1>7, <1>9 DEF Tick, Login, ShutdownBegins, closeAll, CloseOne, ListenerCloses,
                    ShutdownReturns
<1>10. CASE UNCHANGED vars
  BY <1>7, <1>10 DEF vars
<1> QED  BY <1>2, <1>5, <1>6, <1>8, <1>9, <1>10 DEF Next, Proceeds

(* begin lets a recheck through only when none runs and the spacing has    *)
(* passed.                                                                 *)
LEMMA BeginIsAlone ==
  ASSUME Inv, GateInv, NEW h \in Handlers, begin(h)
  PROVE  GateInv' /\ (At(h, "rechecking")' =>
                        /\ handler[h].trade \notin active
                        /\ handler[h].stamp >= begun[handler[h].trade] + Spacing)
<1> DEFINE t == handler[h].trade
<1>1. TypeOK /\ t \in Trades /\ handler[h].stamp \in 0 .. MaxNow  BY DEF Inv, TypeOK
<1>2. CASE t \in active \/ Limited(t, handler[h].stamp)
  <2>1. Returns(h) /\ UNCHANGED <<active, begun, last>>  BY <1>2 DEF begin
  <2>2. /\ handler'[h].at = "idle"
        /\ \A g \in Handlers \ {h} : handler'[g] = handler[g]
    BY <1>1, <2>1, ReturnsIdle
  <2> QED  BY <2>1, <2>2 DEF GateInv, At
<1>3. CASE ~(t \in active \/ Limited(t, handler[h].stamp))
  <2>1. /\ Goes(h, "rechecking") /\ active' = active \union {t} /\ last' = last
        /\ begun' = [begun EXCEPT ![t] = handler[h].stamp]
    BY <1>3 DEF begin
  <2>2. /\ handler' = [handler EXCEPT ![h].at = "rechecking"]
        /\ handler'[h].at = "rechecking" /\ handler'[h].trade = t
        /\ handler'[h].stamp = handler[h].stamp
        /\ \A g \in Handlers \ {h} : handler'[g] = handler[g]
    BY <1>1, <2>1 DEF Goes, TypeOK
  <2>3. begun \in [Trades -> -Spacing .. MaxNow] /\ last \in [Trades -> -Spacing .. MaxNow]
    BY <1>1 DEF TypeOK
  <2>4. handler[h].stamp >= begun[t] + Spacing
    <3>1. last[t] = begun[t] /\ last[t] \in Int /\ Spacing \in Nat
      BY <1>1, <1>3, <2>3, ServerLimits DEF GateInv
    <3>2. ~(handler[h].stamp - last[t] < Spacing)  BY <1>3 DEF Limited
    <3> QED  BY <1>1, <3>1, <3>2
  <2>5. \A g \in Handlers : g # h /\ At(g, "rechecking") => handler[g].trade # t
    BY <1>3 DEF GateInv
  <2>6. \A g \in Handlers : handler[g].trade \in Trades  BY <1>1 DEF TypeOK
  <2>7. GateInv'
    BY <1>1, <2>1, <2>2, <2>3, <2>5, <2>6 DEF GateInv, At
  <2> QED  BY <1>3, <2>4, <2>7
<1> QED  BY <1>2, <1>3

(* finish leaves the time of the recheck it ends.                          *)
LEMMA FinishStamps ==
  ASSUME Inv, GateInv, NEW h \in Handlers, finish(h)
  PROVE  GateInv'
<1> DEFINE t == handler[h].trade
<1>1. TypeOK /\ t \in Trades  BY DEF Inv, TypeOK
<1>2. /\ active' = active \ {t} /\ last' = [last EXCEPT ![t] = handler[h].stamp]
      /\ begun' = begun /\ Returns(h) /\ At(h, "rechecking")
  BY DEF finish, history
<1>3. /\ handler'[h].at = "idle"
      /\ \A g \in Handlers \ {h} : handler'[g] = handler[g]
  BY <1>1, <1>2, ReturnsIdle
<1>4. last \in [Trades -> -Spacing .. MaxNow]  BY <1>1 DEF TypeOK
<1> QED  BY <1>1, <1>2, <1>3, <1>4 DEF GateInv, At

(* Every step keeps the gate in agreement with the rechecks that run.      *)
LEMMA GateInductive == Inv /\ GateInv /\ [Next]_vars => GateInv'
<1> SUFFICES ASSUME Inv, GateInv, [Next]_vars PROVE GateInv'  OBVIOUS
<1>1. CASE GateStays
  BY <1>1 DEF GateStays, GateInv, At
<1> QED  BY <1>1, GateStaysUnlessUsed, BeginIsAlone, FinishStamps

(* The step that starts a recheck.                                         *)
LEMMA StartsApart ==
  ASSUME Inv, GateInv, [Next]_vars, NEW h \in Handlers,
         At(h, "recheck"), At(h, "rechecking")'
  PROVE  LET t == handler[h].trade IN
           /\ handler[h].stamp >= begun[t] + Spacing
           /\ \A g \in Handlers \ {h} : ~(At(g, "rechecking") /\ handler[g].trade = t)
<1>1. ~GateStays  BY DEF GateStays, At
<1>2. PICK g \in Handlers : begin(g) \/ finish(g)  BY <1>1, GateStaysUnlessUsed
<1>3. \A f \in Handlers \ {g} : handler'[f] = handler[f]
  BY <1>2, ReturnsIdle, GoesOn DEF begin, finish, Inv, Steps
<1>4. g = h  BY <1>3 DEF At
<1>5. ~finish(h)  BY DEF finish, At
<1> QED  BY <1>2, <1>4, <1>5, BeginIsAlone DEF GateInv

-----------------------------------------------------------------------------
(* Slots.                                                                  *)

(* A registered socket has a handler that will remove it.                  *)
Attended ==
  \A s \in live : \A c \in conns[s] :
    \E h \in Handlers : handler[h].at \in {"serving", "leaving"}
                        /\ handler[h].sock = c /\ handler[h].sid = s

(* The count is that of the registered sockets, a session outside the map  *)
(* has none, and both limits are kept.                                     *)
SlotInv ==
  /\ totalConns = Cardinality(Registered)
  /\ totalConns <= MaxTotalConns
  /\ \A s \in Sids : Cardinality(conns[s]) <= PerSession
  /\ \A s \in Sids \ live : conns[s] = {}
  /\ Attended

(* Flooring a count at 0 leaves it alone.                                  *)
LEMMA MaxOfCount == ASSUME NEW n \in Nat PROVE Max({n, 0}) = n
<1> DEFINE S == {n, 0}
<1>1. n \in S /\ \A y \in S : n >= y  OBVIOUS
<1>2. Max(S) \in S /\ \A y \in S : Max(S) >= y  BY <1>1 DEF Max
<1> QED  BY <1>1, <1>2

(* There are finitely many socket numbers.                                 *)
LEMMA SocksAreFinite == IsFiniteSet(Socks)
<1>1. MaxSockets \in Nat  BY ServerLimits
<1> QED  BY <1>1, FS_Interval DEF Socks

(* Finitely many sockets are registered.                                   *)
LEMMA RegisteredIsFinite == TypeOK => IsFiniteSet(Registered)
<1> SUFFICES ASSUME TypeOK PROVE IsFiniteSet(Registered)  OBVIOUS
<1>1. MaxSessions \in Nat /\ MaxSockets \in Nat  BY ServerLimits
<1>2. IsFiniteSet(Sids) /\ IsFiniteSet(Socks)  BY <1>1, FS_Interval DEF Sids, Socks
<1>3. IsFiniteSet(Sids \X Socks)  BY <1>2, FS_Product
<1>4. Registered \subseteq Sids \X Socks  BY LiveHasRecord DEF Registered
<1> QED  BY <1>3, <1>4, FS_Subset

(* The five things a step may do to the sessions and their sockets.        *)
LEMMA SessionSteps ==
  ASSUME Inv, [Next]_vars
  PROVE  \/ UNCHANGED <<live, conns, totalConns>>
         \/ Login
         \/ \E closer \in Closers, s \in Sids : TakeOut(closer, s)
         \/ \E h \in Handlers : addConn(h) /\ RoomFor(handler[h].sid)
         \/ \E h \in Handlers : /\ removeConn(h) /\ handler[h].sid \in live
                                /\ handler[h].sock \in conns[handler[h].sid]
<1> USE DEF gateVars, history, sessionVars
<1>1. "main" \in Closers /\ \A h \in Handlers : h \in Closers  BY DEF Closers
<1>2. ids \subseteq Sids  BY DEF Inv, TypeOK
<1>3. ASSUME NEW h \in Handlers, delete(h)  PROVE TakeOut(h, handler[h].sid) /\ handler[h].sid \in Sids
  BY <1>3 DEF delete, At, Inv, HasSession
<1>4. ASSUME NEW h \in Handlers, addConn(h), ~RoomFor(handler[h].sid)
      PROVE  UNCHANGED <<live, conns, totalConns>>
  BY <1>4 DEF addConn
<1>5. ASSUME NEW h \in Handlers, removeConn(h),
             ~(handler[h].sid \in live /\ handler[h].sock \in conns[handler[h].sid])
      PROVE  UNCHANGED <<live, conns, totalConns>>
  BY <1>5 DEF removeConn
<1>6. ASSUME NEW h \in Handlers, CloseOne(h) \/ Closed(h) \/ Upgrade(h) \/ ServingEnds(h)
             \/ begin(h) \/ finish(h) \/ BrowserLeaves(h)
      PROVE  UNCHANGED <<live, conns, totalConns>>
  BY <1>6 DEF CloseOne, Closed, Upgrade, ServingEnds, begin, finish, BrowserLeaves
<1>7. ASSUME Tick \/ ShutdownBegins \/ CloseOne("main") \/ ListenerCloses \/ ShutdownReturns
             \/ UNCHANGED vars
      PROVE  UNCHANGED <<live, conns, totalConns>>
  BY <1>7 DEF Tick, ShutdownBegins, CloseOne, ListenerCloses, ShutdownReturns, vars
<1>8. ASSUME NEW h \in Handlers, NEW s \in Sids, NEW request \in Requests,
             Authenticated(h, request, s)
      PROVE  UNCHANGED <<live, conns, totalConns>> \/ TakeOut(h, s)
  BY <1>8 DEF Authenticated
<1>9. closeAll => \E s \in Sids : TakeOut("main", s)  BY <1>2 DEF closeAll
<1> QED  BY <1>1, <1>3, <1>4, <1>5, <1>6, <1>7, <1>8, <1>9 DEF Next, Proceeds

(* A handler that attends to a socket goes on, or removes it.              *)
LEMMA HandlersAttend ==
  ASSUME Inv, [Next]_vars, NEW h \in Handlers, handler[h].at \in {"serving", "leaving"}
  PROVE  \/ /\ handler'[h].at \in {"serving", "leaving"}
            /\ handler'[h].sock = handler[h].sock /\ handler'[h].sid = handler[h].sid
         \/ removeConn(h)
<1> USE DEF gateVars, history, sessionVars
<1>1. TypeOK  BY DEF Inv
<1> DEFINE Goal == /\ handler'[h].at \in {"serving", "leaving"}
                   /\ handler'[h].sock = handler[h].sock /\ handler'[h].sid = handler[h].sid
<1>2. ASSUME NEW g \in Handlers, BrowserLeaves(g) \/ CloseOne(g)  PROVE Goal
  BY <1>2 DEF BrowserLeaves, CloseOne
<1>3. ASSUME NEW g \in Handlers, g # h, Returns(g)  PROVE Goal
  BY <1>1, <1>3, ReturnsIdle
<1>4. ASSUME NEW g \in Handlers, NEW step \in Steps, g # h \/ step = "leaving", Goes(g, step)
      PROVE  Goal
  BY <1>1, <1>4, GoesOn
<1>5. ASSUME NEW g \in Handlers, Closed(g) \/ finish(g) \/ begin(g) \/ addConn(g)
      PROVE  Goal
  <2>1. g # h  BY <1>5 DEF Closed, finish, begin, addConn, At
  <2>2. Returns(g) \/ Goes(g, "rechecking") \/ Goes(g, "serving")
    BY <1>5 DEF Closed, finish, begin, addConn
  <2> QED  BY <1>3, <1>4, <2>1, <2>2 DEF Steps
<1>6. ASSUME NEW g \in Handlers, ServingEnds(g)  PROVE Goal
  BY <1>4, <1>6 DEF ServingEnds, Steps
<1>7. ASSUME NEW g \in Handlers, removeConn(g), g # h  PROVE Goal
  BY <1>3, <1>7 DEF removeConn
<1>8. ASSUME NEW g \in Handlers, delete(g) \/ Upgrade(g)  PROVE Goal
  <2>1. g # h  BY <1>8 DEF delete, Upgrade, At
  <2> QED  BY <1>1, <1>8, <2>1 DEF delete, Upgrade, TypeOK
<1>9. ASSUME NEW g \in Handlers, NEW s \in Sids, NEW request \in Requests,
             Authenticated(g, request, s)
      PROVE  Goal
  <2>1. g # h  BY <1>9 DEF Authenticated, Accepts, At
  <2>2. CASE Begins(g, request, s)  BY <1>1, <2>1, <2>2, BeginsRequest
  <2>3. CASE Goes(g, "closing")  BY <1>4, <2>1, <2>3 DEF Steps
  <2> QED  BY <1>9, <2>2, <2>3 DEF Authenticated
<1>10. ASSUME Tick \/ Login \/ ShutdownBegins \/ closeAll \/ CloseOne("main")
              \/ ListenerCloses \/ ShutdownReturns \/ UNCHANGED vars
       PROVE  Goal
  BY <1>10, ServerLeavesHandlers DEF vars
<1> QED
  BY <1>2, <1>5, <1>6, <1>7, <1>8, <1>9, <1>10 DEF Next, Proceeds

(* A session that signs in has no sockets.                                 *)
LEMMA LoginCounts ==
  ASSUME Inv, SlotInv, Login
  PROVE  /\ Registered' = Registered
         /\ UNCHANGED <<conns, totalConns>>
         /\ \A s \in Sids \ live' : s \notin live
         /\ \A s \in live' \ live : conns[s] = {}
<1> DEFINE n == created + 1
<1>1. /\ live' = live \union {n} /\ conns' = conns /\ totalConns' = totalConns
      /\ created < MaxSessions
  BY DEF Login, create
<1>2. n \in Sids /\ n \notin live
  BY <1>1, ServerLimits DEF Inv, TypeOK, Sids
<1>3. conns[n] = {}  BY <1>2 DEF SlotInv
<1> HIDE DEF n
<1>4. Registered' = Registered  BY <1>1, <1>3 DEF Registered
<1> QED  BY <1>1, <1>3, <1>4

(* A session that is taken out takes its slots with it, and no others.     *)
LEMMA TakeOutCounts ==
  ASSUME Inv, SlotInv, NEW closer \in Closers, NEW s \in Sids, TakeOut(closer, s)
  PROVE  /\ totalConns' = Cardinality(Registered') /\ totalConns' <= totalConns
         /\ conns'[s] = {} /\ live' = live \ {s}
         /\ \A r \in Sids \ {s} : conns'[r] = conns[r]
<1>1. /\ live' = live \ {s} /\ conns' = [conns EXCEPT ![s] = {}]
      /\ totalConns' = Max({totalConns - Cardinality(conns[s]), 0})
  BY DEF TakeOut
<1>2. TypeOK /\ conns \in [Sids -> SUBSET Socks] /\ live \subseteq Sids
  BY LiveHasRecord DEF Inv, TypeOK
<1>3. conns'[s] = {} /\ \A r \in Sids \ {s} : conns'[r] = conns[r]  BY <1>1, <1>2
<1> DEFINE P == {s} \X conns[s]
<1>4. IsFiniteSet(conns[s]) /\ Cardinality(conns[s]) \in Nat
  <2>1. IsFiniteSet(Socks)  BY SocksAreFinite
  <2> QED  BY <1>2, <2>1, FS_Subset, FS_CardinalityType
<1>5. IsFiniteSet(Registered) /\ Cardinality(Registered) \in Nat
  BY <1>2, RegisteredIsFinite, FS_CardinalityType
<1>6. P \subseteq Registered
  <2>1. s \notin live => conns[s] = {}  BY DEF SlotInv
  <2> QED  BY <1>2, <2>1 DEF Registered
<1>7. Registered' = Registered \ P
  BY <1>1, <1>2, <1>3 DEF Registered
<1>8. Cardinality(P) = Cardinality(conns[s])
  <2>1. Cardinality({s} \X conns[s]) = Cardinality({s}) * Cardinality(conns[s])
    BY <1>4, FS_Singleton, FS_Product
  <2>2. Cardinality({s}) = 1  BY FS_Singleton
  <2> QED  BY <1>4, <2>1, <2>2
<1>9. Registered \cap P = P  BY <1>6
<1> HIDE DEF P
<1>10. Cardinality(Registered') = Cardinality(Registered) - Cardinality(conns[s])
  <2>1. Cardinality(Registered \ P) = Cardinality(Registered) - Cardinality(Registered \cap P)
    BY <1>5, FS_Difference
  <2> QED  BY <1>7, <1>8, <1>9, <2>1
<1>11. Cardinality(Registered') \in Nat
  BY <1>5, <1>7, FS_Difference, FS_CardinalityType
<1>12. totalConns' = Cardinality(Registered')
  BY <1>1, <1>10, <1>11, MaxOfCount DEF SlotInv
<1> QED  BY <1>1, <1>3, <1>4, <1>5, <1>10, <1>12 DEF SlotInv

(* A set counts one more with a new member: the helper the counts of       *)
(* addConn rest on.                                                        *)
LEMMA OneMore ==
  ASSUME NEW S, NEW x, x \notin S, IsFiniteSet(S), Cardinality(S) \in Nat
  PROVE  Cardinality(S \union {x}) = Cardinality(S) + 1
<1>1. Cardinality(S \union {x}) = IF x \in S THEN Cardinality(S) ELSE Cardinality(S) + 1
  BY FS_AddElement
<1> QED  BY <1>1

(* A registration takes one free slot.                                     *)
LEMMA AddCounts ==
  ASSUME Inv, SlotInv, NEW h \in Handlers, addConn(h), RoomFor(handler[h].sid)
  PROVE  LET s == handler[h].sid IN
         /\ totalConns' = Cardinality(Registered') /\ totalConns' <= MaxTotalConns
         /\ live' = live /\ s \in live /\ conns'[s] = conns[s] \union {handler[h].sock}
         /\ Cardinality(conns'[s]) <= PerSession
         /\ \A r \in Sids \ {s} : conns'[r] = conns[r]
<1> DEFINE s == handler[h].sid
           c == handler[h].sock
<1>1. /\ conns' = [conns EXCEPT ![s] = @ \union {c}] /\ totalConns' = totalConns + 1
      /\ live' = live /\ At(h, "upgraded")
  BY DEF addConn
<1>2. TypeOK /\ conns \in [Sids -> SUBSET Socks] /\ live \subseteq Sids /\ s \in Sids
  BY <1>1, LiveHasRecord DEF Inv, TypeOK, HasSession, At, Connected
<1>3. c \in Socks
  <2>1. c \in 1 .. dialled /\ dialled \in 0 .. MaxSockets /\ MaxSockets \in Nat
    BY <1>1, ServerLimits DEF Inv, OneSocketEach, TypeOK, At, Connected
  <2> QED  BY <2>1 DEF Socks
<1>4. c \notin conns[s]
  <2>1. ASSUME c \in conns[s]  PROVE FALSE
    <3>1. s \in live  BY DEF RoomFor
    <3>2. PICK g \in Handlers : handler[g].at \in {"serving", "leaving"} /\ handler[g].sock = c
      BY <2>1, <3>1 DEF SlotInv, Attended
    <3>3. g # h  BY <1>1, <3>2 DEF At
    <3> QED  BY <1>1, <3>2, <3>3 DEF Inv, OneSocketEach, At, Connected
  <2> QED  BY <2>1
<1>5. s \in live /\ Cardinality(conns[s]) < PerSession /\ totalConns < MaxTotalConns
  BY DEF RoomFor
<1> HIDE DEF s, c
<1>6. conns'[s] = conns[s] \union {c} /\ \A r \in Sids \ {s} : conns'[r] = conns[r]
  BY <1>1, <1>2
<1>7. Registered' = Registered \union {<<s, c>>} /\ <<s, c>> \notin Registered
  <2>1. \A r \in Sids : conns'[r] = IF r = s THEN conns[r] \union {c} ELSE conns[r]
    BY <1>6
  <2>2. ASSUME NEW x \in live \X Socks
        PROVE  x[2] \in conns'[x[1]] <=> (x[2] \in conns[x[1]] \/ x = <<s, c>>)
    <3>1. x[1] \in Sids /\ x = <<x[1], x[2]>>  BY <1>2
    <3>2. x = <<s, c>> <=> x[1] = s /\ x[2] = c  BY <3>1
    <3> QED  BY <2>1, <3>1, <3>2
  <2>3. <<s, c>> \in live \X Socks  BY <1>3, <1>5
  <2>4. Registered' = {x \in live \X Socks : x[2] \in conns'[x[1]]}  BY <1>1 DEF Registered
  <2> QED  BY <1>4, <2>2, <2>3, <2>4 DEF Registered
<1>8. IsFiniteSet(Registered) /\ Cardinality(Registered) \in Nat
  BY <1>2, RegisteredIsFinite, FS_CardinalityType
<1>9. totalConns' = Cardinality(Registered')
  <2>1. Cardinality(Registered') = Cardinality(Registered) + 1
    <3>1. Cardinality(Registered \union {<<s, c>>}) = Cardinality(Registered) + 1
      BY <1>7, <1>8, OneMore
    <3> QED  BY <1>7, <3>1
  <2> QED  BY <1>1, <2>1 DEF SlotInv
<1>10. IsFiniteSet(conns[s]) /\ Cardinality(conns[s]) \in Nat
  <2>1. IsFiniteSet(Socks)  BY SocksAreFinite
  <2> QED  BY <1>2, <2>1, FS_Subset, FS_CardinalityType
<1>11. Cardinality(conns'[s]) = Cardinality(conns[s]) + 1
  <2>1. Cardinality(conns[s] \union {c}) = Cardinality(conns[s]) + 1
    BY <1>4, <1>10, OneMore
  <2> QED  BY <1>6, <2>1
<1>12. totalConns' <= MaxTotalConns /\ Cardinality(conns'[s]) <= PerSession
  BY <1>1, <1>5, <1>8, <1>10, <1>11, ServerLimits DEF SlotInv
<1> QED  BY <1>1, <1>5, <1>6, <1>9, <1>12 DEF s, c

(* A removal gives one slot back.                                          *)
LEMMA RemoveCounts ==
  ASSUME Inv, SlotInv, NEW h \in Handlers, removeConn(h), handler[h].sid \in live,
         handler[h].sock \in conns[handler[h].sid]
  PROVE  LET s == handler[h].sid IN
         /\ totalConns' = Cardinality(Registered') /\ totalConns' <= totalConns
         /\ live' = live /\ conns'[s] = conns[s] \ {handler[h].sock}
         /\ \A r \in Sids \ {s} : conns'[r] = conns[r]
<1> DEFINE s == handler[h].sid
           c == handler[h].sock
<1>1. /\ conns' = [conns EXCEPT ![s] = @ \ {c}] /\ totalConns' = Max({totalConns - 1, 0})
      /\ live' = live /\ s \in live /\ c \in conns[s]
  BY DEF removeConn
<1>2. TypeOK /\ conns \in [Sids -> SUBSET Socks] /\ live \subseteq Sids /\ s \in Sids
  BY <1>1, LiveHasRecord DEF Inv, TypeOK
<1> HIDE DEF s, c
<1>3. conns'[s] = conns[s] \ {c} /\ \A r \in Sids \ {s} : conns'[r] = conns[r]
  BY <1>1, <1>2
<1>4. Registered' = Registered \ {<<s, c>>} /\ <<s, c>> \in Registered
  <2>1. \A r \in Sids : conns'[r] = IF r = s THEN conns[r] \ {c} ELSE conns[r]
    BY <1>3
  <2>2. ASSUME NEW x \in live \X Socks
        PROVE  x[2] \in conns'[x[1]] <=> (x[2] \in conns[x[1]] /\ x # <<s, c>>)
    <3>1. x[1] \in Sids /\ x = <<x[1], x[2]>>  BY <1>2
    <3>2. x = <<s, c>> <=> x[1] = s /\ x[2] = c  BY <3>1
    <3> QED  BY <2>1, <3>1, <3>2
  <2>3. <<s, c>> \in live \X Socks  BY <1>1, <1>2
  <2>4. Registered' = {x \in live \X Socks : x[2] \in conns'[x[1]]}  BY <1>1 DEF Registered
  <2> QED  BY <1>1, <2>2, <2>3, <2>4 DEF Registered
<1>5. IsFiniteSet(Registered) /\ Cardinality(Registered) \in Nat
  BY <1>2, RegisteredIsFinite, FS_CardinalityType
<1>6. Cardinality(Registered') = Cardinality(Registered) - 1
      /\ Cardinality(Registered') \in Nat
  BY <1>4, <1>5, FS_RemoveElement, FS_CardinalityType
<1>7. totalConns' = Cardinality(Registered') /\ totalConns' <= totalConns
  BY <1>1, <1>5, <1>6, MaxOfCount DEF SlotInv
<1> QED  BY <1>1, <1>3, <1>7 DEF s, c

(* Registered sockets keep their handlers.                                 *)
LEMMA AttendedKeeps ==
  ASSUME Inv, SlotInv, [Next]_vars,
         NEW s \in live, NEW c \in conns[s], s \in live', c \in conns'[s]
  PROVE  \E h \in Handlers : handler'[h].at \in {"serving", "leaving"}
                             /\ handler'[h].sock = c /\ handler'[h].sid = s
<1>1. PICK h \in Handlers : handler[h].at \in {"serving", "leaving"}
                            /\ handler[h].sock = c /\ handler[h].sid = s
  BY DEF SlotInv, Attended
<1>2. ~removeConn(h)
  <2>1. ASSUME removeConn(h)  PROVE FALSE
    <3>1. conns' = [conns EXCEPT ![s] = @ \ {c}]  BY <1>1, <2>1 DEF removeConn
    <3>2. s \in Sids /\ conns \in [Sids -> SUBSET Socks]
      BY LiveHasRecord DEF Inv, TypeOK
    <3> QED  BY <3>1, <3>2
  <2> QED  BY <2>1
<1>3. /\ handler'[h].at \in {"serving", "leaving"}
      /\ handler'[h].sock = handler[h].sock /\ handler'[h].sid = handler[h].sid
  BY <1>1, <1>2, HandlersAttend
<1> QED  BY <1>1, <1>3

(* Every step that registers or unregisters a socket counts it.            *)
LEMMA SlotsKeep == Inv /\ SlotInv /\ [Next]_vars => SlotInv'
<1> SUFFICES ASSUME Inv, SlotInv, [Next]_vars PROVE SlotInv'  OBVIOUS
<1>1. live \subseteq Sids /\ conns \in [Sids -> SUBSET Socks]
  BY LiveHasRecord DEF Inv, TypeOK
<1>2. totalConns \in Nat /\ MaxTotalConns \in Nat /\ PerSession \in Nat
  BY ServerLimits DEF Inv, TypeOK
<1>3. ASSUME \A s \in live' : \A c \in conns'[s] :
               (s \in live /\ c \in conns[s])
               \/ \E h \in Handlers : handler'[h].at \in {"serving", "leaving"}
                                      /\ handler'[h].sock = c /\ handler'[h].sid = s
      PROVE  Attended'
  BY <1>3, AttendedKeeps DEF Attended
<1>4. CASE UNCHANGED <<live, conns, totalConns>>
  <2>1. Attended'  BY <1>3, <1>4
  <2>2. Registered' = Registered  BY <1>4 DEF Registered
  <2> QED  BY <1>4, <2>1, <2>2 DEF SlotInv
<1>5. CASE Login
  <2>1. /\ Registered' = Registered /\ UNCHANGED <<conns, totalConns>>
        /\ \A s \in Sids \ live' : s \notin live
        /\ \A s \in live' \ live : conns[s] = {}
    BY <1>5, LoginCounts
  <2>2. Attended'  BY <1>3, <2>1
  <2> QED  BY <2>1, <2>2 DEF SlotInv
<1>6. ASSUME NEW closer \in Closers, NEW s \in Sids, TakeOut(closer, s)  PROVE SlotInv'
  <2>1. /\ totalConns' = Cardinality(Registered') /\ totalConns' <= totalConns
        /\ conns'[s] = {} /\ live' = live \ {s}
        /\ \A r \in Sids \ {s} : conns'[r] = conns[r]
    BY <1>6, TakeOutCounts
  <2>2. Attended'  BY <1>1, <1>3, <2>1
  <2>3. \A r \in Sids \ live' : conns'[r] = {}  BY <2>1 DEF SlotInv
  <2>4. \A r \in Sids : Cardinality(conns'[r]) <= PerSession
    <3>1. Cardinality({}) = 0  BY FS_EmptySet
    <3> QED  BY <1>2, <2>1, <3>1 DEF SlotInv
  <2>5. totalConns' \in Nat  BY Inductive DEF Inv, TypeOK
  <2>6. totalConns' <= MaxTotalConns  BY <1>2, <2>1, <2>5 DEF SlotInv
  <2> QED  BY <2>1, <2>2, <2>3, <2>4, <2>6 DEF SlotInv
<1>7. ASSUME NEW h \in Handlers, addConn(h), RoomFor(handler[h].sid)  PROVE SlotInv'
  <2> DEFINE s == handler[h].sid
  <2>1. /\ totalConns' = Cardinality(Registered') /\ totalConns' <= MaxTotalConns
        /\ live' = live /\ s \in live /\ conns'[s] = conns[s] \union {handler[h].sock}
        /\ Cardinality(conns'[s]) <= PerSession
        /\ \A r \in Sids \ {s} : conns'[r] = conns[r]
    BY <1>7, AddCounts
  <2>2. /\ handler'[h].at = "serving" /\ handler'[h].sid = s
        /\ handler'[h].sock = handler[h].sock
    BY <1>7, GoesOn DEF addConn, Inv, Steps
  <2> HIDE DEF s
  <2>3. Attended'  BY <1>1, <1>3, <2>1, <2>2
  <2>4. \A r \in Sids \ live' : conns'[r] = {}  BY <2>1 DEF SlotInv
  <2>5. \A r \in Sids : Cardinality(conns'[r]) <= PerSession  BY <2>1 DEF SlotInv
  <2> QED  BY <2>1, <2>3, <2>4, <2>5 DEF SlotInv
<1>8. ASSUME NEW h \in Handlers, removeConn(h), handler[h].sid \in live,
             handler[h].sock \in conns[handler[h].sid]
      PROVE  SlotInv'
  <2> DEFINE s == handler[h].sid
             c == handler[h].sock
  <2>1. /\ totalConns' = Cardinality(Registered') /\ totalConns' <= totalConns
        /\ live' = live /\ conns'[s] = conns[s] \ {c}
        /\ \A r \in Sids \ {s} : conns'[r] = conns[r]
    BY <1>8, RemoveCounts
  <2>2. s \in Sids /\ s \in live  BY <1>1, <1>8
  <2> HIDE DEF s, c
  <2>3. Attended'  BY <1>1, <1>3, <2>1
  <2>4. \A r \in Sids \ live' : conns'[r] = {}  BY <2>1, <2>2 DEF SlotInv
  <2>5. Cardinality(conns'[s]) <= Cardinality(conns[s]) /\ Cardinality(conns'[s]) \in Nat
        /\ Cardinality(conns[s]) \in Nat
    <3>1. IsFiniteSet(Socks)  BY SocksAreFinite
    <3>2. IsFiniteSet(conns[s])  BY <1>1, <2>2, <3>1, FS_Subset
    <3> QED  BY <2>1, <3>2, FS_Subset, FS_CardinalityType
  <2>6. \A r \in Sids : Cardinality(conns'[r]) <= PerSession
    BY <1>2, <2>1, <2>2, <2>5 DEF SlotInv
  <2>7. totalConns' \in Nat  BY Inductive DEF Inv, TypeOK
  <2>8. totalConns' <= MaxTotalConns  BY <1>2, <2>1, <2>7 DEF SlotInv
  <2> QED  BY <2>1, <2>3, <2>4, <2>6, <2>8 DEF SlotInv
<1> QED  BY <1>4, <1>5, <1>6, <1>7, <1>8, SessionSteps

(* Nothing is registered and nothing counted at first.                     *)
LEMMA SlotsAtFirst == Init => SlotInv
<1> SUFFICES ASSUME Init PROVE SlotInv  OBVIOUS
<1>1. Registered = {}  BY DEF Init, Registered
<1>2. Cardinality({}) = 0  BY FS_EmptySet
<1> QED  BY <1>1, <1>2, ServerLimits DEF Init, SlotInv, Attended

(* Sockets that are served are registered, each by one handler, and so no  *)
(* more of them than the limits.                                           *)
LEMMA ServedWithinLimits == Inv /\ SlotInv => WithinLimits
<1> SUFFICES ASSUME Inv, SlotInv PROVE WithinLimits  OBVIOUS
<1>1. TypeOK /\ live \subseteq Sids /\ conns \in [Sids -> SUBSET Socks]
  BY LiveHasRecord DEF Inv, TypeOK
<1>2. \A h \in Served : /\ h \in Handlers /\ handler[h].at \in Connected
                        /\ handler[h].sid \in live
                        /\ handler[h].sock \in conns[handler[h].sid]
  BY DEF Served, At, Connected, Inv, NoOrphan
<1>3. \A g, h \in Served : handler[g].sock = handler[h].sock => g = h
  BY <1>2 DEF Inv, OneSocketEach
<1>4. Cardinality(Served) <= MaxTotalConns
  <2> DEFINE f == [h \in Served |-> <<handler[h].sid, handler[h].sock>>]
  <2>1. \A h \in Served : <<handler[h].sid, handler[h].sock>> \in Registered
    BY <1>1, <1>2 DEF Registered
  <2>2. f \in Injection(Served, Registered)
    <3>1. f \in [Served -> Registered]  BY <2>1
    <3>2. \A g, h \in Served : f[g] = f[h] => g = h  BY <1>3
    <3> QED  BY <3>1, <3>2, Fun_IsInj
  <2>3. IsFiniteSet(Registered) /\ Cardinality(Registered) \in Nat
    BY <1>1, RegisteredIsFinite, FS_CardinalityType
  <2>4. IsFiniteSet(Served) /\ Cardinality(Served) <= Cardinality(Registered)
    BY <2>2, <2>3, FS_Injection
  <2>5. Cardinality(Served) \in Nat  BY <2>4, FS_CardinalityType
  <2> QED  BY <2>3, <2>4, <2>5, ServerLimits DEF SlotInv
<1>5. ASSUME NEW s \in Sids
      PROVE  Cardinality({h \in Served : handler[h].sid = s}) <= PerSession
  <2> DEFINE S == {h \in Served : handler[h].sid = s}
             f == [h \in S |-> handler[h].sock]
  <2>1. f \in Injection(S, conns[s])
    <3>1. f \in [S -> conns[s]]  BY <1>2
    <3>2. \A g, h \in S : f[g] = f[h] => g = h  BY <1>3
    <3> QED  BY <3>1, <3>2, Fun_IsInj
  <2>2. IsFiniteSet(conns[s]) /\ Cardinality(conns[s]) \in Nat
    <3>1. IsFiniteSet(Socks)  BY SocksAreFinite
    <3> QED  BY <1>1, <3>1, FS_Subset, FS_CardinalityType
  <2> HIDE DEF f
  <2>3. IsFiniteSet(S) /\ Cardinality(S) <= Cardinality(conns[s])
    BY <2>1, <2>2, FS_Injection
  <2>4. Cardinality(S) \in Nat  BY <2>3, FS_CardinalityType
  <2> QED  BY <2>2, <2>3, <2>4, ServerLimits DEF SlotInv
<1> QED  BY <1>4, <1>5 DEF WithinLimits

-----------------------------------------------------------------------------
(* The shutdown.                                                           *)

(* The steps for which Shutdown does not wait.                             *)
Quiet == {"idle", "upgraded", "serving", "leaving"}

(* A session from before the shutdown is out of the map or on closeAll's   *)
(* list, the list and the sockets it took out are done with when the       *)
(* listener closes, and no request is under way when Shutdown returns.     *)
ShutInv ==
  /\ server # "running" => before <= created /\ \A s \in live : s <= before => s \in ids
  /\ server \in {"stopping", "down"} => ids = {} /\ toClose["main"] = {}
  /\ server = "down" => \A h \in Handlers : handler[h].at \in Quiet

(* What a handler does to the parts of the shutdown.                       *)
LEMMA HandlersLetShutdownBe ==
  ASSUME Inv, ShutInv, NEW h \in Handlers,
         BrowserLeaves(h) \/ Proceeds(h)
         \/ \E s \in Sids, request \in Requests : Authenticated(h, request, s)
  PROVE  ShutInv'
<1> USE DEF gateVars, history, sessionVars
<1>1. TypeOK /\ HasSession /\ h # "main"  BY ServerLimits DEF Inv
<1>2. UNCHANGED <<server, ids, before, created>>
  BY DEF BrowserLeaves, Proceeds, delete, CloseOne, Closed, Upgrade, addConn, ServingEnds,
         removeConn, begin, finish, Authenticated, TakeOut
<1>3. live' \subseteq live
  BY DEF BrowserLeaves, Proceeds, delete, CloseOne, Closed, Upgrade, addConn, ServingEnds,
         removeConn, begin, finish, Authenticated, TakeOut
<1>4. toClose'["main"] = toClose["main"]
  <2>1. toClose \in [Closers -> SUBSET Socks] /\ h \in Closers /\ "main" \in Closers
    BY <1>1 DEF TypeOK, Closers
  <2> QED
    BY <1>1, <2>1
       DEF BrowserLeaves, Proceeds, delete, CloseOne, Closed, Upgrade, addConn, ServingEnds,
           removeConn, begin, finish, Authenticated, TakeOut
<1>5. ASSUME server = "down"  PROVE \A g \in Handlers : handler'[g].at \in Quiet
  <2>1. \A g \in Handlers : handler[g].at \in Quiet  BY <1>5 DEF ShutInv
  <2>2. ~(\E s \in Sids, request \in Requests : Authenticated(h, request, s))
    BY <1>5 DEF Authenticated, Accepts
  <2>3. ~delete(h) /\ ~Closed(h) /\ ~Upgrade(h) /\ ~begin(h) /\ ~finish(h)
    BY <2>1 DEF delete, Closed, Upgrade, begin, finish, At, Quiet
  <2>4. CASE BrowserLeaves(h) \/ CloseOne(h)
    BY <2>1, <2>4 DEF BrowserLeaves, CloseOne
  <2>5. CASE addConn(h) \/ ServingEnds(h) \/ removeConn(h)
    <3>1. Goes(h, "serving") \/ Goes(h, "leaving") \/ Returns(h)
      BY <2>5 DEF addConn, ServingEnds, removeConn
    <3> QED  BY <1>1, <2>1, <3>1, GoesOn, ReturnsIdle DEF Quiet, Steps
  <2> QED  BY <2>2, <2>3, <2>4, <2>5 DEF Proceeds
<1> QED  BY <1>2, <1>3, <1>4, <1>5 DEF ShutInv

(* Shutdown drops the sessions it found; the others of the server let it   *)
(* be.                                                                     *)
LEMMA ServerShutsDown ==
  ASSUME Inv, ShutInv,
         Tick \/ Login \/ ShutdownBegins \/ closeAll \/ CloseOne("main") \/ ListenerCloses
         \/ ShutdownReturns
  PROVE  ShutInv'
<1> USE DEF gateVars, history, sessionVars
<1>1. TypeOK /\ handler' = handler  BY ServerLeavesHandlers DEF Inv
<1>2. /\ created \in Nat /\ before \in Nat /\ live \subseteq 1 .. created
      /\ toClose \in [Closers -> SUBSET Socks] /\ "main" \in Closers
  BY <1>1, ServerLimits DEF TypeOK, Closers
<1>3. CASE Tick
  BY <1>1, <1>3 DEF Tick, ShutInv
<1>4. CASE Login
  <2>1. /\ created' = created + 1 /\ live' = live \union {created + 1}
        /\ UNCHANGED <<server, ids, before, toClose>> /\ server \in {"running", "closing"}
    BY <1>4 DEF Login, create
  <2>2. server = "closing" => before <= created + 1 /\ ~(created + 1 <= before)
    BY <1>2 DEF ShutInv
  <2> HIDE DEF gateVars, history, sessionVars
  <2> QED  BY <2>1, <2>2 DEF ShutInv
<1>5. CASE ShutdownBegins
  BY <1>2, <1>5 DEF ShutdownBegins, ShutInv
<1>6. CASE closeAll
  <2>1. PICK s \in ids : ids' = ids \ {s} /\ TakeOut("main", s)  BY <1>6 DEF closeAll
  <2>2. live' = live \ {s} /\ created' = created  BY <2>1 DEF TakeOut
  <2>3. server = "closing" /\ server' = server /\ before' = before  BY <1>6 DEF closeAll
  <2> QED  BY <2>1, <2>2, <2>3 DEF ShutInv
<1>7. CASE CloseOne("main")
  <2>1. /\ UNCHANGED <<server, ids, before, created, live, handler>>
        /\ toClose'["main"] \subseteq toClose["main"]
    BY <1>2, <1>7 DEF CloseOne
  <2> QED  BY <2>1 DEF ShutInv
<1>8. CASE ListenerCloses
  BY <1>8 DEF ListenerCloses, ShutInv
<1>9. CASE ShutdownReturns
  BY <1>9 DEF ShutdownReturns, ShutInv, Quiet
<1> QED  BY <1>3, <1>4, <1>5, <1>6, <1>7, <1>8, <1>9

(* Every step keeps what Shutdown has done.                                *)
LEMMA ShutdownKeeps == Inv /\ ShutInv /\ [Next]_vars => ShutInv'
<1> SUFFICES ASSUME Inv, ShutInv, [Next]_vars PROVE ShutInv'  OBVIOUS
<1>1. CASE UNCHANGED vars
  BY <1>1 DEF vars, sessionVars, history, ShutInv
<1> QED  BY <1>1, HandlersLetShutdownBe, ServerShutsDown DEF Next

(* Nobody is closing anything any more, so an open socket is a served one, *)
(* and its session is in the map.                                          *)
LEMMA DownLeavesNone == Inv /\ ShutInv => ShutdownLeavesNone
<1> SUFFICES ASSUME Inv, ShutInv, server = "down", NEW h \in Handlers,
                    At(h, "serving"), handler[h].sock \in open
             PROVE  handler[h].sid > before
  BY DEF ShutdownLeavesNone
<1>1. \A w \in Closers : toClose[w] = {}
  BY DEF ShutInv, Quiet, Closers, Inv, ClosesAtClosing, At
<1>2. h \in Served  BY <1>1 DEF Served, BeingClosed
<1>3. handler[h].sid \in live  BY <1>2 DEF Inv, NoOrphan
<1>4. ~(handler[h].sid <= before)  BY <1>3 DEF ShutInv
<1>5. handler[h].sid \in Nat /\ before \in Nat
  BY <1>3, ServerLimits DEF Inv, TypeOK
<1> QED  BY <1>4, <1>5

-----------------------------------------------------------------------------
(* Every variable of the server keeps its type: the count of sockets never *)
(* goes below zero, however many goroutines take a session's sockets out.  *)
THEOREM ServerTypeCorrect == Spec => []TypeOK
<1>1. Spec => []Inv  BY Initially, Inductive, PTL DEF Spec
<1>2. Inv => TypeOK  BY DEF Inv
<1> QED  BY <1>1, <1>2, PTL

(* No socket outlives its session, whatever sign-outs, expiries, shutdown, *)
(* leaving browsers and registrations do between each other's steps.       *)
THEOREM NoSocketWithoutSession == Spec => []NoOrphan
<1>1. Spec => []Inv  BY Initially, Inductive, PTL DEF Spec
<1>2. Inv => NoOrphan  BY DEF Inv
<1> QED  BY <1>1, <1>2, PTL

(* A slot that is counted is used, and given back once: totalConns is the  *)
(* number of registered sockets, and each has a handler that will remove   *)
(* it, however sign-outs, expiries and handlers race for one socket.       *)
THEOREM SlotsAreReturned == Spec => []SlotsReturned
<1>1. Spec => [](Inv /\ SlotInv)
  BY Initially, Inductive, SlotsAtFirst, SlotsKeep, PTL DEF Spec
<1>2. SlotInv => SlotsReturned  BY DEF SlotInv, Attended, SlotsReturned
<1> QED  BY <1>1, <1>2, PTL

(* No more sockets are served, in all and for each session, than the       *)
(* limits addConn looks at.                                                *)
THEOREM SocketsWithinLimits == Spec => []WithinLimits
<1>1. Spec => [](Inv /\ SlotInv)
  BY Initially, Inductive, SlotsAtFirst, SlotsKeep, PTL DEF Spec
<1> QED  BY <1>1, ServedWithinLimits, PTL

(* After the shutdown no socket of a session from before it is served,     *)
(* although closeAll works on a copy of the IDs and Shutdown does not wait *)
(* for sockets.                                                            *)
THEOREM ShutdownClosesSockets == Spec => []ShutdownLeavesNone
<1>1. Init => ShutInv  BY DEF Init, ShutInv
<1>2. Spec => [](Inv /\ ShutInv)
  BY <1>1, Initially, Inductive, ShutdownKeeps, PTL DEF Spec
<1> QED  BY <1>2, DownLeavesNone, PTL

(* Rechecks of one trade neither overlap nor come closer to each other     *)
(* than Spacing, in whatever order the requests get the coordinator.       *)
THEOREM RechecksAreApart == Spec => RechecksApart
<1>1. Init => GateInv  BY DEF Init, Idle, GateInv, At
<1>2. Spec => [](Inv /\ GateInv)  BY <1>1, Initially, Inductive, GateInductive, PTL DEF Spec
<1>3. Inv /\ GateInv /\ [Next]_vars =>
        [\A h \in Handlers :
           At(h, "recheck") /\ At(h, "rechecking")' =>
             LET t == handler[h].trade IN
               /\ handler[h].stamp >= begun[t] + Spacing
               /\ \A g \in Handlers \ {h} : ~(At(g, "rechecking") /\ handler[g].trade = t)]_vars
  BY StartsApart
<1> QED  BY <1>2, <1>3, PTL DEF Spec, RechecksApart
=============================================================================
