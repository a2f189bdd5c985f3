----------------------------- MODULE WebServer ------------------------------
(***************************************************************************)
(* The web console's server (internal/webconsole/server.go and the recheck *)
(* handler of trade_api.go): sessions with an expiry, the browser sockets  *)
(* counted for each session and in total, sign-out, the gate that lets one *)
(* recheck of a trade run at a time, and the shutdown.                     *)
(* Each request has a handler goroutine.  An action is what a handler does *)
(* under one mutex; what it decided there it carries to its next action.   *)
(* A request that is refused for its origin, cookie or token changes       *)
(* nothing and is left out, as is the limiter of sign-ins.                 *)
(***************************************************************************)
EXTENDS Integers, FiniteSets, FiniteSetsExt

CONSTANTS
  Handlers,        \* handler goroutines
  Trades,          \* trades a user may recheck
  MaxSessions,     \* bound: sign-ins
  MaxSockets,      \* bound: socket requests
  MaxNow,          \* bound: ticks of the clock
  TTL,             \* SessionTTL
  PerSession,      \* sockets of one session
  MaxTotalConns,   \* sockets in all
  Spacing          \* between two rechecks of one trade

ASSUME ServerLimits ==
  /\ {MaxSessions, MaxSockets, MaxNow} \subseteq Nat
  /\ {TTL, PerSession, MaxTotalConns, Spacing} \subseteq Nat \ {0}
  /\ Trades # {} /\ "main" \notin Handlers

Sids == 1 .. MaxSessions

Socks == 1 .. MaxSockets

VARIABLES
  now,
  live,            \* sessionStore.sessions: the IDs that are in the map
  created,         \* sessions created so far
  expires,         \* ExpiresAt of each
  conns,           \* conns of each
  totalConns,
  dialled,         \* sockets so far
  open,            \* sockets that neither side has closed
  handler,         \* each goroutine: where it is, its session, socket, trade, stamp
  toClose,         \* the sockets a goroutine took out of the store and will close
  active, last,    \* recheckCoordinator
  server,          \* "running", "closing" (closeAll), "stopping" (Shutdown), "down"
  ids,             \* what closeAll has still to delete
  begun,           \* history: the stamp of the last recheck of each trade
  before           \* history: the sessions created before the shutdown

sessionVars == <<live, created, expires, conns, totalConns>>

gateVars == <<active, last>>

vars == <<now, sessionVars, dialled, open, handler, toClose, gateVars, server, ids, begun,
          before>>

history == <<begun, before>>

Idle == [at |-> "idle", sid |-> 0, sock |-> 0, trade |-> CHOOSE t \in Trades : TRUE,
         stamp |-> 0]

(* The goroutine of ListenAndServe closes sockets too.                     *)
Closers == Handlers \union {"main"}

Init ==
  /\ now = 0
  /\ live = {} /\ created = 0 /\ expires = [s \in Sids |-> 0]
  /\ conns = [s \in Sids |-> {}] /\ totalConns = 0
  /\ dialled = 0 /\ open = {}
  /\ handler = [h \in Handlers |-> Idle]
  /\ toClose = [c \in Closers |-> {}]
  /\ active = {} /\ last = [t \in Trades |-> -Spacing]
  /\ server = "running" /\ ids = {}
  /\ begun = [t \in Trades |-> -Spacing] /\ before = MaxSessions

At(h, step) == handler[h].at = step

Goes(h, step) == handler' = [handler EXCEPT ![h].at = step]

Returns(h) == handler' = [handler EXCEPT ![h] = Idle]

(* A request is accepted until Shutdown has closed the listener.           *)
Accepts(h) == At(h, "idle") /\ server \in {"running", "closing"}

Tick ==
  /\ now < MaxNow /\ now' = now + 1
  /\ UNCHANGED <<sessionVars, dialled, open, handler, toClose, gateVars, server, ids, history>>

-----------------------------------------------------------------------------
(* Sessions.                                                               *)

(* A new session, which expires TTL after the time handleLogin has read.   *)
create(s) ==
  /\ created' = s
  /\ live' = live \union {s}
  /\ expires' = [expires EXCEPT ![s] = now + TTL]

(* handleLogin.  The time is read before the body is, which only makes the *)
(* session shorter.                                                        *)
Login ==
  /\ server \in {"running", "closing"} /\ created < MaxSessions
  /\ create(created + 1)
  /\ UNCHANGED <<now, conns, totalConns, dialled, open, handler, toClose, gateVars, server,
                 ids, history>>

(* A session leaves the map with its sockets; the goroutine that took it   *)
(* out closes them after the unlock.                                       *)
TakeOut(closer, s) ==
  /\ live' = live \ {s}
  /\ conns' = [conns EXCEPT ![s] = {}]
  /\ totalConns' = Max({totalConns - Cardinality(conns[s]), 0})
  /\ toClose' = [toClose EXCEPT ![closer] = conns[s]]
  /\ UNCHANGED <<created, expires>>

Requests == {"logout", "socket", "recheck"}

(* The handler starts with what its request needs.                         *)
Begins(h, request, s) ==
  \/ /\ request # "recheck"
     /\ handler' = [handler EXCEPT ![h] = [Idle EXCEPT !.at = request, !.sid = s]]
  \/ /\ request = "recheck"
     /\ \E t \in Trades : handler' =
          [handler EXCEPT ![h] = [Idle EXCEPT !.at = request, !.trade = t, !.stamp = now]]

(* requireSession: get finds the session, or takes an expired one out.     *)
Authenticated(h, request, s) ==
  /\ Accepts(h) /\ s \in live
  /\ IF now < expires[s]
     THEN /\ Begins(h, request, s)
          /\ UNCHANGED <<sessionVars, toClose>>
     ELSE /\ Goes(h, "closing")
          /\ TakeOut(h, s)
  /\ UNCHANGED <<now, dialled, open, gateVars, server, ids, history>>

(* handleLogout; the session may be gone by now, and then has no sockets.  *)
delete(h) ==
  /\ At(h, "logout")
  /\ TakeOut(h, handler[h].sid)
  /\ handler' = [handler EXCEPT ![h] = [Idle EXCEPT !.at = "closing"]]
  /\ UNCHANGED <<now, dialled, open, gateVars, server, ids, history>>

CloseOne(closer) ==
  \E c \in toClose[closer] :
    /\ toClose' = [toClose EXCEPT ![closer] = @ \ {c}]
    /\ open' = open \ {c}
    /\ UNCHANGED <<now, sessionVars, dialled, handler, gateVars, server, ids, history>>

Closed(h) ==
  /\ At(h, "closing") /\ toClose[h] = {}
  /\ Returns(h)
  /\ UNCHANGED <<now, sessionVars, dialled, open, toClose, gateVars, server, ids, history>>

-----------------------------------------------------------------------------
(* handleWebSocket.                                                        *)

Upgrade(h) ==
  /\ At(h, "socket") /\ dialled < MaxSockets
  /\ dialled' = dialled + 1 /\ open' = open \union {dialled + 1}
  /\ handler' = [handler EXCEPT ![h].at = "upgraded", ![h].sock = dialled + 1]
  /\ UNCHANGED <<now, sessionVars, toClose, gateVars, server, ids, history>>

(* Mutated forms: the total is not looked at; the session that get         *)
(* returned is not looked up again.                                        *)
RoomWithoutTotal(s) == s \in live /\ Cardinality(conns[s]) < PerSession

RoomInSession(s) == Cardinality(conns[s]) < PerSession /\ totalConns < MaxTotalConns

(* What addConn asks under the lock.                                       *)
RoomFor(s) ==
  s \in live /\ Cardinality(conns[s]) < PerSession /\ totalConns < MaxTotalConns

addConn(h) ==
  /\ At(h, "upgraded")
  /\ LET s == handler[h].sid
         c == handler[h].sock IN
       IF RoomFor(s)
       THEN /\ conns' = [conns EXCEPT ![s] = @ \union {c}]
            /\ totalConns' = totalConns + 1
            /\ Goes(h, "serving")
            /\ UNCHANGED open
       ELSE /\ open' = open \ {c}
            /\ Returns(h)
            /\ UNCHANGED <<conns, totalConns>>
  /\ UNCHANGED <<now, live, created, expires, dialled, toClose, gateVars, server, ids, history>>

(* The browser goes away, or the connection breaks.                        *)
BrowserLeaves(h) ==
  /\ At(h, "serving") /\ handler[h].sock \in open
  /\ open' = open \ {handler[h].sock}
  /\ UNCHANGED <<now, sessionVars, dialled, handler, toClose, gateVars, server, ids, history>>

(* The loop ends with the connection or with the session's expiry.         *)
ServingEnds(h) ==
  /\ At(h, "serving")
  /\ handler[h].sock \notin open \/ now >= expires[handler[h].sid]
  /\ Goes(h, "leaving")
  /\ UNCHANGED <<now, sessionVars, dialled, open, toClose, gateVars, server, ids, history>>

(* Mutated form: the handler returns and its socket stays registered.      *)
LeaveRegistered(h) ==
  /\ At(h, "leaving")
  /\ open' = open \ {handler[h].sock}
  /\ Returns(h)
  /\ UNCHANGED <<now, sessionVars, dialled, toClose, gateVars, server, ids, history>>

(* The deferred removeConn and Close.                                      *)
removeConn(h) ==
  /\ At(h, "leaving")
  /\ LET s == handler[h].sid
         c == handler[h].sock
         found == s \in live /\ c \in conns[s] IN
       /\ conns' = IF found THEN [conns EXCEPT ![s] = @ \ {c}] ELSE conns
       /\ totalConns' = IF found THEN Max({totalConns - 1, 0}) ELSE totalConns
       /\ open' = open \ {c}
  /\ Returns(h)
  /\ UNCHANGED <<now, live, created, expires, dialled, toClose, gateVars, server, ids, history>>

-----------------------------------------------------------------------------
(* handleTradeRecheck: the trade is loaded, the stamp is taken, and then   *)
(* begin waits for its mutex.                                              *)

Limited(t, stamp) == stamp - last[t] < Spacing

begin(h) ==
  /\ At(h, "recheck")
  /\ LET t == handler[h].trade IN
       IF t \in active \/ Limited(t, handler[h].stamp)
       THEN Returns(h) /\ UNCHANGED <<active, begun>>
       ELSE /\ Goes(h, "rechecking") /\ active' = active \union {t}
            /\ begun' = [begun EXCEPT ![t] = handler[h].stamp]
  /\ UNCHANGED <<now, sessionVars, dialled, open, toClose, last, server, ids, before>>

(* Mutated form: finish only clears the mark.                              *)
FinishUnstamped(h) ==
  /\ At(h, "rechecking")
  /\ active' = active \ {handler[h].trade}
  /\ Returns(h)
  /\ UNCHANGED <<now, sessionVars, dialled, open, toClose, last, server, ids, history>>

finish(h) ==
  /\ At(h, "rechecking")
  /\ active' = active \ {handler[h].trade}
  /\ last' = [last EXCEPT ![handler[h].trade] = handler[h].stamp]
  /\ Returns(h)
  /\ UNCHANGED <<now, sessionVars, dialled, open, toClose, server, ids, history>>

-----------------------------------------------------------------------------
(* ListenAndServe after its context has ended.                             *)

(* closeAll copies the IDs, unlocks, and deletes one session after another.*)
ShutdownBegins ==
  /\ server = "running" /\ server' = "closing" /\ ids' = live
  /\ before' = created
  /\ UNCHANGED <<now, sessionVars, dialled, open, handler, toClose, gateVars, begun>>

(* Mutated form: the sockets are closed and the session stays in the map.  *)
CloseOnly ==
  /\ server = "closing" /\ toClose["main"] = {}
  /\ \E s \in ids :
       /\ ids' = ids \ {s}
       /\ toClose' = [toClose EXCEPT !["main"] = conns[s]]
  /\ UNCHANGED <<now, sessionVars, dialled, open, handler, gateVars, server, history>>

closeAll ==
  /\ server = "closing" /\ toClose["main"] = {}
  /\ \E s \in ids : ids' = ids \ {s} /\ TakeOut("main", s)
  /\ UNCHANGED <<now, dialled, open, handler, gateVars, server, history>>

ListenerCloses ==
  /\ server = "closing" /\ ids = {} /\ toClose["main"] = {}
  /\ server' = "stopping"
  /\ UNCHANGED <<now, sessionVars, dialled, open, handler, toClose, gateVars, ids, history>>

(* Shutdown waits for the requests under way, and not for sockets.         *)
ShutdownReturns ==
  /\ server = "stopping"
  /\ \A h \in Handlers : handler[h].at \in {"idle", "upgraded", "serving", "leaving"}
  /\ server' = "down"
  /\ UNCHANGED <<now, sessionVars, dialled, open, handler, toClose, gateVars, ids, history>>

Proceeds(h) ==
  \/ delete(h) \/ CloseOne(h) \/ Closed(h)
  \/ Upgrade(h) \/ addConn(h) \/ ServingEnds(h) \/ removeConn(h)
  \/ begin(h) \/ finish(h)

Next ==
  \/ Tick \/ Login \/ ShutdownBegins \/ closeAll \/ CloseOne("main") \/ ListenerCloses
  \/ ShutdownReturns
  \/ \E h \in Handlers :
       \/ BrowserLeaves(h) \/ Proceeds(h)
       \/ \E s \in Sids, request \in Requests : Authenticated(h, request, s)

Spec == Init /\ [][Next]_vars

-----------------------------------------------------------------------------
Steps == {"idle", "closing", "upgraded", "serving", "leaving", "rechecking"}
         \union Requests

(* Every variable has its type.                                            *)
TypeOK ==
  /\ now \in 0 .. MaxNow /\ created \in 0 .. MaxSessions /\ dialled \in 0 .. MaxSockets
  /\ live \subseteq 1 .. created /\ open \subseteq 1 .. dialled
  /\ expires \in [Sids -> 0 .. MaxNow + TTL] /\ conns \in [Sids -> SUBSET Socks]
  /\ totalConns \in Nat
  /\ handler \in [Handlers -> [at: Steps, sid: 0 .. MaxSessions, sock: 0 .. MaxSockets,
                               trade: Trades, stamp: 0 .. MaxNow]]
  /\ toClose \in [Closers -> SUBSET Socks]
  /\ active \subseteq Trades /\ last \in [Trades -> -Spacing .. MaxNow]
  /\ server \in {"running", "closing", "stopping", "down"} /\ ids \subseteq Sids
  /\ begun \in [Trades -> -Spacing .. MaxNow] /\ before \in 0 .. MaxSessions

BeingClosed(c) == \E w \in Closers : c \in toClose[w]

(* The sockets that are served, open and not about to be closed.           *)
Served == {h \in Handlers : At(h, "serving") /\ handler[h].sock \in open
                            /\ ~BeingClosed(handler[h].sock)}

(* However sign-outs, expiries and leaving browsers race for one socket,   *)
(* no more are served than the limits of handleWebSocket and addConn: the  *)
(* count is taken down once for each (server.go:494-591).                  *)
WithinLimits ==
  /\ Cardinality(Served) <= MaxTotalConns
  /\ \A s \in Sids : Cardinality({h \in Served : handler[h].sid = s}) <= PerSession

(* The sockets of the sessions in the map, each with its session.          *)
Registered == {r \in live \X Socks : r[2] \in conns[r[1]]}

(* A slot that is counted is used: totalConns is the number of the sockets *)
(* of the sessions in the map, and each of them has a handler that will    *)
(* remove it; otherwise the limit would fill up with sockets long gone.    *)
SlotsReturned ==
  /\ totalConns = Cardinality(Registered)
  /\ \A s \in live : \A c \in conns[s] :
       \E h \in Handlers : handler[h].at \in {"serving", "leaving"}
                           /\ handler[h].sock = c /\ handler[h].sid = s

(* No socket outlives its session: one that is served is registered in a   *)
(* session that is in the map, also when the sign-out came between         *)
(* requireSession and addConn (server.go:438, 568).                        *)
NoOrphan == \A h \in Served : handler[h].sid \in live
                              /\ handler[h].sock \in conns[handler[h].sid]

(* One recheck of a trade runs at a time, and two of them are Spacing      *)
(* apart by the stamps of their requests, although a request takes its     *)
(* stamp before begin has the mutex and may be overtaken by a later one    *)
(* (trade_api.go:127-128, 179-197).                                        *)
RechecksApart ==
  [][\A h \in Handlers :
       At(h, "recheck") /\ At(h, "rechecking")' =>
         LET t == handler[h].trade IN
           /\ handler[h].stamp >= begun[t] + Spacing
           /\ \A g \in Handlers \ {h} : ~(At(g, "rechecking") /\ handler[g].trade = t)]_vars

(* When the server is down, no socket of a session from before the         *)
(* shutdown is served, also one that was being upgraded or whose session   *)
(* somebody else was taking out meanwhile: only a sign-in behind closeAll's *)
(* list can leave one (server.go:211-243, 552-562).                        *)
ShutdownLeavesNone ==
  server = "down" => \A h \in Handlers :
    At(h, "serving") /\ handler[h].sock \in open => handler[h].sid > before
=============================================================================
