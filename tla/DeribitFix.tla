----------------------------- MODULE DeribitFix -----------------------------
(***************************************************************************)
(* The Deribit FIX session (internal/deribitfix/session.go): sequence      *)
(* numbers in both directions, the buffer of early messages, the journal   *)
(* that answers the server's ResendRequest, SequenceReset, and the pause   *)
(* of application writes until OnRecovery has reconciled.  Run's loop, its *)
(* callbacks (made with the mutex released) and callers of Send interleave.*)
(* The server and the connection are external.  A message is known by its  *)
(* MsgType, its MsgSeqNum, PossDupFlag and what a property tells apart.    *)
(***************************************************************************)
EXTENDS Integers, Sequences, FiniteSets, FiniteSetsExt, SequencesExt

CONSTANTS
  MaxRecoveryBuffer,    \* early messages kept during a recovery
  MaxOutboundJournal,   \* sent messages kept for a resend
  MaxIn, MaxOut,        \* bounds: numbers used by the server and the client
  MaxFaults,            \* bound: lost messages, resets and broken connections
  NoMessage, NoBody

(* Application messages of the client and of the server; the rest is       *)
(* session traffic: A logon, 0 heartbeat, 1 test request, 2 resend request,*)
(* 3 reject, 4 sequence reset, 5 logout.                                   *)
Requests == {"x", "D", "G", "F"}

Answers == {"y", "8", "9"}

Admin == {"A", "0", "1", "2", "3", "4", "5"}

Forms == {"full", "noqty", "noid", "bad"}

Reports == [status: {"0", "2", "4", "8"}, form: Forms]

Messages ==
  [type: Admin \union Requests \union Answers, seq: Nat, dup: BOOLEAN, n: Nat,
   body: Reports \union {NoBody}]

(* cur tells whether OnMessage has a message: NoMessage is none.           *)
ASSUME SessionLimits ==
  /\ MaxRecoveryBuffer \in Nat \ {0} /\ MaxOutboundJournal \in Nat \ {0}
  /\ {MaxIn, MaxOut, MaxFaults} \subseteq Nat
  /\ NoMessage \notin Messages

VARIABLES
  run,          \* Run: "dial", "up", or "ended"
  loggedOn, recovering, expectedIn, nextOut, pending, journal,
  phase, cur,   \* what Run's handle is doing, and the message of OnMessage
  link, toServer, toClient,           \* external: the connection
  srvIn, srvLog, srvGap, faults,      \* external: the server
  delivered,    \* history: numbers OnMessage was called with
  skipped,      \* history: numbers passed over and not yet reconciled
  covered       \* history: numbers passed over and reconciled since

session == <<run, loggedOn, recovering, expectedIn, nextOut, pending, journal,
             phase, cur>>
server == <<srvIn, srvLog, srvGap, faults>>
history == <<delivered, skipped, covered>>
fixVars == <<session, link, toServer, toClient, server, history>>

Plain(type, seq) ==
  [type |-> type, seq |-> seq, dup |-> FALSE, n |-> 0, body |-> NoBody]

FixInit ==
  /\ run = "dial" /\ loggedOn = FALSE /\ recovering = FALSE
  /\ expectedIn = 1 /\ nextOut = 1
  /\ pending = {} /\ journal = <<>>
  /\ phase = "idle" /\ cur = NoMessage
  /\ link = "up" /\ toServer = <<>> /\ toClient = <<>>
  /\ srvIn = 1 /\ srvLog = <<>> /\ srvGap = 0 /\ faults = 0
  /\ delivered = <<>> /\ skipped = {} /\ covered = {}

-----------------------------------------------------------------------------
(* Writing.                                                                *)

(* writeRawLocked on a broken connection fails, or fills a buffer nobody   *)
(* reads.                                                                  *)
WriteOutcomes == IF link = "up" THEN {TRUE} ELSE BOOLEAN

Written(messages) == IF link = "up" THEN toServer \o messages ELSE toServer

(* Mutated form: the journal never forgets.                                *)
RememberAll(seq, m) ==
  [k \in DOMAIN journal \union {seq} |-> IF k = seq THEN m ELSE journal[k]]

(* rememberOutboundLocked: a full journal forgets its oldest message.      *)
Remembered(seq, m) ==
  LET kept == IF Cardinality(DOMAIN journal) >= MaxOutboundJournal
                THEN DOMAIN journal \ {Min(DOMAIN journal)} ELSE DOMAIN journal
  IN [k \in kept \union {seq} |-> IF k = seq THEN m ELSE journal[k]]

(* sendLocked after a successful write: the number is used up only then.   *)
SendLocked(type, n) ==
  LET m == [Plain(type, nextOut) EXCEPT !.n = n]
  IN /\ toServer' = Written(<<m>>)
     /\ journal' = Remembered(nextOut, m)
     /\ nextOut' = nextOut + 1

NothingWritten == UNCHANGED <<toServer, journal, nextOut>>

(* resendLocked: the messages up to the first one the journal lost, under  *)
(* their own numbers and marked as possible duplicates.                    *)
ResendEnd(begin, end) ==
  LET lost == (begin .. end) \ DOMAIN journal
  IN IF lost = {} THEN end ELSE Min(lost) - 1

ResentMessages(begin, end) ==
  [i \in 1 .. ResendEnd(begin, end) - begin + 1 |->
     [journal[begin + i - 1] EXCEPT !.dup = TRUE]]

(* Run returns; its deferred function forgets the transport.               *)
End == run' = "ended" /\ loggedOn' = FALSE /\ phase' = "idle" /\ cur' = NoMessage

-----------------------------------------------------------------------------
(* Run: dial, log on, and the loop's other cases.                          *)

Dial ==
  /\ run = "dial"
  /\ \/ /\ run' = "up"
        /\ toServer' = Append(toServer, Plain("A", nextOut))
        /\ nextOut' = nextOut + 1
     \/ run' = "ended" /\ UNCHANGED <<toServer, nextOut>>
  /\ UNCHANGED <<loggedOn, recovering, expectedIn, pending, journal, phase, cur,
                 link, toClient, server, history>>

(* Bound: heartbeats leave the client's last number to a request.          *)
HeartbeatTick ==
  /\ run = "up" /\ phase = "idle" /\ loggedOn /\ ~recovering
  /\ nextOut < MaxOut
  /\ \E ok \in WriteOutcomes :
       IF ok THEN SendLocked("0", 0) /\ UNCHANGED <<run, loggedOn, phase, cur>>
       ELSE NothingWritten /\ End
  /\ UNCHANGED <<recovering, expectedIn, pending, link, toClient, server, history>>

ReadFails ==
  /\ run = "up" /\ phase = "idle" /\ link = "broken"
  /\ End
  /\ UNCHANGED <<recovering, expectedIn, nextOut, pending, journal, link,
                 toServer, toClient, server, history>>

(* The context ends: bestEffortLogout, and Run returns.                    *)
Cancelled ==
  /\ run = "up" /\ phase = "idle"
  /\ IF loggedOn THEN \E ok \in WriteOutcomes :
                        IF ok THEN SendLocked("5", 0) ELSE NothingWritten
     ELSE NothingWritten
  /\ End
  /\ UNCHANGED <<recovering, expectedIn, pending, link, toClient, server, history>>

-----------------------------------------------------------------------------
(* handle and the steps it is made of.                                     *)

Idle == run = "up" /\ phase = "idle" /\ toClient # <<>>

Incoming == Head(toClient)

(* Mutated form: the early message is kept and its predecessors are not    *)
(* asked for.                                                              *)
GapWithoutRequest ==
  /\ Idle /\ Incoming.type # "4" /\ Incoming.seq > expectedIn
  /\ Cardinality(pending) < MaxRecoveryBuffer
  /\ pending' = pending \union {Incoming} /\ recovering' = TRUE
  /\ NothingWritten /\ UNCHANGED <<run, loggedOn, phase, cur>>
  /\ toClient' = Tail(toClient)
  /\ UNCHANGED <<expectedIn, link, server, history>>

(* A later message: buffered, and asked for once per recovery.             *)
HandleGap ==
  /\ Idle /\ Incoming.type # "4" /\ Incoming.seq > expectedIn
  /\ LET known == \E p \in pending : p.seq = Incoming.seq
         full == Cardinality(pending) >= MaxRecoveryBuffer
     IN IF ~known /\ full
        THEN End /\ NothingWritten /\ UNCHANGED <<pending, recovering>>
        ELSE /\ pending' = IF known THEN pending ELSE pending \union {Incoming}
             /\ recovering' = TRUE
             /\ IF recovering
                THEN NothingWritten /\ UNCHANGED <<run, loggedOn, phase, cur>>
                ELSE \E ok \in WriteOutcomes :
                       IF ok THEN /\ SendLocked("2", expectedIn)
                                  /\ UNCHANGED <<run, loggedOn, phase, cur>>
                       ELSE NothingWritten /\ End
  /\ toClient' = Tail(toClient)
  /\ UNCHANGED <<expectedIn, link, server, history>>

(* Mutated form: an earlier message goes to OnMessage again.               *)
OldDelivered ==
  /\ Idle /\ Incoming.type # "4" /\ Incoming.seq < expectedIn
  /\ IF Incoming.type \in Answers
     THEN /\ phase' = "message" /\ cur' = Incoming
          /\ delivered' = Append(delivered, Incoming.seq)
          /\ UNCHANGED <<run, loggedOn>>
     ELSE UNCHANGED <<run, loggedOn, phase, cur, delivered>>
  /\ toClient' = Tail(toClient)
  /\ UNCHANGED <<recovering, expectedIn, nextOut, pending, journal, link,
                 toServer, server, skipped, covered>>

(* An earlier one: dropped when marked as a duplicate, fatal otherwise.    *)
HandleOld ==
  /\ Idle /\ Incoming.type # "4" /\ Incoming.seq < expectedIn
  /\ IF Incoming.dup THEN UNCHANGED <<run, loggedOn, phase, cur>> ELSE End
  /\ toClient' = Tail(toClient)
  /\ UNCHANGED <<recovering, expectedIn, nextOut, pending, journal, link,
                 toServer, server, history>>

(* The case of a ResendRequest: the range is cut at the last number used.  *)
AnswerResend(begin) ==
  LET end == nextOut - 1
  IN IF begin = 0 \/ end < begin
     THEN /\ End /\ UNCHANGED <<toServer, recovering>>
     ELSE /\ toServer' = Written(ResentMessages(begin, end))
          /\ IF ResendEnd(begin, end) = end
             THEN /\ \/ phase' = "drain" /\ UNCHANGED <<run, loggedOn, cur>>
                     \/ link = "broken" /\ End
                  /\ UNCHANGED recovering
             ELSE recovering' = TRUE /\ End

(* processExpectedLocked.  OnMessage runs with the mutex released: the     *)
(* call begins here and ends in OnMessageReturns.                          *)
ProcessExpectedLocked(m) ==
  /\ expectedIn' = expectedIn + 1
  /\ CASE m.type = "A" ->
            /\ IF m.seq = 1
               THEN loggedOn' = TRUE /\ phase' = "drain" /\ UNCHANGED <<run, cur>>
               ELSE End
            /\ NothingWritten /\ UNCHANGED <<recovering, delivered>>
       [] m.type = "0" ->
            /\ phase' = "drain" /\ UNCHANGED <<run, loggedOn, cur>>
            /\ NothingWritten /\ UNCHANGED <<recovering, delivered>>
       [] m.type = "1" ->
            /\ \E ok \in WriteOutcomes :
                 IF ok THEN /\ SendLocked("0", 0) /\ phase' = "drain"
                            /\ UNCHANGED <<run, loggedOn, cur>>
                 ELSE NothingWritten /\ End
            /\ UNCHANGED <<recovering, delivered>>
       [] m.type = "2" ->
            AnswerResend(m.n) /\ UNCHANGED <<journal, nextOut, delivered>>
       [] m.type \in {"3", "5"} ->
            End /\ NothingWritten /\ UNCHANGED <<recovering, delivered>>
       [] m.type \in Answers ->
            /\ IF loggedOn
               THEN /\ phase' = "message" /\ cur' = m
                    /\ delivered' = Append(delivered, m.seq)
                    /\ UNCHANGED <<run, loggedOn>>
               ELSE End /\ UNCHANGED delivered
            /\ NothingWritten /\ UNCHANGED recovering

HandleExpected ==
  /\ Idle /\ Incoming.type # "4" /\ Incoming.seq = expectedIn
  /\ ProcessExpectedLocked(Incoming)
  /\ toClient' = Tail(toClient)
  /\ UNCHANGED <<pending, link, server, skipped, covered>>

(* Mutated form: numbers are passed over without a recovery.               *)
ResetWithoutRecovery ==
  /\ Idle /\ Incoming.type = "4"
  /\ expectedIn' = Incoming.n
  /\ pending' = {p \in pending : p.seq >= Incoming.n}
  /\ skipped' = skipped \union (expectedIn .. Incoming.n - 1)
  /\ phase' = "drain"
  /\ toClient' = Tail(toClient)
  /\ UNCHANGED <<run, loggedOn, cur, recovering, nextOut, journal, link, toServer,
                 server, delivered, covered>>

(* handleSequenceResetLocked: forward only, MsgSeqNum ignored.             *)
HandleSequenceReset ==
  /\ Idle /\ Incoming.type = "4"
  /\ IF loggedOn /\ Incoming.n > expectedIn
     THEN /\ expectedIn' = Incoming.n
          /\ recovering' = TRUE
          /\ pending' = {p \in pending : p.seq >= Incoming.n}
          /\ skipped' = skipped \union (expectedIn .. Incoming.n - 1)
          /\ phase' = "drain" /\ UNCHANGED <<run, loggedOn, cur>>
     ELSE End /\ UNCHANGED <<expectedIn, recovering, pending, skipped>>
  /\ toClient' = Tail(toClient)
  /\ UNCHANGED <<nextOut, journal, link, toServer, server, delivered, covered>>

(* The loop over early messages that are now due.                          *)
DrainPending ==
  /\ run = "up" /\ phase = "drain"
  /\ \E p \in pending :
       /\ p.seq = expectedIn
       /\ pending' = pending \ {p}
       /\ ProcessExpectedLocked(p)
  /\ UNCHANGED <<link, toClient, server, skipped, covered>>

(* finishRecoveryLocked: with nothing buffered, OnRecovery is called, with *)
(* the mutex released.                                                     *)
FinishHandle ==
  /\ run = "up" /\ phase = "drain"
  /\ ~ \E p \in pending : p.seq = expectedIn
  /\ phase' = IF recovering /\ pending = {} THEN "recovery" ELSE "idle"
  /\ UNCHANGED <<run, loggedOn, recovering, expectedIn, nextOut, pending, journal,
                 cur, link, toServer, toClient, server, history>>

OnRecoveryReturns ==
  /\ run = "up" /\ phase = "recovery"
  /\ \/ /\ recovering' = FALSE /\ phase' = "idle"
        /\ covered' = covered \union skipped /\ skipped' = {}
        /\ UNCHANGED <<run, loggedOn, cur>>
     \/ End /\ UNCHANGED <<recovering, covered, skipped>>
  /\ UNCHANGED <<expectedIn, nextOut, pending, journal, link, toServer, toClient,
                 server, delivered>>

(* OnMessage returns; an error ends the session.                           *)
OnMessageReturns(ok) ==
  /\ run = "up" /\ phase = "message"
  /\ IF ok THEN phase' = "drain" /\ cur' = NoMessage /\ UNCHANGED <<run, loggedOn>>
     ELSE End
  /\ UNCHANGED <<recovering, expectedIn, nextOut, pending, journal, link, toServer,
                 toClient, server, history>>

(* Send, which takes the mutex: outside handle or during a callback.       *)
MutexFree == phase # "drain"

(* Mutated form: Send does not look at recovering.                         *)
SendsAnyway == run = "up" /\ loggedOn

CanSend == run = "up" /\ loggedOn /\ ~recovering

SendRefused == MutexFree /\ ~CanSend /\ UNCHANGED fixVars

SendFails == MutexFree /\ CanSend /\ link = "broken" /\ UNCHANGED fixVars

SendSucceeds(type) ==
  /\ MutexFree /\ CanSend /\ nextOut <= MaxOut
  /\ SendLocked(type, 0)
  /\ UNCHANGED <<run, loggedOn, recovering, expectedIn, pending, phase, cur, link,
                 toClient, server, history>>
-----------------------------------------------------------------------------
(* External: the server.  What it sends is numbered and kept; a number may *)
(* be used by a message that never arrives.                                *)

Arriving(m) == IF link = "up" THEN Append(toClient, m) ELSE toClient

Emit(type, n, body) ==
  LET m == [Plain(type, Len(srvLog) + 1) EXCEPT !.n = n, !.body = body]
  IN /\ srvLog' = Append(srvLog, m)
     /\ \/ toClient' = Arriving(m) /\ UNCHANGED faults
        \/ /\ faults < MaxFaults /\ type \in Answers
           /\ faults' = faults + 1 /\ UNCHANGED toClient

(* The answer to a ResendRequest: a replay, and from any point on a        *)
(* SequenceReset over what is not replayed.                                *)
Replay(begin) ==
  \E k \in begin .. Len(srvLog) + 1 :
    LET again == [i \in 1 .. k - begin |->
                    [srvLog[begin + i - 1] EXCEPT !.dup = TRUE]]
        rest == IF k > Len(srvLog) THEN <<>>
                ELSE <<[Plain("4", k) EXCEPT !.n = Len(srvLog) + 1]>>
    IN toClient' = IF link = "up" THEN toClient \o again \o rest ELSE toClient

(* The server takes a message in sequence; Handled is what it does next.   *)
InSequence(m) ==
  /\ m.seq = srvIn
  /\ srvIn' = srvIn + 1
  /\ srvGap' = IF srvIn >= srvGap THEN 0 ELSE srvGap

ServerReads == toServer # <<>> /\ toServer' = Tail(toServer)

ServerTakesAdmin ==
  /\ ServerReads
  /\ LET m == Head(toServer) IN
       /\ InSequence(m)
       /\ \/ m.type = "A" /\ Emit("A", 0, NoBody)
          \/ m.type \in {"0", "5"} /\ UNCHANGED <<srvLog, toClient, faults>>
          \/ m.type = "2" /\ Replay(m.n) /\ UNCHANGED <<srvLog, faults>>
  /\ UNCHANGED <<session, link, history>>

(* A number too high: asked for again, once per gap, and forgotten; a      *)
(* number too low: a duplicate, ignored.                                   *)
ServerTakesOther ==
  /\ ServerReads
  /\ LET m == Head(toServer) IN
       \/ /\ m.seq > srvIn
          /\ srvGap' = IF m.seq > srvGap THEN m.seq ELSE srvGap
          /\ IF srvGap = 0 /\ Len(srvLog) < MaxIn THEN Emit("2", srvIn, NoBody)
             ELSE UNCHANGED <<srvLog, toClient, faults>>
          /\ UNCHANGED srvIn
       \/ m.seq < srvIn /\ UNCHANGED <<srvIn, srvGap, srvLog, toClient, faults>>
  /\ UNCHANGED <<session, link, history>>

ServerLoses ==
  /\ faults < MaxFaults /\ toServer # <<>> /\ Head(toServer).type \in Requests
  /\ faults' = faults + 1
  /\ toServer' = Tail(toServer)
  /\ UNCHANGED <<session, link, toClient, srvIn, srvLog, srvGap, history>>

(* Test requests, heartbeats, rejects and logouts on the server's own.     *)
Serving == run = "up" /\ srvIn > 1 /\ Len(srvLog) < MaxIn

ServerSpeaks ==
  /\ Serving /\ Last(srvLog).type \notin {"3", "5"}
  /\ \E type \in {"1", "3", "5"} : Emit(type, 0, NoBody)
  /\ UNCHANGED <<session, link, toServer, srvIn, srvGap, history>>

(* A SequenceReset nobody asked for, over a report that was never sent.    *)
ServerResets ==
  /\ Serving /\ faults < MaxFaults
  /\ srvLog' = Append(srvLog, [Plain("8", Len(srvLog) + 1) EXCEPT
                                 !.body = [status |-> "2", form |-> "full"]])
  /\ toClient' = Arriving([Plain("4", Len(srvLog) + 1) EXCEPT !.n = Len(srvLog) + 2])
  /\ faults' = faults + 1
  /\ UNCHANGED <<session, link, toServer, srvIn, srvGap, history>>

(* The connection breaks; what is already buffered may still be read.      *)
Breaks ==
  /\ faults < MaxFaults /\ link = "up" /\ run = "up"
  /\ link' = "broken" /\ faults' = faults + 1
  /\ UNCHANGED <<session, toServer, toClient, srvIn, srvLog, srvGap, history>>
-----------------------------------------------------------------------------
(* Numbers of application messages below the next expected one that were   *)
(* neither handed to OnMessage nor covered by a reconciliation.            *)
Missing ==
  {k \in 1 .. Len(srvLog) : /\ k < expectedIn /\ srvLog[k].type \in Answers
                            /\ k \notin Range(delivered) \union covered}
=============================================================================
