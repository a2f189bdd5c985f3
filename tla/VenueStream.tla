---------------------------- MODULE VenueStream -----------------------------
(***************************************************************************)
(* The private Deribit websocket client (internal/deribit/ws.go) as the    *)
(* web console runs it: connect, ask for the cancel-on-disconnect setting, *)
(* subscribe, become ready when both are answered, buffer what comes       *)
(* before, queue what comes after, and give the connection up when either  *)
(* buffer is full.  The processor hands the queue to the sink, and an old  *)
(* processor still empties its queue after its connection is gone.         *)
(* Notifications are alike: the account has changed.                       *)
(***************************************************************************)
EXTENDS Integers, Sequences

CONSTANT QueueSize    \* WSConfig.QueueSize

ASSUME StreamLimits == QueueSize \in Nat \ {0}

VARIABLES
  conn,          \* "down" or "up"
  srv,           \* external: requests the server has carried out: 0, 1 COD, 2 both
  answered,      \* external: answers the server has sent
  wire,          \* external: messages on the way to the client
  codQueryDone, subscribed, ready,
  buffered,      \* pendingNotifications
  queued,        \* events
  leftover       \* events of connections that are gone

streamVars == <<conn, srv, answered, wire, codQueryDone, subscribed, ready, buffered,
                queued, leftover>>

StreamInit ==
  /\ conn = "down" /\ srv = 0 /\ answered = 0 /\ wire = <<>>
  /\ codQueryDone = FALSE /\ subscribed = FALSE /\ ready = FALSE
  /\ buffered = 0 /\ queued = 0 /\ leftover = 0

(* Run: the connection is closed; its processor goes on with what is left. *)
Lost ==
  /\ conn' = "down" /\ srv' = 0 /\ answered' = 0 /\ wire' = <<>>
  /\ codQueryDone' = FALSE /\ subscribed' = FALSE /\ ready' = FALSE
  /\ buffered' = 0 /\ queued' = 0 /\ leftover' = leftover + queued

StreamDials ==
  /\ conn = "down" /\ conn' = "up"
  /\ UNCHANGED <<srv, answered, wire, codQueryDone, subscribed, ready, buffered,
                 queued, leftover>>

StreamBreaks == conn = "up" /\ Lost

(* External: the server carries out the two requests in their order, and   *)
(* may notify of a change before it has answered.                          *)
ServerServes ==
  /\ conn = "up" /\ srv < 2 /\ srv' = srv + 1
  /\ UNCHANGED <<conn, answered, wire, codQueryDone, subscribed, ready, buffered,
                 queued, leftover>>

ServerAnswers ==
  /\ answered < srv /\ answered' = answered + 1
  /\ wire' = Append(wire, IF answered = 0 THEN "cod" ELSE "subscribe")
  /\ UNCHANGED <<conn, srv, codQueryDone, subscribed, ready, buffered, queued,
                 leftover>>

(* What a change of the account puts on the wire.                          *)
ServerNotifies == wire' = IF srv = 2 THEN Append(wire, "changed") ELSE wire

-----------------------------------------------------------------------------
(* The read loop.                                                          *)

Incoming == IF conn = "up" /\ wire # <<>> THEN Head(wire) ELSE "none"

(* The last answer makes the connection ready: OnReady is called, and what *)
(* was buffered is queued.                                                 *)
LastAnswer ==
  \/ Incoming = "cod" /\ subscribed
  \/ Incoming = "subscribe" /\ codQueryDone

ReadsAnswer ==
  /\ Incoming \in {"cod", "subscribe"}
  /\ codQueryDone' = (codQueryDone \/ Incoming = "cod")
  /\ subscribed' = (subscribed \/ Incoming = "subscribe")
  /\ ready' = (ready \/ LastAnswer)
  /\ queued' = IF LastAnswer THEN buffered ELSE queued
  /\ buffered' = IF LastAnswer THEN 0 ELSE buffered
  /\ wire' = Tail(wire)
  /\ UNCHANGED <<conn, srv, answered, leftover>>

ReadsNotification ==
  /\ Incoming = "changed"
  /\ \/ /\ ~ready /\ buffered < QueueSize /\ buffered' = buffered + 1
        /\ wire' = Tail(wire)
        /\ UNCHANGED <<conn, srv, answered, codQueryDone, subscribed, ready, queued,
                       leftover>>
     \/ /\ ready /\ queued < QueueSize /\ queued' = queued + 1
        /\ wire' = Tail(wire)
        /\ UNCHANGED <<conn, srv, answered, codQueryDone, subscribed, ready, buffered,
                       leftover>>
     \/ /\ (IF ready THEN queued ELSE buffered) = QueueSize
        /\ Lost

(* The processors hand one event to the sink.                              *)
SinkTakes ==
  /\ \/ queued > 0 /\ queued' = queued - 1 /\ UNCHANGED leftover
     \/ leftover > 0 /\ leftover' = leftover - 1 /\ UNCHANGED queued
  /\ UNCHANGED <<conn, srv, answered, wire, codQueryDone, subscribed, ready, buffered>>

(* The process of the client ends.                                         *)
StreamRestart ==
  /\ conn' = "down" /\ srv' = 0 /\ answered' = 0 /\ wire' = <<>>
  /\ codQueryDone' = FALSE /\ subscribed' = FALSE /\ ready' = FALSE
  /\ buffered' = 0 /\ queued' = 0 /\ leftover' = 0

StreamTypeOK ==
  /\ conn \in {"down", "up"} /\ {srv, answered} \subseteq 0 .. 2
  /\ wire \in Seq({"cod", "subscribe", "changed"})
  /\ {codQueryDone, subscribed, ready} \subseteq BOOLEAN
  /\ {buffered, queued} \subseteq 0 .. QueueSize /\ leftover \in Nat
=============================================================================
