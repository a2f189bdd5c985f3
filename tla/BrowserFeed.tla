---------------------------- MODULE BrowserFeed -----------------------------
(***************************************************************************)
(* From the event broker (internal/runtimeevent) through one browser       *)
(* socket (internal/webconsole/websocket.go) to the page (web/src/App.vue).*)
(* An event carries no data: the handler reads the state when it sends it. *)
(* A subscriber whose queue is full loses its events and gets one marker   *)
(* that makes the page ask for a snapshot.  The page also polls over HTTP. *)
(***************************************************************************)
EXTENDS Integers, Sequences

CONSTANTS
  BufferSize,     \* events queued for one browser
  ControlSize,    \* control messages queued by the socket's reader
  WireSize,       \* messages the connection holds before a write blocks
  NoPage          \* the page shows no account yet

ASSUME FeedLimits == {BufferSize, ControlSize, WireSize} \subseteq Nat \ {0}

VARIABLES
  events,         \* the subscriber's channel
  sock,           \* handleWebSocket: "closed", "subscribed", or "live"
  seq,            \* its sequence
  toBrowser,      \* envelopes on the way
  asked,          \* resync requests on the way, and queued in controls
  controls,
  lastSeq,        \* the page: socketSequence
  view,           \* the page: account
  response        \* an HTTP response on its way to the page

feedVars == <<events, sock, seq, toBrowser, asked, controls, lastSeq, view, response>>

socketVars == <<events, sock, seq, toBrowser, asked, controls, lastSeq>>

FeedInit ==
  /\ events = <<>> /\ sock = "closed" /\ seq = 0 /\ toBrowser = <<>>
  /\ asked = 0 /\ controls = 0 /\ lastSeq = 0
  /\ view = NoPage /\ response = NoPage

(* Mutated form: what does not fit is dropped.                             *)
PublishOrDrop(type) ==
  events' = IF sock = "closed" \/ Len(events) = BufferSize THEN events
            ELSE Append(events, type)

(* Broker.Publish, to the subscriber if there is one.                      *)
Publish(type) ==
  events' = IF sock = "closed" THEN events
            ELSE IF Len(events) < BufferSize THEN Append(events, type)
            ELSE <<"resync.required">>

(* The connection ends; the deferred functions unsubscribe.                *)
Closed ==
  /\ sock' = "closed" /\ events' = <<>> /\ seq' = 0 /\ toBrowser' = <<>>
  /\ asked' = 0 /\ controls' = 0 /\ lastSeq' = 0

SocketCloses == sock # "closed" /\ Closed /\ UNCHANGED <<view, response>>

-----------------------------------------------------------------------------
(* handleWebSocket.                                                        *)

(* SubscribeFrom comes before the first snapshot is read.                  *)
SocketConnects ==
  /\ sock = "closed" /\ sock' = "subscribed"
  /\ UNCHANGED <<events, seq, toBrowser, asked, controls, lastSeq, view, response>>

Room == Len(toBrowser) < WireSize

Envelope(type, account) == [type |-> type, seq |-> seq + 1, account |-> account]

(* writeBrowserEnvelope with the next number.                              *)
Writes(type, account) ==
  /\ Room
  /\ seq' = seq + 1
  /\ toBrowser' = Append(toBrowser, Envelope(type, account))

FirstSnapshot(account) ==
  /\ sock = "subscribed" /\ sock' = "live"
  /\ Writes("snapshot", account)
  /\ UNCHANGED <<events, asked, controls, lastSeq, view, response>>

(* browserEventPayload; an account event without an account is a resync.   *)
SendEvent(account) ==
  /\ sock = "live" /\ events # <<>>
  /\ LET type == Head(events)
         lost == account = NoPage /\ type \in {"account.updated", "valuation.updated"}
     IN Writes(IF lost THEN "resync.required" ELSE type, account)
  /\ events' = Tail(events)
  /\ UNCHANGED <<sock, asked, controls, lastSeq, view, response>>

AnswerResync(account) ==
  /\ sock = "live" /\ controls > 0 /\ controls' = controls - 1
  /\ Writes("snapshot", account)
  /\ UNCHANGED <<sock, events, asked, lastSeq, view, response>>

(* readBrowserSocket: a request that finds controls full ends the          *)
(* connection.                                                             *)
ReadControl ==
  /\ asked > 0
  /\ IF controls < ControlSize
     THEN /\ asked' = asked - 1 /\ controls' = controls + 1
          /\ UNCHANGED <<events, sock, seq, toBrowser, lastSeq>>
     ELSE Closed
  /\ UNCHANGED <<view, response>>

-----------------------------------------------------------------------------
(* The page.                                                               *)

AcceptAccount(account) ==
  IF account = NoPage THEN view
  ELSE IF view = NoPage \/ account.rev >= view.rev THEN account ELSE view

(* A gap in the numbers, or a marker, makes the page ask for a snapshot.   *)
Gap(m) == m.type # "snapshot" /\ m.seq # lastSeq + 1

ShowsAccount(m) == m.type \in {"snapshot", "account.updated", "valuation.updated"}

PageReads ==
  /\ toBrowser # <<>> /\ toBrowser' = Tail(toBrowser)
  /\ LET m == Head(toBrowser) IN
       /\ lastSeq' = IF Gap(m) THEN 0 ELSE m.seq
       /\ view' = IF ~Gap(m) /\ ShowsAccount(m) THEN AcceptAccount(m.account) ELSE view
       /\ asked' = IF Gap(m) \/ m.type = "resync.required" THEN asked + 1 ELSE asked
  /\ UNCHANGED <<events, sock, seq, controls, response>>

(* refreshAll: the account is asked for, and the response comes later.     *)
PagePolls(account) ==
  /\ response = NoPage /\ account # NoPage
  /\ response' = account
  /\ UNCHANGED <<socketVars, view>>

PollReturns ==
  /\ response # NoPage
  /\ view' = AcceptAccount(response) /\ response' = NoPage
  /\ UNCHANGED socketVars
=============================================================================
