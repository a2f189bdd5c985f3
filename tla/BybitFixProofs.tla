--------------------------- MODULE BybitFixProofs ----------------------------
(***************************************************************************)
(* The Bybit FIX session numbers every connection from its logon, the      *)
(* router's file calls no order final that the venue does not, and a       *)
(* session with nothing left to read has missed no fill and no change, for *)
(* any number of orders, lots, connections and faults.                     *)
(***************************************************************************)
EXTENDS BybitFix, SequenceTheorems, TLAPS

(* What the session writes.                                                *)
Wire == [type: {"A", "0", "1", "D", "F", "XAR"}, order: Orders \union {NoOrder},
         seq: Nat \ {0}]

(* On an open connection the client's next number follows what the server  *)
(* has taken and what is on the way; nothing is on the way on another.     *)
Following ==
  /\ link = "up" => outSeq = srvIn + Len(toServer)
  /\ link # "up" => toServer = <<>>

(* A transport is published once the logon has used number 1, and a new    *)
(* connection begins with nothing sent.                                    *)
Published ==
  /\ active <=> run = "up"
  /\ run = "up" => outSeq > 1
  /\ run = "logon" => outSeq = 1
  /\ run # "up" => srvIn = 1 /\ toServer = <<>>
  /\ run \notin {"logon", "up"} => link = "down"

LinkTypes ==
  /\ run \in {"dial", "logon", "up", "backoff", "stopped"}
  /\ link \in {"up", "broken", "down"} /\ active \in BOOLEAN
  /\ outSeq \in Nat \ {0} /\ srvIn \in Nat \ {0}
  /\ toServer \in Seq(Wire)

LinkInv == LinkTypes /\ Following /\ Published /\ NumberedFromLogon

linkVars == <<run, active, outSeq, link, toServer, srvIn>>

-----------------------------------------------------------------------------
(* The numbers of the session.                                             *)

(* What a successful write puts on the way follows what was there: the     *)
(* logon alone has number 1.                                               *)
LEMMA SendFollows ==
  ASSUME LinkTypes, Following, NumberedFromLogon,
         NEW type \in {"A", "0", "1", "D", "F", "XAR"},
         NEW o \in Orders \union {NoOrder},
         Send(type, o), UNCHANGED <<link, srvIn>>,
         (type = "A") <=> (outSeq = 1)
  PROVE  /\ toServer' \in Seq(Wire) /\ outSeq' \in Nat \ {0} /\ outSeq' = outSeq + 1
         /\ Following' /\ NumberedFromLogon'
<1> DEFINE m == [type |-> type, order |-> o, seq |-> outSeq]
<1>1. m \in Wire
  BY DEF LinkTypes, Wire
<1>2. outSeq' = outSeq + 1 /\ outSeq' \in Nat \ {0}
  BY DEF Send, LinkTypes
<1>3. CASE link = "up"
  <2>1. toServer' = Append(toServer, m) /\ toServer \in Seq(Wire)
    BY <1>3 DEF Send, LinkTypes
  <2> HIDE DEF m
  <2>2. /\ toServer' \in Seq(Wire) /\ Len(toServer') = Len(toServer) + 1
        /\ DOMAIN toServer' = 1 .. Len(toServer) + 1
        /\ \A i \in 1 .. Len(toServer) : toServer'[i] = toServer[i]
        /\ toServer'[Len(toServer) + 1] = m
    BY <1>1, <2>1, AppendProperties
  <2>3. Following'
    BY <1>2, <1>3, <2>2 DEF Following, LinkTypes
  <2>4. ASSUME NEW i \in DOMAIN toServer'
        PROVE  /\ toServer'[i].seq = srvIn' + i - 1
               /\ (toServer'[i].seq = 1) <=> (toServer'[i].type = "A")
    <3>1. CASE i \in 1 .. Len(toServer)
      BY <2>1, <2>2, <3>1 DEF NumberedFromLogon
    <3>2. CASE i = Len(toServer) + 1
      <4>1. m.seq = outSeq /\ m.type = type
        BY DEF m
      <4> QED
        BY <1>3, <2>1, <2>2, <3>2, <4>1 DEF Following, LinkTypes
    <3> QED
      BY <2>1, <2>2, <3>1, <3>2
  <2> QED
    BY <1>2, <2>2, <2>3, <2>4 DEF NumberedFromLogon
<1>4. CASE link # "up"
  BY <1>2, <1>4 DEF Send, Following, NumberedFromLogon, LinkTypes
<1> QED
  BY <1>3, <1>4

(* The session that runs sends with a number above the logon's.            *)
LEMMA SessionSends ==
  ASSUME LinkInv, run = "up", NEW type \in {"0", "1", "D", "F", "XAR"},
         NEW o \in Orders \union {NoOrder},
         Send(type, o), UNCHANGED <<run, active, link, srvIn>>
  PROVE  LinkInv'
<1>1. (type = "A") <=> (outSeq = 1)
  BY DEF LinkInv, Published, LinkTypes
<1>2. /\ toServer' \in Seq(Wire) /\ outSeq' \in Nat \ {0} /\ outSeq' = outSeq + 1
      /\ Following' /\ NumberedFromLogon'
  BY <1>1, SendFollows DEF LinkInv
<1> QED
  BY <1>2 DEF LinkInv, LinkTypes, Published

(* What leaves these variables alone keeps the numbers.                    *)
LEMMA LinkFrame ==
  ASSUME LinkInv, UNCHANGED linkVars
  PROVE  LinkInv'
BY DEF LinkInv, LinkTypes, Following, Published, NumberedFromLogon, linkVars

(* The end of a connection leaves nothing on the way, and the server that  *)
(* is dialled next expects number 1.                                       *)
LEMMA EndsLink ==
  ASSUME LinkInv, NEW next \in {"backoff", "stopped"}, Ends(next), outSeq' = outSeq
  PROVE  LinkInv'
<1>1. <<>> \in Seq(Wire)
  OBVIOUS
<1>2. /\ run' = next /\ active' = FALSE /\ link' = "down" /\ toServer' = <<>>
      /\ srvIn' = 1
  BY DEF Ends
<1>3. NumberedFromLogon'
  BY <1>2 DEF NumberedFromLogon
<1>4. LinkTypes'
  <2>1. run' \in {"dial", "logon", "up", "backoff", "stopped"}
    BY <1>2
  <2>2. link' \in {"up", "broken", "down"} /\ active' \in BOOLEAN
    BY <1>2
  <2>3. outSeq' \in Nat \ {0} /\ srvIn' \in Nat \ {0}
    BY <1>2 DEF LinkInv, LinkTypes
  <2>4. toServer' \in Seq(Wire)
    BY <1>1, <1>2
  <2> QED
    BY <2>1, <2>2, <2>3, <2>4 DEF LinkTypes
<1> QED
  BY <1>2, <1>3, <1>4 DEF LinkInv, Following, Published

(* The server takes the first message on the way.                          *)
LEMMA TakeLink ==
  ASSUME LinkInv, toServer # <<>>, toServer' = Tail(toServer), srvIn' = srvIn + 1,
         UNCHANGED <<run, active, outSeq, link>>
  PROVE  LinkInv'
<1>1. /\ toServer' \in Seq(Wire) /\ Len(toServer') = Len(toServer) - 1
      /\ DOMAIN toServer' = 1 .. Len(toServer) - 1
      /\ \A i \in 1 .. Len(toServer) - 1 :
           i + 1 \in DOMAIN toServer /\ toServer'[i] = toServer[i + 1]
  BY HeadTailProperties DEF LinkInv, LinkTypes
<1>2. NumberedFromLogon'
  <2>1. ASSUME NEW i \in DOMAIN toServer'
        PROVE  /\ toServer'[i].seq = srvIn' + i - 1
               /\ (toServer'[i].seq = 1) <=> (toServer'[i].type = "A")
    <3>1. /\ toServer[i + 1].seq = srvIn + (i + 1) - 1
          /\ (toServer[i + 1].seq = 1) <=> (toServer[i + 1].type = "A")
      BY <1>1 DEF LinkInv, NumberedFromLogon
    <3>2. i \in Int /\ srvIn \in Int
      BY <1>1 DEF LinkInv, LinkTypes
    <3>3. toServer'[i] = toServer[i + 1]
      BY <1>1
    <3>4. srvIn' + i - 1 = srvIn + (i + 1) - 1
      BY <3>2
    <3> QED
      BY <3>1, <3>3, <3>4
  <2> QED
    BY <2>1 DEF NumberedFromLogon
<1>3. link = "up" /\ run = "up"
  BY DEF LinkInv, Following, Published
<1> QED
  BY <1>1, <1>2, <1>3 DEF LinkInv, LinkTypes, Following, Published

(* Run and its ticker.                                                     *)
LEMMA RunLink ==
  ASSUME LinkInv, Backoff \/ Dial \/ Logon \/ ReadFails \/ ContextDone \/ Tick
  PROVE  LinkInv'
<1>1. CASE Backoff
  BY <1>1 DEF Backoff, server, LinkInv, LinkTypes, Following, Published, NumberedFromLogon
<1>2. CASE Dial
  <2>1. /\ run = "dial" /\ link = "down" /\ toServer = <<>> /\ srvIn = 1
        /\ UNCHANGED <<active, toServer, srvIn>>
    BY <1>2 DEF Dial, server, LinkInv, Published
  <2>2. CASE run' = "logon" /\ link' = "up" /\ outSeq' = 1
    BY <2>1, <2>2 DEF LinkInv, LinkTypes, Following, Published, NumberedFromLogon
  <2>3. CASE run' = "backoff" /\ UNCHANGED <<link, outSeq>>
    BY <2>1, <2>3 DEF LinkInv, LinkTypes, Following, Published, NumberedFromLogon
  <2> QED
    BY <1>2, <2>2, <2>3 DEF Dial
<1>3. CASE Logon
  <2>1. CASE /\ Send("A", NoOrder) /\ run' = "up" /\ active' = TRUE
             /\ UNCHANGED <<link, srvIn>>
    <3>1. run = "logon" /\ outSeq = 1
      BY <1>3 DEF Logon, LinkInv, Published
    <3>2. /\ toServer' \in Seq(Wire) /\ outSeq' \in Nat \ {0} /\ outSeq' = outSeq + 1
          /\ Following' /\ NumberedFromLogon'
      BY <2>1, <3>1, SendFollows DEF LinkInv
    <3> QED
      BY <2>1, <3>1, <3>2 DEF LinkInv, LinkTypes, Published
  <2>2. CASE Ends("backoff") /\ UNCHANGED outSeq
    BY <2>2, EndsLink
  <2> QED
    BY <1>3, <2>1, <2>2 DEF Logon, server
<1>4. CASE ReadFails
  BY <1>4, EndsLink DEF ReadFails
<1>5. CASE ContextDone
  BY <1>5, EndsLink DEF ContextDone
<1>6. CASE Tick
  <2>1. ASSUME NEW type \in {"0", "1"}, TickSends(type)
        PROVE  LinkInv'
    <3>1. CASE /\ Send(type, NoOrder)
               /\ UNCHANGED <<run, active, link, srvIn>>
      BY <1>6, <3>1, SessionSends DEF Tick, InLoop
    <3>2. CASE Ends("backoff") /\ UNCHANGED outSeq
      BY <3>2, EndsLink
    <3> QED
      BY <2>1, <3>1, <3>2 DEF TickSends, LoopSends, server
  <2>2. CASE Ends("backoff") /\ UNCHANGED outSeq
    BY <2>2, EndsLink
  <2> QED
    BY <1>6, <2>1, <2>2 DEF Tick
<1> QED
  BY <1>1, <1>2, <1>3, <1>4, <1>5, <1>6

(* An inbound message: most are handled without a word, a TestRequest is   *)
(* answered, and some end the session.                                     *)
LEMMA ReceiveLink ==
  ASSUME LinkInv, Receive
  PROVE  LinkInv'
<1> DEFINE m == Head(toClient)
<1>1. run = "up"
  BY DEF Receive, InLoop
<1>2. CASE Ends("backoff") /\ UNCHANGED outSeq
  BY <1>2, EndsLink
<1>3. CASE Ends("stopped") /\ UNCHANGED outSeq
  BY <1>3, EndsLink
<1>4. CASE NotSent /\ UNCHANGED <<run, active, link, srvIn>>
  BY <1>4, LinkFrame DEF NotSent, linkVars
<1>5. CASE Send("0", NoOrder) /\ UNCHANGED <<run, active, link, srvIn>>
  BY <1>1, <1>5, SessionSends
<1>6. CASE HandleReport(m)
  BY <1>6, <1>4 DEF HandleReport, Handling, server
<1>7. CASE HandleAck(m)
  BY <1>7, <1>2, <1>4 DEF HandleAck, Handling, server
<1>8. CASE HandleSession(m)
  <2>1. CASE HandleLogon(m)
    BY <1>4, <2>1 DEF HandleLogon, Stay, server
  <2>2. CASE NotSent /\ Stay([Here EXCEPT !.probe = FALSE])
    BY <1>4, <2>2 DEF Stay, server
  <2>3. CASE LoopSends("0", Stay(Here))
    BY <1>2, <1>5, <2>3 DEF LoopSends, Stay, server
  <2> QED
    BY <1>2, <1>3, <1>8, <2>1, <2>2, <2>3 DEF HandleSession
<1> QED
  BY <1>2, <1>6, <1>7, <1>8 DEF Receive

(* The handler's update, and the reconciliation after a reconnection.      *)
LEMMA WorkLink ==
  ASSUME LinkInv, Apply \/ Record \/ ReconcileReads \/ ReconcileRepairs
  PROVE  LinkInv'
<1>1. CASE Ends("backoff") /\ UNCHANGED outSeq
  BY <1>1, EndsLink
<1>2. CASE UNCHANGED linkVars
  BY <1>2, LinkFrame
<1>3. CASE Apply
  BY <1>1, <1>2, <1>3 DEF Apply, linkVars, server
<1>4. CASE Record
  BY <1>2, <1>4 DEF Record, linkVars, server
<1>5. CASE ReconcileReads
  BY <1>1, <1>2, <1>5 DEF ReconcileReads, linkVars, server
<1>6. CASE ReconcileRepairs
  BY <1>2, <1>6 DEF ReconcileRepairs, linkVars, server
<1> QED
  BY <1>3, <1>4, <1>5, <1>6

(* A caller writes only while a transport is published, and so only after  *)
(* the logon of its connection.                                            *)
LEMMA CallerLink ==
  ASSUME LinkInv, NEW o \in Orders, CallerStep(o)
  PROVE  LinkInv'
<1>1. CASE UNCHANGED linkVars
  BY <1>1, LinkFrame
<1>2. ASSUME UNCHANGED <<outSeq, toServer>>, CallRest
      PROVE  UNCHANGED linkVars
  BY <1>2 DEF CallRest, loop, server, linkVars
<1>3. CASE PlacePersist(o) \/ PlaceUncertain(o) \/ CancelReads(o) \/ CancelMarks(o)
             \/ CancelQueues(o) \/ AmendQueues(o)
  BY <1>1, <1>2, <1>3 DEF PlacePersist, PlaceUncertain, CancelReads, CancelMarks,
       CancelQueues, AmendQueues
<1>4. ASSUME NEW kind \in Kinds, SendApplication(kind, o)
      PROVE  LinkInv'
  <2>1. RequestType(kind) \in {"D", "F", "XAR"}
    BY DEF RequestType, Kinds
  <2>2. UNCHANGED <<run, active, link, srvIn>>
    BY <1>4 DEF SendApplication, loop
  <2>3. CASE active /\ Send(RequestType(kind), o)
    <3>1. run = "up"
      BY <2>3 DEF LinkInv, Published
    <3> QED
      BY <2>1, <2>2, <2>3, <3>1, SessionSends
  <2>4. CASE NotSent
    BY <1>1, <2>2, <2>4 DEF NotSent, linkVars
  <2> QED
    BY <1>4, <2>3, <2>4 DEF SendApplication
<1> QED
  BY <1>3, <1>4 DEF CallerStep

(* The server, the venue and the connection.                               *)
LEMMA ServerLink ==
  ASSUME LinkInv, \/ ServerStep \/ ServerTakesLate \/ ServerSpeaks \/ Breaks \/ Silence
                  \/ \E o \in Orders : VenueFills(o)
  PROVE  LinkInv'
<1>1. ASSUME VenueRest
      PROVE  UNCHANGED <<run, active, outSeq, link>>
  BY <1>1 DEF VenueRest, loop
<1>2. CASE UNCHANGED linkVars
  BY <1>2, LinkFrame
<1>3. CASE ServerTakesRequest
  BY <1>1, <1>3, TakeLink DEF ServerTakesRequest
<1>4. CASE ServerTakesAdmin
  BY <1>1, <1>4, TakeLink DEF ServerTakesAdmin
<1>5. CASE ServerTakesLate
  BY <1>1, <1>2, <1>5 DEF ServerTakesLate, linkVars
<1>6. CASE ServerSpeaks
  BY <1>1, <1>2, <1>6 DEF ServerSpeaks, linkVars
<1>7. CASE \E o \in Orders : VenueFills(o)
  BY <1>1, <1>2, <1>7 DEF VenueFills, linkVars
<1>8. CASE Breaks
  <2>1. /\ link' = "broken" /\ toServer' = <<>> /\ link = "up"
        /\ UNCHANGED <<run, active, outSeq, srvIn>>
    BY <1>8 DEF Breaks, loop
  <2>2. <<>> \in Seq(Wire)
    OBVIOUS
  <2>3. NumberedFromLogon'
    BY <2>1 DEF NumberedFromLogon
  <2>4. LinkTypes'
    BY <2>1, <2>2 DEF LinkInv, LinkTypes
  <2> QED
    BY <2>1, <2>3, <2>4 DEF LinkInv, Following, Published
<1>9. CASE Silence
  BY <1>2, <1>9 DEF Silence, linkVars, server
<1> QED
  BY <1>3, <1>4, <1>5, <1>6, <1>7, <1>8, <1>9 DEF ServerStep

(* The numbers and what is on the way agree, and a transport is published  *)
(* only after its logon.                                                   *)
THEOREM LinkInvHolds == Spec => []LinkInv
<1>1. Init => LinkInv
  <2> SUFFICES ASSUME Init PROVE LinkInv
    OBVIOUS
  <2>1. <<>> \in Seq(Wire)
    OBVIOUS
  <2>2. NumberedFromLogon
    BY DEF Init, NumberedFromLogon
  <2>3. /\ run = "dial" /\ active = FALSE /\ outSeq = 1 /\ link = "down"
        /\ toServer = <<>> /\ srvIn = 1
    BY DEF Init
  <2>4. run \in {"dial", "logon", "up", "backoff", "stopped"}
    BY <2>3
  <2>5. link \in {"up", "broken", "down"} /\ active \in BOOLEAN
    BY <2>3
  <2>6. outSeq \in Nat \ {0} /\ srvIn \in Nat \ {0} /\ toServer \in Seq(Wire)
    BY <2>1, <2>3
  <2>7. Following /\ Published
    BY <2>3 DEF Following, Published
  <2> QED
    BY <2>2, <2>4, <2>5, <2>6, <2>7 DEF LinkInv, LinkTypes
<1>2. LinkInv /\ [Next]_vars => LinkInv'
  <2> SUFFICES ASSUME LinkInv, [Next]_vars PROVE LinkInv'
    OBVIOUS
  <2>1. CASE UNCHANGED vars
    BY <2>1, LinkFrame DEF vars, loop, server, linkVars
  <2> QED
    BY <2>1, RunLink, ReceiveLink, WorkLink, CallerLink, ServerLink DEF Next, SessionStep
<1> QED
  BY <1>1, <1>2, PTL DEF Spec

(* NumberedFromLogon: every connection speaks in sequence from its Logon   *)
(* with number 1, although callers of SendApplication run while Run drops  *)
(* a transport, restarts the numbers and publishes the next one.           *)
THEOREM NumbersStartWithLogon == Spec => []NumberedFromLogon
<1>1. LinkInv => NumberedFromLogon
  BY DEF LinkInv
<1> QED
  BY <1>1, LinkInvHolds, PTL

-----------------------------------------------------------------------------
(* What is said of an order has happened to it.  The venue only moves on,  *)
(* and a final status stays; so every copy that is under way (a report,    *)
(* the update being applied, what the reconciliation or a caller has read) *)
(* is final only if the venue's status is, and never ahead of the venue.   *)

FromVenue ==
  [type: {"8", "XCA", "XAA", "A", "0", "1", "3", "5"}, order: Orders \union {NoOrder},
   status: OrderStatuses, cum: Nat \union {NoCum}, n: 0 .. Qty, accepted: BOOLEAN,
   ids: BOOLEAN, seq: Nat]

(* The order r at the venue has this status, or had it and moved on.       *)
Reached(r, status) ==
  /\ status \in Done => r.status = status
  /\ status = "New" => r.status \in {"New", "PartiallyFilled", "Filled", "Cancelled"}
  /\ status = "PartiallyFilled" => r.status \in {"PartiallyFilled", "Filled", "Cancelled"}

Within(r, cum) == cum # NoCum => cum <= r.cum

Tells(r, u) == Reached(r, u.status) /\ Within(r, u.cum)

TrueMessages(v) ==
  {m \in FromVenue : m.type = "8" => m.order \in Orders /\ Tells(v[m.order], m)}

TrueUpdates(v) ==
  {u \in [order: Orders, update: OrderUpdates, n: 0 .. Qty] : Tells(v[u.order], u.update)}

TrueViews(v, o) == {r \in OrderRecords : Tells(v[o], r)}

(* The orders at the venue: nothing is filled of one it has not taken, and *)
(* an open one has lots left.                                              *)
VenueOrders ==
  {r \in [status: {"none"} \union Open \union Done, cum: 0 .. Qty] :
     (r.status = "none" => r.cum = 0) /\ (r.status \in Open => r.cum < Qty)}

Steps == {"idle", "send", "uncertain", "mark", "append", "done"}

(* A caller about to write a copy back has one.                            *)
Callings ==
  {c \in [at: Steps, view: OrderRecords \union {NoOrder}] :
     c.at = "mark" => c.view \in OrderRecords}

CurTrue ==
  /\ cur \in TrueUpdates(venue) \union {NoUpdate}
  /\ phase \in {"idle", "apply", "record", "reconcile", "repair"}
  /\ phase \in {"apply", "record"} => cur \in TrueUpdates(venue)
  /\ phase = "record" => cur.n # 0

ViewTrue ==
  /\ view \in [Orders -> OrderRecords \union {NoOrder}]
  /\ \A o \in Orders : view[o] \in TrueViews(venue, o) \union {NoOrder}

FileTrue == \A o \in Orders : orders[o] \in TrueViews(venue, o) \union {NoOrder}

CallsTrue ==
  \A o \in Orders : At("cancel", o) = "mark" =>
    Within(venue[o], op[<<"cancel", o>>].view.cum)

MessagesTrue == srvOut \in Nat \ {0} /\ toClient \in Seq(TrueMessages(venue))

TruthInv ==
  /\ StateTypeOK /\ FileTrue
  /\ venue \in [Orders -> VenueOrders] /\ op \in [Callers -> Callings] /\ CallsTrue
  /\ MessagesTrue /\ CurTrue /\ ViewTrue

truthVars == <<orders, executions, venue, op, srvOut, toClient, phase, cur, view>>

(* The venue moves on.                                                     *)
Lasts(v, w) ==
  \A o \in Orders : /\ Reached(w[o], v[o].status)
                    /\ v[o].cum \in Nat /\ w[o].cum \in Nat /\ v[o].cum <= w[o].cum

(* What was told of an order is still true when the order has moved on.    *)
LEMMA TellsLasts ==
  ASSUME NEW v, NEW w, Lasts(v, w), NEW o \in Orders, NEW u,
         u.cum \in Nat \union {NoCum}, Tells(v[o], u)
  PROVE  Tells(w[o], u)
<1>1. Reached(w[o], u.status)
  BY DEF Lasts, Tells, Reached, Done
<1>2. Within(w[o], u.cum)
  BY DEF Lasts, Tells, Within
<1> QED
  BY <1>1, <1>2 DEF Tells

(* An order that is left alone has moved on.                               *)
LEMMA StandsStill ==
  ASSUME venue \in [Orders -> VenueOrders]
  PROVE  Lasts(venue, venue)
BY OrderStateAssumption DEF Lasts, Reached, VenueOrders, Open, Done

(* So what was true of it stays true.                                      *)
LEMMA TruthLasts ==
  ASSUME NEW v, NEW w, Lasts(v, w)
  PROVE  /\ TrueMessages(v) \subseteq TrueMessages(w)
         /\ TrueUpdates(v) \subseteq TrueUpdates(w)
         /\ \A o \in Orders : TrueViews(v, o) \subseteq TrueViews(w, o)
<1>1. TrueMessages(v) \subseteq TrueMessages(w)
  <2> SUFFICES ASSUME NEW m \in TrueMessages(v) PROVE m \in TrueMessages(w)
    OBVIOUS
  <2>1. m \in FromVenue /\ m.cum \in Nat \union {NoCum}
    BY DEF TrueMessages, FromVenue
  <2> QED
    BY <2>1, TellsLasts DEF TrueMessages
<1>2. TrueUpdates(v) \subseteq TrueUpdates(w)
  <2> SUFFICES ASSUME NEW u \in TrueUpdates(v) PROVE u \in TrueUpdates(w)
    OBVIOUS
  <2>1. u.order \in Orders /\ u.update.cum \in Nat \union {NoCum}
    BY DEF TrueUpdates, OrderUpdates
  <2> QED
    BY <2>1, TellsLasts DEF TrueUpdates
<1>3. ASSUME NEW o \in Orders, NEW r \in TrueViews(v, o)
      PROVE  r \in TrueViews(w, o)
  <2>1. r \in OrderRecords /\ r.cum \in Nat
    BY DEF TrueViews, OrderRecords
  <2> QED
    BY <2>1, TellsLasts DEF TrueViews
<1> QED
  BY <1>1, <1>2, <1>3

(* What leaves these variables alone keeps the truth.                      *)
LEMMA TruthFrame ==
  ASSUME TruthInv, UNCHANGED truthVars
  PROVE  TruthInv'
<1>1. UNCHANGED <<StateTypeOK, FileTrue, CallsTrue, MessagesTrue, CurTrue, ViewTrue>>
  BY DEF truthVars, StateTypeOK, FileTrue, CallsTrue, At, MessagesTrue, CurTrue, ViewTrue
<1> QED
  BY <1>1 DEF TruthInv, truthVars

(* The end of a connection forgets its messages and what was under way.    *)
LEMMA EndsTruth ==
  ASSUME TruthInv, NEW next, Ends(next), UNCHANGED <<stateVars, venue, op>>
  PROVE  TruthInv'
<1> DEFINE T == TrueMessages(venue)
<1>1. <<>> \in Seq(T)
  OBVIOUS
<1>2. /\ phase' = "idle" /\ cur' = NoUpdate /\ view' = [o \in Orders |-> NoOrder]
      /\ srvOut' = 1 /\ toClient' = <<>>
      /\ UNCHANGED <<orders, executions, venue, op>>
  BY DEF Ends, stateVars
<1>3. MessagesTrue'
  BY <1>1, <1>2 DEF MessagesTrue
<1>4. CurTrue'
  BY <1>2 DEF CurTrue
<1>5. ViewTrue'
  BY <1>2 DEF ViewTrue
<1>6. StateTypeOK' /\ FileTrue' /\ CallsTrue'
  BY <1>2 DEF TruthInv, StateTypeOK, FileTrue, CallsTrue, At
<1> QED
  BY <1>2, <1>3, <1>4, <1>5, <1>6 DEF TruthInv

(* Numbering messages and sending them leaves them true.                   *)
LEMMA NumberedTrue ==
  ASSUME NEW v, NEW s \in Seq(TrueMessages(v)), srvOut \in Nat \ {0}
  PROVE  Numbered(s) \in Seq(TrueMessages(v)) /\ Len(Numbered(s)) = Len(s)
<1>1. DOMAIN s = 1 .. Len(s) /\ Len(s) \in Nat
  OBVIOUS
<1>2. ASSUME NEW i \in 1 .. Len(s)
      PROVE  [s[i] EXCEPT !.seq = srvOut + i - 1] \in TrueMessages(v)
  <2>1. s[i] \in TrueMessages(v)
    BY <1>1
  <2>2. srvOut + i - 1 \in Nat
    BY <1>1
  <2> QED
    BY <2>1, <2>2 DEF TrueMessages, FromVenue, Tells
<1>3. Numbered(s) = [i \in 1 .. Len(s) |-> [s[i] EXCEPT !.seq = srvOut + i - 1]]
  BY <1>1 DEF Numbered
<1> HIDE DEF Numbered, TrueMessages
<1>4. Numbered(s) \in [1 .. Len(s) -> TrueMessages(v)]
  BY <1>2, <1>3
<1> QED
  BY <1>1, <1>4, SeqDef

(* The server sends true messages behind true ones.                        *)
LEMMA EmitTrue ==
  ASSUME NEW v, srvOut \in Nat \ {0}, toClient \in Seq(TrueMessages(v)),
         NEW s \in Seq(TrueMessages(v)), Emit(s)
  PROVE  srvOut' \in Nat \ {0} /\ toClient' \in Seq(TrueMessages(v))
<1>1. CASE UNCHANGED <<srvOut, toClient>>
  BY <1>1
<1>2. CASE toClient' = toClient \o Numbered(s) /\ srvOut' = srvOut + Len(s)
  BY <1>2, NumberedTrue, ConcatProperties, LenProperties
<1>3. CASE /\ toClient' = toClient \o Tail(Numbered(Append(s, Session("0"))))
           /\ srvOut' = srvOut + Len(s) + 1
  <2>1. Session("0") \in TrueMessages(v)
    BY OrderStateAssumption DEF Session, TrueMessages, FromVenue, OrderStatuses
  <2>2. /\ Append(s, Session("0")) \in Seq(TrueMessages(v))
        /\ Len(Append(s, Session("0"))) = Len(s) + 1
    BY <2>1, AppendProperties
  <2> DEFINE t == Numbered(Append(s, Session("0")))
  <2>3. t \in Seq(TrueMessages(v)) /\ Len(t) = Len(s) + 1
    BY <2>2, NumberedTrue
  <2> HIDE DEF t
  <2>4. Len(s) \in Nat
    BY LenProperties
  <2>5. t # <<>>
    BY <2>3, <2>4, EmptySeq
  <2>6. Tail(t) \in Seq(TrueMessages(v))
    BY <2>3, <2>5, HeadTailProperties
  <2> QED
    BY <1>3, <2>4, <2>6, ConcatProperties DEF t
<1> QED
  BY <1>1, <1>2, <1>3 DEF Emit

(* The venue and the connection move on; the session's side stands still.  *)
LEMMA VenueTruth ==
  ASSUME TruthInv, Lasts(venue, venue'), venue' \in [Orders -> VenueOrders],
         MessagesTrue', UNCHANGED <<stateVars, op, phase, cur, view>>
  PROVE  TruthInv'
<1>1. /\ TrueUpdates(venue) \subseteq TrueUpdates(venue')
      /\ \A o \in Orders : TrueViews(venue, o) \subseteq TrueViews(venue', o)
  BY TruthLasts
<1>2. CurTrue'
  BY <1>1 DEF TruthInv, CurTrue
<1>3. ViewTrue'
  BY <1>1 DEF TruthInv, ViewTrue
<1>4. StateTypeOK'
  BY DEF TruthInv, StateTypeOK, stateVars
<1>5. FileTrue'
  BY <1>1 DEF TruthInv, FileTrue, stateVars
<1>6. CallsTrue'
  <2> SUFFICES ASSUME NEW o \in Orders, At("cancel", o) = "mark"
               PROVE  Within(venue'[o], op[<<"cancel", o>>].view.cum)
    BY DEF CallsTrue, At
  <2>1. <<"cancel", o>> \in Callers
    BY DEF Callers, Kinds
  <2>2. op[<<"cancel", o>>].view \in OrderRecords
    BY <2>1 DEF At, TruthInv, Callings
  <2>3. Within(venue[o], op[<<"cancel", o>>].view.cum)
    BY DEF TruthInv, CallsTrue
  <2> QED
    BY <2>2, <2>3 DEF Lasts, Within, OrderRecords
<1> QED
  BY <1>2, <1>3, <1>4, <1>5, <1>6 DEF TruthInv

(* A venue that says what it did with an order.                            *)
LEMMA AnnouncedTruth ==
  ASSUME TruthInv, NEW o \in Orders, NEW after \in VenueOrders,
         Reached(after, venue[o].status), venue[o].cum <= after.cum,
         venue' = [venue EXCEPT ![o] = after],
         NEW s \in Seq(TrueMessages(venue')), Emit(s),
         UNCHANGED <<stateVars, op, phase, cur, view>>
  PROVE  TruthInv'
<1>1. venue' \in [Orders -> VenueOrders]
  BY DEF TruthInv
<1>2. Lasts(venue, venue')
  <2>1. Lasts(venue, venue) /\ after.cum \in Nat
    BY StandsStill, OrderStateAssumption DEF TruthInv, VenueOrders
  <2> QED
    BY <2>1 DEF TruthInv, Lasts
<1>3. TrueMessages(venue) \subseteq TrueMessages(venue')
  BY <1>2, TruthLasts
<1>4. toClient \in Seq(TrueMessages(venue'))
  BY <1>3, SeqMonotonic DEF TruthInv, MessagesTrue
<1>5. MessagesTrue'
  BY <1>4, EmitTrue DEF TruthInv, MessagesTrue
<1> QED
  BY <1>1, <1>2, <1>5, VenueTruth

(* What a request brings about.                                            *)
LEMMA CarryOutTruth ==
  ASSUME TruthInv, NEW request, request.order \in Orders, CarryOut(request),
         UNCHANGED <<stateVars, op, phase, cur, view>>
  PROVE  TruthInv'
<1> DEFINE o == request.order
           v == venue[o]
<1>0. o \in Orders /\ v \in VenueOrders /\ Qty \in Nat \ {0}
  BY OrderStateAssumption DEF TruthInv
<1>1. ASSUME NEW after, NEW a, NEW b, a \in TrueMessages(venue'), b \in TrueMessages(venue'),
             after \in VenueOrders, Reached(after, v.status), v.cum <= after.cum,
             Carries(request, after, <<a>>) \/ Carries(request, after, <<a, b>>)
      PROVE  TruthInv'
  <2>1. <<a>> \in Seq(TrueMessages(venue')) /\ <<a, b>> \in Seq(TrueMessages(venue'))
    BY <1>1
  <2> QED
    BY <1>0, <1>1, <2>1, AnnouncedTruth DEF Carries
<1>2. ASSUME NEW status \in OrderStatuses, NEW cum \in Nat \union {NoCum},
             Reached(venue'[o], status), Within(venue'[o], cum)
      PROVE  Report(o, status, cum, 0) \in TrueMessages(venue')
  BY <1>0, <1>2 DEF Report, TrueMessages, FromVenue, Tells
<1>3. ASSUME NEW type \in {"XCA", "XAA"}, NEW accepted \in BOOLEAN, NEW ids \in BOOLEAN
      PROVE  Ack(type, o, accepted, ids) \in TrueMessages(venue')
  BY <1>0 DEF Ack, TrueMessages, FromVenue, OrderStatuses
<1>4. ASSUME NEW after, NEW s, Carries(request, after, s)
      PROVE  venue'[o] = after
  BY <1>0, <1>4 DEF TruthInv, Carries
<1>5. CASE Carries(request, [status |-> "New", cum |-> 0],
                   <<Report(o, "PendingSubmit", 0, 0), Report(o, "New", 0, 0)>>)
           /\ v.status = "none" /\ v.cum = 0
  <2> DEFINE after == [status |-> "New", cum |-> 0]
  <2>1. after \in VenueOrders /\ Reached(after, v.status) /\ v.cum <= after.cum
    BY <1>0, <1>5 DEF VenueOrders, Open, Done, Reached
  <2>2. venue'[o] = after
    BY <1>4, <1>5
  <2>3. /\ Report(o, "PendingSubmit", 0, 0) \in TrueMessages(venue')
        /\ Report(o, "New", 0, 0) \in TrueMessages(venue')
    BY <1>2, <2>2 DEF Reached, Within, Done, OrderStatuses
  <2> HIDE DEF after
  <2> QED
    BY <1>1, <1>5, <2>1, <2>3 DEF after
<1>6. CASE Carries(request, [status |-> "Rejected", cum |-> 0],
                   <<Report(o, "Rejected", NoCum, 0)>>) /\ v.status = "none" /\ v.cum = 0
  <2> DEFINE after == [status |-> "Rejected", cum |-> 0]
  <2>1. after \in VenueOrders /\ Reached(after, v.status) /\ v.cum <= after.cum
    BY <1>0, <1>6 DEF VenueOrders, Open, Done, Reached
  <2>2. venue'[o] = after
    BY <1>4, <1>6
  <2>3. Report(o, "Rejected", NoCum, 0) \in TrueMessages(venue')
    <3>1. Reached(venue'[o], "Rejected") /\ Within(venue'[o], NoCum)
      BY <2>2 DEF Reached, Within
    <3> QED
      BY <1>2, <3>1 DEF OrderStatuses
  <2> HIDE DEF after
  <2> QED
    BY <1>1, <1>6, <2>1, <2>3 DEF after
<1>7. CASE Carries(request, [v EXCEPT !.status = "Cancelled"],
                   <<Ack("XCA", o, TRUE, TRUE), Report(o, "Cancelled", v.cum, 0)>>)
           /\ v.status \in Open
  <2> DEFINE after == [v EXCEPT !.status = "Cancelled"]
  <2>1. /\ after \in VenueOrders /\ v.cum \in Nat /\ after.status = "Cancelled"
        /\ after.cum = v.cum
    BY <1>0 DEF VenueOrders, Open, Done
  <2>2. venue'[o] = after
    BY <1>4, <1>7
  <2> HIDE DEF after
  <2>3. Report(o, "Cancelled", v.cum, 0) \in TrueMessages(venue')
    BY <1>2, <2>1, <2>2 DEF Reached, Within, OrderStatuses
  <2>4. Reached(after, v.status) /\ v.cum <= after.cum
    BY <1>7, <2>1 DEF Open, Done, Reached
  <2> QED
    BY <1>1, <1>3, <1>7, <2>1, <2>3, <2>4 DEF after
<1>8. Reached(v, v.status) /\ v.cum <= v.cum /\ Within(v, v.cum)
  BY <1>0, StandsStill DEF TruthInv, Lasts, Within
<1>9. ASSUME NEW ids \in BOOLEAN, NEW type \in {"XCA", "XAA"},
             Carries(request, v, <<Ack(type, o, FALSE, ids)>>)
      PROVE  TruthInv'
  BY <1>0, <1>1, <1>3, <1>8, <1>9
<1>10. CASE Carries(request, v, <<Ack("XAA", o, TRUE, TRUE), Report(o, v.status, v.cum, 0)>>)
            /\ v.status \in Open
  <2>1. v.status \in OrderStatuses /\ v.cum \in Nat
    BY <1>0, <1>10 DEF VenueOrders, Open, OrderStatuses
  <2>2. venue'[o] = v
    BY <1>4, <1>10
  <2>3. Report(o, v.status, v.cum, 0) \in TrueMessages(venue')
    BY <1>2, <1>8, <2>1, <2>2
  <2> QED
    BY <1>0, <1>1, <1>3, <1>8, <1>10, <2>3
<1>11. v.status = "none" => v.cum = 0
  BY <1>0 DEF VenueOrders
<1> QED
  BY <1>5, <1>6, <1>7, <1>9, <1>10, <1>11 DEF CarryOut

(* The server, the venue and the connection.                               *)
LEMMA ServerTruth ==
  ASSUME TruthInv, \/ ServerStep \/ ServerTakesLate \/ ServerSpeaks \/ Breaks \/ Silence
                   \/ \E o \in Orders : VenueFills(o),
         late \subseteq Requests
  PROVE  TruthInv'
<1>1. ASSUME VenueRest
      PROVE  UNCHANGED <<stateVars, op, phase, cur, view>>
  BY <1>1 DEF VenueRest, loop
<1>2. CASE UNCHANGED truthVars
  BY <1>2, TruthFrame
<1>3. ASSUME NEW s \in Seq(TrueMessages(venue)), Emit(s), venue' = venue, VenueRest
      PROVE  TruthInv'
  <2>1. MessagesTrue'
    BY <1>3, EmitTrue DEF TruthInv, MessagesTrue
  <2> QED
    BY <1>1, <1>3, <2>1, VenueTruth, StandsStill DEF TruthInv
<1>4. ASSUME NEW type \in {"A", "0", "1", "3", "5"}
      PROVE  /\ Session(type) \in TrueMessages(venue)
             /\ <<Session(type)>> \in Seq(TrueMessages(venue))
  BY OrderStateAssumption DEF Session, TrueMessages, FromVenue, OrderStatuses
<1>5. CASE ServerTakesRequest
  <2>1. Head(toServer).order \in Orders
    BY <1>5 DEF ServerTakesRequest, Requests
  <2> QED
    BY <1>1, <1>5, <2>1, CarryOutTruth DEF ServerTakesRequest
<1>6. CASE ServerTakesAdmin
  <2>1. venue' = venue /\ VenueRest
    BY <1>6 DEF ServerTakesAdmin
  <2>2. ASSUME NEW type \in {"A", "0", "5"}, Emit(<<Session(type)>>)
        PROVE  TruthInv'
    BY <1>3, <1>4, <2>1, <2>2
  <2>3. CASE UNCHANGED <<srvOut, toClient>>
    BY <1>1, <1>2, <2>1, <2>3 DEF truthVars, stateVars
  <2> QED
    BY <1>6, <2>2, <2>3 DEF ServerTakesAdmin
<1>7. CASE ServerTakesLate
  <2>1. PICK request \in late :
          /\ VenueRest
          /\ CarryOut(request) \/ UNCHANGED <<venue, srvOut, toClient>>
    BY <1>7 DEF ServerTakesLate
  <2>2. request.order \in Orders
    BY DEF Requests
  <2>3. CASE CarryOut(request)
    BY <1>1, <2>1, <2>2, <2>3, CarryOutTruth
  <2>4. CASE UNCHANGED <<venue, srvOut, toClient>>
    BY <1>1, <1>2, <2>1, <2>4 DEF truthVars, stateVars
  <2> QED
    BY <2>1, <2>3, <2>4
<1>8. CASE ServerSpeaks
  <2>1. venue' = venue /\ VenueRest
    BY <1>8 DEF ServerSpeaks
  <2>2. CASE Emit(<<Session("1")>>)
    BY <1>3, <1>4, <2>1, <2>2
  <2>3. CASE \E type \in {"3", "5"} : /\ toClient' = toClient \o Numbered(<<Session(type)>>)
                                      /\ srvOut' = srvOut + 1
    <3>1. PICK type \in {"3", "5"} : /\ toClient' = toClient \o Numbered(<<Session(type)>>)
                                     /\ srvOut' = srvOut + 1
      BY <2>3
    <3>2. Numbered(<<Session(type)>>) \in Seq(TrueMessages(venue))
      BY <1>4, NumberedTrue DEF TruthInv, MessagesTrue
    <3>3. toClient' \in Seq(TrueMessages(venue)) /\ srvOut' \in Nat \ {0}
      BY <3>1, <3>2, ConcatProperties DEF TruthInv, MessagesTrue
    <3>4. MessagesTrue'
      BY <2>1, <3>3 DEF MessagesTrue
    <3> QED
      BY <1>1, <2>1, <3>4, VenueTruth, StandsStill DEF TruthInv
  <2> QED
    BY <1>8, <2>2, <2>3 DEF ServerSpeaks
<1>9. CASE \E o \in Orders : VenueFills(o)
  <2>1. PICK o \in Orders : VenueFills(o)
    BY <1>9
  <2> DEFINE n == venue[o].cum + 1
             status == IF n = Qty THEN "Filled" ELSE "PartiallyFilled"
             after == [status |-> status, cum |-> n]
  <2>2. venue[o] \in VenueOrders /\ venue[o].status \in Open /\ Qty \in Nat
    BY <2>1, OrderStateAssumption DEF VenueFills, TruthInv
  <2>3. n \in 1 .. Qty /\ status \in OrderStatuses /\ after \in VenueOrders
    BY <2>2 DEF VenueOrders, Open, Done, OrderStatuses
  <2>4. venue' = [venue EXCEPT ![o] = after] /\ Emit(<<Report(o, status, n, n)>>)
    BY <2>1 DEF VenueFills
  <2>5. venue'[o] = after
    BY <2>4 DEF TruthInv
  <2>6. Reached(after, status) /\ Within(after, n)
    BY <2>3 DEF Reached, Within, Done
  <2>7. Reached(after, venue[o].status) /\ venue[o].cum <= after.cum
    BY <2>2, <2>3 DEF Reached, VenueOrders, Open, Done
  <2> HIDE DEF n, status, after
  <2>8. Report(o, status, n, n) \in TrueMessages(venue')
    BY <2>3, <2>5, <2>6 DEF Report, TrueMessages, FromVenue, Tells
  <2>9. <<Report(o, status, n, n)>> \in Seq(TrueMessages(venue'))
    BY <2>8
  <2>10. VenueRest
    BY <2>1 DEF VenueFills
  <2> QED
    BY <1>1, <2>3, <2>4, <2>7, <2>9, <2>10, AnnouncedTruth
<1>10. CASE Breaks
  BY <1>2, <1>10 DEF Breaks, truthVars, stateVars, loop
<1>11. CASE Silence
  BY <1>2, <1>11 DEF Silence, truthVars, stateVars, server
<1> QED
  BY <1>5, <1>6, <1>7, <1>8, <1>9, <1>10, <1>11 DEF ServerStep

(* The file.  An update whose final status is the venue's may be applied.  *)
LEMMA ApplyOrderTruth ==
  ASSUME TruthInv, NEW o \in Orders, NEW u \in OrderUpdates,
         Tells(venue[o], u), ApplyOrder(o, u), venue' = venue
  PROVE  StateTypeOK' /\ FileTrue'
<1> DEFINE r == mergeOrder(Current(o), u)
<1>1. Current(o) \in OrderRecords
  BY DEF TruthInv, StateTypeOK, Current, Known, OrderRecords, OrderStatuses
<1>2. r \in OrderRecords /\ r.status = u.status
  BY <1>1 DEF mergeOrder, OrderRecords, OrderUpdates
<1>3. Within(venue[o], r.cum)
  <2>1. Within(venue[o], Current(o).cum) /\ Within(venue[o], u.cum)
    BY OrderStateAssumption DEF TruthInv, FileTrue, TrueViews, Tells, Within, Current,
         Known, VenueOrders
  <2> QED
    BY <2>1 DEF mergeOrder
<1>4. r \in TrueViews(venue, o)
  BY <1>2, <1>3 DEF TrueViews, Tells
<1>5. orders' = [orders EXCEPT ![o] = r] /\ executions' = executions
  BY DEF ApplyOrder
<1> HIDE DEF r
<1>6. StateTypeOK'
  BY <1>2, <1>5 DEF TruthInv, StateTypeOK
<1>7. FileTrue'
  BY <1>4, <1>5 DEF TruthInv, StateTypeOK, FileTrue
<1> QED
  BY <1>6, <1>7

(* The message read is taken from the connection; an update that is true   *)
(* of the venue is to be applied, or nothing is.                           *)
LEMMA HandledTruth ==
  ASSUME TruthInv, toClient # <<>>, toClient' = Tail(toClient),
         cur' \in TrueUpdates(venue) \union {NoUpdate},
         phase' \in {"idle", "apply", "reconcile"},
         phase' = "apply" => cur' \in TrueUpdates(venue),
         UNCHANGED <<stateVars, op, venue, srvOut, view>>
  PROVE  TruthInv'
<1>1. toClient' \in Seq(TrueMessages(venue))
  BY HeadTailProperties DEF TruthInv, MessagesTrue
<1>2. MessagesTrue'
  BY <1>1 DEF TruthInv, MessagesTrue
<1>3. CurTrue'
  BY DEF CurTrue
<1>4. ViewTrue'
  BY DEF TruthInv, ViewTrue
<1>5. StateTypeOK' /\ FileTrue' /\ CallsTrue'
  BY DEF TruthInv, StateTypeOK, FileTrue, CallsTrue, At, stateVars
<1> QED
  BY <1>2, <1>3, <1>4, <1>5 DEF TruthInv

(* A report's update: "pending new" takes the status the file has, which   *)
(* is the venue's if it is final.                                          *)
LEMMA ReportIsTrue ==
  ASSUME TruthInv, NEW m \in TrueMessages(venue), m.type = "8"
  PROVE  ReportUpdate(m) \in TrueUpdates(venue)
<1>1. m \in FromVenue /\ m.order \in Orders /\ Tells(venue[m.order], m)
  BY DEF TrueMessages
<1> DEFINE status == IF m.status = "PendingSubmit" /\ m.order \in Known
                       THEN Current(m.order).status ELSE m.status
<1>2. status \in OrderStatuses /\ Reached(venue[m.order], status)
  <2>1. CASE m.status = "PendingSubmit" /\ m.order \in Known
    <3>1. status = orders[m.order].status /\ orders[m.order] \in OrderRecords
      BY <1>1, <2>1 DEF TruthInv, StateTypeOK, Current, Known
    <3> QED
      BY <1>1, <2>1, <3>1 DEF TruthInv, FileTrue, Known, TrueViews, Tells, OrderRecords
  <2>2. CASE ~(m.status = "PendingSubmit" /\ m.order \in Known)
    BY <1>1, <2>2 DEF FromVenue, Tells
  <2> QED
    BY <2>1, <2>2
<1>3. ReportUpdate(m) = [order |-> m.order, n |-> m.n,
                         update |-> [status |-> status, cum |-> m.cum]]
  BY DEF ReportUpdate, Update
<1> HIDE DEF status
<1>4. [status |-> status, cum |-> m.cum] \in OrderUpdates /\ m.n \in 0 .. Qty
  BY <1>1, <1>2 DEF FromVenue, OrderUpdates
<1> QED
  BY <1>1, <1>2, <1>3, <1>4 DEF TrueUpdates, Tells

(* A refusal's update writes back the status just read, or RejectedCancel. *)
LEMMA RefusalIsTrue ==
  ASSUME TruthInv, NEW m, NEW o, m.accepted \/ o \in Known
  PROVE  RefusalUpdate(m, o) \in TrueUpdates(venue) \union {NoUpdate}
<1>1. CASE m.accepted
  BY <1>1 DEF RefusalUpdate
<1>2. CASE ~m.accepted
  <2>1. o \in Known /\ o \in Orders /\ orders[o] \in OrderRecords
    BY <1>2 DEF Known, TruthInv, StateTypeOK
  <2> DEFINE status == IF m.type = "XCA" THEN "RejectedCancel" ELSE orders[o].status
  <2>2. /\ status \in OrderStatuses /\ Reached(venue[o], status)
        /\ Within(venue[o], orders[o].cum)
    BY <2>1 DEF TruthInv, FileTrue, Known, TrueViews, Tells, Reached, OrderRecords,
         OrderStatuses, Done
  <2>3. RefusalUpdate(m, o) = [order |-> o, n |-> 0,
                               update |-> [status |-> status, cum |-> orders[o].cum]]
    BY <1>2 DEF RefusalUpdate, Update
  <2> HIDE DEF status
  <2>4. [status |-> status, cum |-> orders[o].cum] \in OrderUpdates /\ 0 \in 0 .. Qty
    BY <2>1, <2>2, OrderStateAssumption DEF OrderRecords, OrderUpdates
  <2> QED
    BY <2>1, <2>2, <2>3, <2>4 DEF TrueUpdates, Tells
<1> QED
  BY <1>1, <1>2

(* Every message makes a true update, or none.                             *)
LEMMA ReceiveTruth ==
  ASSUME TruthInv, Receive
  PROVE  TruthInv'
<1> DEFINE m == Head(toClient)
<1>1. /\ toClient # <<>> /\ m \in TrueMessages(venue) /\ phase = "idle"
      /\ UNCHANGED <<stateVars, op, venue>>
  <2>1. toClient # <<>> /\ phase = "idle" /\ UNCHANGED <<stateVars, op, venue>>
    BY DEF Receive, InLoop
  <2>2. m \in TrueMessages(venue)
    BY <2>1, HeadTailProperties DEF TruthInv, MessagesTrue
  <2> QED
    BY <2>1, <2>2
<1> HIDE DEF m
<1>2. CASE \E next : Ends(next)
  BY <1>1, <1>2, EndsTruth
<1>3. ASSUME NEW update \in TrueUpdates(venue) \union {NoUpdate}, Handling(update)
      PROVE  TruthInv'
  BY <1>1, <1>3, HandledTruth DEF Handling, server
<1>4. CASE /\ phase' \in {"idle", "reconcile"} /\ toClient' = Tail(toClient)
           /\ UNCHANGED <<cur, view, srvOut>>
  BY <1>1, <1>4, HandledTruth DEF TruthInv, CurTrue
<1>5. CASE HandleReport(m)
  BY <1>1, <1>3, <1>5, ReportIsTrue DEF HandleReport
<1>6. CASE HandleAck(m)
  <2> DEFINE o == Correlated(m, IF m.type = "XCA" THEN pendingCancel ELSE pendingAmend)
  <2>1. \/ Ends("backoff")
        \/ (m.accepted \/ o \in Known) /\ Handling(RefusalUpdate(m, o))
    <3>1. m.accepted \in BOOLEAN
      BY <1>1 DEF TrueMessages, FromVenue
    <3> QED
      BY <1>6, <3>1 DEF HandleAck
  <2> HIDE DEF o
  <2> QED
    BY <1>1, <1>2, <1>3, <2>1, RefusalIsTrue
<1>7. CASE HandleSession(m)
  <2>1. CASE HandleLogon(m)
    BY <1>4, <2>1 DEF HandleLogon, Stay, Here, server
  <2>2. CASE Stay([Here EXCEPT !.probe = FALSE])
    BY <1>4, <2>2 DEF Stay, Here, server
  <2>3. CASE LoopSends("0", Stay(Here))
    BY <1>2, <1>4, <2>3 DEF LoopSends, Stay, Here, server
  <2> QED
    BY <1>2, <1>7, <2>1, <2>2, <2>3 DEF HandleSession
<1> QED
  BY <1>2, <1>5, <1>6, <1>7 DEF Receive, m

(* Run and its ticker do not touch the file.                               *)
LEMMA RunTruth ==
  ASSUME TruthInv, Backoff \/ Dial \/ Logon \/ ReadFails \/ ContextDone \/ Tick
  PROVE  TruthInv'
<1>1. UNCHANGED <<stateVars, venue, op>>
  BY DEF Backoff, Dial, Logon, ReadFails, ContextDone, Tick, RunRest
<1>2. CASE \E next : Ends(next)
  BY <1>1, <1>2, EndsTruth
<1>3. CASE UNCHANGED <<phase, cur, view, toClient, srvOut>>
  BY <1>1, <1>3, TruthFrame DEF truthVars, stateVars
<1>4. CASE Backoff \/ Dial \/ Logon \/ ReadFails \/ ContextDone
  BY <1>2, <1>3, <1>4 DEF Backoff, Dial, Logon, ReadFails, ContextDone, server
<1>5. CASE Tick
  <2>1. ASSUME NEW type, TickSends(type)
        PROVE  TruthInv'
    BY <1>2, <1>3, <2>1 DEF TickSends, LoopSends, server
  <2> QED
    BY <1>2, <1>5, <2>1 DEF Tick
<1> QED
  BY <1>4, <1>5

(* The handler's update.                                                   *)
LEMMA ApplyTruth ==
  ASSUME TruthInv, Apply
  PROVE  TruthInv'
<1>1. phase = "apply" /\ cur \in TrueUpdates(venue) /\ UNCHANGED <<op, venue>>
  BY DEF Apply, TruthInv, CurTrue
<1>2. CASE ~CanApplyOrder(cur.order, cur.update)
  BY <1>1, <1>2, EndsTruth DEF Apply
<1>3. CASE CanApplyOrder(cur.order, cur.update)
  <2>1. /\ cur.order \in Orders /\ cur.update \in OrderUpdates /\ cur.n \in 0 .. Qty
        /\ Tells(venue[cur.order], cur.update)
    BY <1>1 DEF TrueUpdates
  <2>2. /\ ApplyOrder(cur.order, cur.update) /\ UNCHANGED <<view, toClient, srvOut>>
        /\ phase' = IF cur.n = 0 THEN "idle" ELSE "record"
        /\ cur' = IF cur.n = 0 THEN NoUpdate ELSE cur
    BY <1>3 DEF Apply, server
  <2>3. StateTypeOK' /\ FileTrue'
    BY <1>1, <2>1, <2>2, ApplyOrderTruth
  <2>4. CurTrue'
    BY <1>1, <2>1, <2>2 DEF CurTrue
  <2>5. MessagesTrue' /\ ViewTrue' /\ CallsTrue'
    BY <1>1, <2>2 DEF TruthInv, MessagesTrue, ViewTrue, CallsTrue, At
  <2> QED
    BY <1>1, <2>3, <2>4, <2>5 DEF TruthInv
<1> QED
  BY <1>2, <1>3

(* The execution that is recorded is a lot of the order.                   *)
LEMMA RecordTruth ==
  ASSUME TruthInv, Record
  PROVE  TruthInv'
<1>1. /\ phase = "record" /\ cur \in TrueUpdates(venue) /\ cur.n # 0
      /\ UNCHANGED <<op, venue, view, toClient, srvOut, orders>>
      /\ phase' = "idle" /\ cur' = NoUpdate
      /\ executions' = executions \union {<<cur.order, cur.n>>}
  BY DEF Record, RecordExecution, TruthInv, CurTrue, server
<1>2. cur.order \in Orders /\ cur.n \in 1 .. Qty
  <2>1. cur.order \in Orders /\ cur.n \in 0 .. Qty
    BY <1>1 DEF TrueUpdates
  <2> QED
    BY <1>1, <2>1, OrderStateAssumption
<1>3. <<cur.order, cur.n>> \in Fills
  BY <1>2 DEF Fills
<1>4. StateTypeOK'
  BY <1>1, <1>3 DEF TruthInv, StateTypeOK
<1>5. FileTrue'
  BY <1>1 DEF TruthInv, FileTrue
<1>6. MessagesTrue' /\ ViewTrue' /\ CurTrue' /\ CallsTrue'
  BY <1>1 DEF TruthInv, MessagesTrue, ViewTrue, CurTrue, CallsTrue, At
<1> QED
  BY <1>1, <1>4, <1>5, <1>6 DEF TruthInv

(* OnReconnect reads what is true, and repairs the file with it.           *)
LEMMA ReconcileTruth ==
  ASSUME TruthInv, ReconcileReads \/ ReconcileRepairs
  PROVE  TruthInv'
<1>1. CASE ReconcileReads
  <2>1. UNCHANGED <<stateVars, venue, op>>
    BY <1>1 DEF ReconcileReads, RunRest
  <2>2. CASE Ends("backoff")
    BY <2>1, <2>2, EndsTruth
  <2>3. CASE /\ phase' = "repair" /\ UNCHANGED <<cur, toClient, srvOut>>
             /\ view' = [o \in Orders |-> IF venue[o].status = "none" THEN NoOrder
                                          ELSE venue[o]]
    <3>1. ASSUME NEW o \in Orders, venue[o].status # "none"
          PROVE  venue[o] \in TrueViews(venue, o) /\ venue[o] \in OrderRecords
      <4>1. venue[o] \in VenueOrders /\ Qty \in Nat
        BY OrderStateAssumption DEF TruthInv
      <4>2. venue[o] \in OrderRecords
        BY <3>1, <4>1 DEF VenueOrders, OrderRecords, OrderStatuses, Open, Done
      <4> QED
        BY <4>1, <4>2, StandsStill DEF TruthInv, Lasts, TrueViews, Tells, Within
    <3>2. ViewTrue'
      BY <2>1, <2>3, <3>1 DEF ViewTrue
    <3>3. CurTrue' /\ MessagesTrue'
      BY <2>1, <2>3 DEF TruthInv, CurTrue, MessagesTrue
    <3>4. StateTypeOK' /\ FileTrue' /\ CallsTrue'
      BY <2>1 DEF TruthInv, StateTypeOK, FileTrue, CallsTrue, At, stateVars
    <3> QED
      BY <2>1, <3>2, <3>3, <3>4 DEF TruthInv
  <2> QED
    BY <1>1, <2>2, <2>3 DEF ReconcileReads, server
<1>2. CASE ReconcileRepairs
  <2>1. /\ UNCHANGED <<venue, op, cur, toClient, srvOut>> /\ phase' = "idle"
        /\ view' = [o \in Orders |-> NoOrder]
        /\ orders' = [o \in Orders |->
             IF view[o] # NoOrder /\ CanApplyOrder(o, view[o])
               THEN mergeOrder(Current(o), view[o]) ELSE orders[o]]
        /\ executions' \subseteq executions \union Fills
    BY <1>2 DEF ReconcileRepairs, server
  <2>2. ASSUME NEW o \in Orders, view[o] # NoOrder
        PROVE  mergeOrder(Current(o), view[o]) = view[o] /\ view[o] \in TrueViews(venue, o)
    <3>1. view[o] \in OrderRecords /\ view[o] \in TrueViews(venue, o)
      BY <2>2 DEF TruthInv, ViewTrue
    <3>2. view[o].cum # NoCum
      BY <3>1, OrderStateAssumption DEF OrderRecords
    <3> QED
      BY <3>1, <3>2 DEF mergeOrder, OrderRecords
  <2>3. StateTypeOK'
    BY <2>1, <2>2 DEF TruthInv, StateTypeOK, ViewTrue
  <2>4. FileTrue'
    BY <2>1, <2>2 DEF TruthInv, FileTrue
  <2>5. CurTrue' /\ MessagesTrue' /\ ViewTrue' /\ CallsTrue'
    BY <2>1 DEF TruthInv, CurTrue, MessagesTrue, ViewTrue, CallsTrue, At
  <2> QED
    BY <2>1, <2>3, <2>4, <2>5 DEF TruthInv
<1> QED
  BY <1>1, <1>2

(* The callers write PendingSubmit and PendingCancel, never a final status,*)
(* with a quantity that the file had.                                      *)
LEMMA CallerTruth ==
  ASSUME TruthInv, NEW o \in Orders, CallerStep(o)
  PROVE  TruthInv'
<1>0. ASSUME UNCHANGED <<venue, srvOut, toClient, phase, cur, view>>,
             StateTypeOK' /\ FileTrue', op' \in [Callers -> Callings], CallsTrue'
      PROVE  TruthInv'
  <2>1. MessagesTrue' /\ ViewTrue' /\ CurTrue'
    BY <1>0 DEF TruthInv, MessagesTrue, ViewTrue, CurTrue
  <2> QED
    BY <1>0, <2>1 DEF TruthInv
<1>1. ASSUME UNCHANGED stateVars, venue' = venue
      PROVE  StateTypeOK' /\ FileTrue'
  BY <1>1 DEF TruthInv, StateTypeOK, FileTrue, stateVars
<1>2. ASSUME NEW kind \in Kinds, NEW at \in Steps \ {"mark"}, Goes(kind, o, at)
      PROVE  op' \in [Callers -> Callings] /\ (venue' = venue => CallsTrue')
  <2>1. [Nowhere EXCEPT !.at = at] \in Callings /\ [Nowhere EXCEPT !.at = at].at # "mark"
    BY DEF Nowhere, Callings
  <2>2. op' = [op EXCEPT ![<<kind, o>>] = [Nowhere EXCEPT !.at = at]]
    BY <1>2 DEF Goes
  <2> DEFINE c == [Nowhere EXCEPT !.at = at]
  <2> HIDE DEF c
  <2>3. op' \in [Callers -> Callings]
    BY <2>1, <2>2 DEF TruthInv, c
  <2>4. \A p \in Orders : op'[<<"cancel", p>>].at = "mark" => op'[<<"cancel", p>>] = op[<<"cancel", p>>]
    BY <2>1, <2>2 DEF TruthInv, Callers, Kinds, c
  <2> QED
    BY <2>3, <2>4 DEF TruthInv, CallsTrue, At
<1>3. {"place", "cancel", "amend"} = Kinds /\ {"idle", "send", "uncertain", "append", "done"}
        = Steps \ {"mark"}
  BY DEF Kinds, Steps
<1>4. ASSUME NEW u \in {PendingSubmit}, ApplyOrder(o, u), venue' = venue
      PROVE  StateTypeOK' /\ FileTrue'
  <2>1. u \in OrderUpdates /\ Tells(venue[o], u)
    BY DEF PendingSubmit, OrderUpdates, OrderStatuses, Tells, Reached, Within, Done
  <2> QED
    BY <1>4, <2>1, ApplyOrderTruth
<1>5. ASSUME CallRest
      PROVE  UNCHANGED <<venue, srvOut, toClient, phase, cur, view>>
  BY <1>5 DEF CallRest, loop, server
<1>6. CASE PlacePersist(o)
  BY <1>0, <1>2, <1>3, <1>4, <1>5, <1>6 DEF PlacePersist
<1>7. CASE PlaceUncertain(o)
  BY <1>0, <1>1, <1>2, <1>3, <1>4, <1>5, <1>7 DEF PlaceUncertain
<1>8. CASE CancelReads(o)
  <2>1. orders[o] \in OrderRecords /\ <<"cancel", o>> \in Callers
    BY <1>8 DEF CancelReads, Known, TruthInv, StateTypeOK, Callers, Kinds
  <2>2. [at |-> "mark", view |-> orders[o]] \in Callings
    BY <2>1 DEF Callings, Steps
  <2>3. op' \in [Callers -> Callings]
    BY <1>8, <2>2 DEF CancelReads, TruthInv
  <2>4. UNCHANGED <<venue, srvOut, toClient, phase, cur, view>> /\ UNCHANGED stateVars
    BY <1>5, <1>8 DEF CancelReads
  <2>5. Within(venue[o], orders[o].cum)
    BY <1>8 DEF CancelReads, Known, TruthInv, FileTrue, TrueViews, Tells
  <2>6. op' = [op EXCEPT ![<<"cancel", o>>] = [at |-> "mark", view |-> orders[o]]]
    BY <1>8 DEF CancelReads
  <2>7. CallsTrue'
    <3> SUFFICES ASSUME NEW p \in Orders, op'[<<"cancel", p>>].at = "mark"
                 PROVE  Within(venue[p], op'[<<"cancel", p>>].view.cum)
      BY <2>4 DEF CallsTrue, At
    <3>1. CASE p = o
      BY <2>1, <2>5, <2>6, <3>1 DEF TruthInv
    <3>2. CASE p # o
      BY <2>6, <3>2 DEF TruthInv, CallsTrue, At
    <3> QED
      BY <3>1, <3>2
  <2> QED
    BY <1>0, <1>1, <2>3, <2>4, <2>7
<1>9. CASE CancelMarks(o)
  <2> DEFINE u == [status |-> "PendingCancel", cum |-> op[<<"cancel", o>>].view.cum]
  <2>1. <<"cancel", o>> \in Callers
    BY DEF Callers, Kinds
  <2>2. op[<<"cancel", o>>].view \in OrderRecords
    BY <1>9, <2>1 DEF CancelMarks, At, TruthInv, Callings
  <2>3. u \in OrderUpdates /\ Tells(venue[o], u)
    BY <1>9, <2>2 DEF CancelMarks, TruthInv, CallsTrue, OrderRecords, OrderUpdates,
         OrderStatuses, Tells, Reached, Done
  <2>4. \/ ApplyOrder(o, u) /\ Goes("cancel", o, "append")
        \/ Goes("cancel", o, "done") /\ UNCHANGED stateVars
    BY <1>9 DEF CancelMarks
  <2>5. UNCHANGED <<venue, srvOut, toClient, phase, cur, view>>
    BY <1>5, <1>9 DEF CancelMarks
  <2> HIDE DEF u
  <2>6. op' \in [Callers -> Callings] /\ CallsTrue'
    BY <1>2, <1>3, <2>4, <2>5
  <2>7. StateTypeOK' /\ FileTrue'
    BY <1>1, <2>3, <2>4, <2>5, ApplyOrderTruth
  <2> QED
    BY <1>0, <2>5, <2>6, <2>7
<1>10. CASE CancelQueues(o) \/ AmendQueues(o)
  BY <1>0, <1>1, <1>2, <1>3, <1>5, <1>10 DEF CancelQueues, AmendQueues
<1>11. ASSUME NEW kind \in Kinds, SendApplication(kind, o)
       PROVE  TruthInv'
  <2>1. UNCHANGED <<stateVars, venue, srvOut, toClient, phase, cur, view>>
    BY <1>11 DEF SendApplication, loop
  <2>2. \E at \in Steps \ {"mark"} : Goes(kind, o, at)
    BY <1>3, <1>11 DEF SendApplication
  <2> QED
    BY <1>0, <1>1, <1>2, <2>1, <2>2
<1> QED
  BY <1>6, <1>7, <1>8, <1>9, <1>10, <1>11 DEF CallerStep

-----------------------------------------------------------------------------
(* The other variables.                                                    *)

Flags == {again, loggedOn, probe, srvOn} \subseteq BOOLEAN

Counts == inSeq \in Nat \ {0} /\ quiet \in 0 .. 3 /\ faults \in 0 .. MaxFaults

ListsOK == pendingCancel \in Seq(Orders) /\ pendingAmend \in Seq(Orders)

RestInv == Flags /\ Counts /\ ListsOK /\ late \subseteq Requests

(* The faults are bounded.                                                 *)
LEMMA FixConstants == MaxFaults \in Nat
BY FixLimits

(* What each action does to them, where Emit and the ends of a connection  *)
(* are a fault more, or flags reset.                                       *)
LEMMA EndsRest ==
  ASSUME RestInv, NEW next, Ends(next)
  PROVE  Flags' /\ quiet' \in 0 .. 3 /\ late' \subseteq Requests
<1>1. /\ again' = TRUE /\ loggedOn' = FALSE /\ probe' = FALSE /\ srvOn' = FALSE
      /\ quiet' = 0 /\ late' = late \union InFlight
  BY DEF Ends
<1>2. Flags'
  BY <1>1 DEF Flags
<1>3. InFlight \subseteq Requests
  BY DEF InFlight
<1> QED
  BY <1>1, <1>2, <1>3 DEF RestInv

(* Sending is at most one fault more.                                      *)
LEMMA EmitRest ==
  ASSUME RestInv, NEW s, Emit(s)
  PROVE  faults' \in 0 .. MaxFaults
BY FixConstants DEF Emit, RestInv, Counts

(* The Run loop keeps the types of the other variables.                    *)
LEMMA RunRestInv ==
  ASSUME RestInv, Backoff \/ Dial \/ Logon \/ ReadFails \/ ContextDone \/ Tick
  PROVE  RestInv'
<1>1. ListsOK'
  BY DEF Backoff, Dial, Logon, ReadFails, ContextDone, Tick, RunRest, lists, RestInv, ListsOK
<1>2. inSeq' \in Nat \ {0}
  BY DEF Backoff, Dial, Logon, ReadFails, ContextDone, Tick, RestInv, Counts
<1>3. faults' \in 0 .. MaxFaults
  BY FixConstants DEF Backoff, Dial, Logon, ReadFails, ContextDone, Tick, RestInv, Counts
<1>4. CASE \E next : Ends(next)
  BY <1>1, <1>2, <1>3, <1>4, EndsRest DEF RestInv, Counts
<1>5. CASE /\ UNCHANGED <<loggedOn, quiet, srvOn, late>> /\ again' \in BOOLEAN
           /\ probe' \in BOOLEAN
  BY <1>1, <1>2, <1>3, <1>5 DEF RestInv, Counts, Flags
<1>6. again \in BOOLEAN /\ probe \in BOOLEAN
  BY DEF RestInv, Flags
<1>7. CASE Backoff \/ Logon \/ ReadFails \/ ContextDone
  BY <1>4, <1>5, <1>6, <1>7 DEF Backoff, Logon, ReadFails, ContextDone, server
<1>8. CASE Dial
  BY <1>5, <1>6, <1>8 DEF Dial, server
<1>9. CASE Tick
  <2>1. ASSUME NEW type, TickSends(type)
        PROVE  RestInv'
    <3>1. CASE probe' = (probe \/ type = "1") /\ UNCHANGED <<again, loggedOn, quiet, srvOn, late>>
      BY <1>5, <1>6, <3>1
    <3> QED
      BY <1>4, <2>1, <3>1 DEF TickSends, LoopSends, server
  <2> QED
    BY <1>4, <1>9, <2>1 DEF Tick
<1> QED
  BY <1>7, <1>8, <1>9

(* So does a message that is read, which may answer a pending request.     *)
LEMMA ReceiveRest ==
  ASSUME RestInv, Receive
  PROVE  RestInv'
<1> DEFINE m == Head(toClient)
<1>1. inSeq' \in Nat \ {0} /\ faults' \in 0 .. MaxFaults
  BY DEF Receive, RestInv, Counts
<1>2. CASE (\E next : Ends(next)) /\ ListsOK'
  BY <1>1, <1>2, EndsRest DEF RestInv, Counts
<1>3. CASE /\ ListsOK' /\ quiet' = 0 /\ UNCHANGED <<again, srvOn, late>>
           /\ loggedOn' \in BOOLEAN /\ probe' \in BOOLEAN
  BY <1>1, <1>3 DEF RestInv, Counts, Flags
<1>4. loggedOn \in BOOLEAN /\ probe \in BOOLEAN /\ ListsOK
  BY DEF RestInv, Flags
<1>5. UNCHANGED lists => ListsOK'
  BY <1>4 DEF lists, ListsOK
<1>6. CASE HandleReport(m)
  BY <1>3, <1>4, <1>5, <1>6 DEF HandleReport, Handling, server
<1>7. CASE HandleAck(m)
  <2>1. ASSUME NEW list \in Seq(Orders)
        PROVE  PopPending(list) \in Seq(Orders)
    BY HeadTailProperties, EmptySeq DEF PopPending
  <2>2. ListsOK'
    BY <1>4, <1>7, <2>1 DEF HandleAck, ListsOK
  <2> QED
    BY <1>2, <1>3, <1>4, <1>7, <2>2 DEF HandleAck, Handling, server
<1>8. CASE HandleSession(m) /\ UNCHANGED lists
  <2>1. CASE HandleLogon(m)
    BY <1>3, <1>4, <1>5, <1>8, <2>1 DEF HandleLogon, Stay, Here, server
  <2>2. CASE Stay([Here EXCEPT !.probe = FALSE])
    BY <1>3, <1>4, <1>5, <1>8, <2>2 DEF Stay, Here, server
  <2>3. CASE LoopSends("0", Stay(Here))
    BY <1>2, <1>3, <1>4, <1>5, <1>8, <2>3 DEF LoopSends, Stay, Here, server
  <2> QED
    BY <1>2, <1>5, <1>8, <2>1, <2>2, <2>3 DEF HandleSession
<1> QED
  BY <1>2, <1>5, <1>6, <1>7, <1>8 DEF Receive

(* So do the handlers and OnReconnect.                                     *)
LEMMA WorkRest ==
  ASSUME RestInv, Apply \/ Record \/ ReconcileReads \/ ReconcileRepairs
  PROVE  RestInv'
<1>1. ListsOK' /\ inSeq' \in Nat \ {0}
  BY DEF Apply, Record, ReconcileReads, ReconcileRepairs, RunRest, lists, RestInv, ListsOK,
         Counts
<1>2. faults' \in 0 .. MaxFaults
  BY FixConstants DEF Apply, Record, ReconcileReads, ReconcileRepairs, RestInv, Counts
<1>3. CASE \E next : Ends(next)
  BY <1>1, <1>2, <1>3, EndsRest DEF RestInv, Counts
<1>4. CASE UNCHANGED <<again, probe, quiet, srvOn, late>> /\ loggedOn' \in BOOLEAN
  BY <1>1, <1>2, <1>4 DEF RestInv, Counts, Flags
<1>5. loggedOn \in BOOLEAN
  BY DEF RestInv, Flags
<1> QED
  BY <1>3, <1>4, <1>5 DEF Apply, Record, ReconcileReads, ReconcileRepairs, server

(* So do the callers, which queue requests and send them.                  *)
LEMMA CallerRest ==
  ASSUME RestInv, NEW o \in Orders, CallerStep(o)
  PROVE  RestInv'
<1>1. ASSUME ListsOK', late' \subseteq Requests,
             UNCHANGED <<again, loggedOn, probe, srvOn, inSeq, quiet, faults>>
      PROVE  RestInv'
  BY <1>1 DEF RestInv, Counts, Flags
<1>2. ASSUME CallRest
      PROVE  UNCHANGED <<again, loggedOn, probe, srvOn, inSeq, quiet, faults, late>>
  BY <1>2 DEF CallRest, loop, server
<1>3. ListsOK /\ late \subseteq Requests /\ (UNCHANGED lists => ListsOK')
  BY DEF RestInv, ListsOK, lists
<1>4. CASE PlacePersist(o) \/ PlaceUncertain(o) \/ CancelReads(o) \/ CancelMarks(o)
  BY <1>1, <1>2, <1>3, <1>4 DEF PlacePersist, PlaceUncertain, CancelReads, CancelMarks
<1>5. CASE CancelQueues(o) \/ AmendQueues(o)
  <2>1. ASSUME NEW list \in Seq(Orders)
        PROVE  Append(list, o) \in Seq(Orders)
    BY AppendProperties
  <2>2. ListsOK'
    BY <1>3, <1>5, <2>1 DEF CancelQueues, AmendQueues, ListsOK
  <2> QED
    BY <1>1, <1>2, <1>3, <1>5, <2>2 DEF CancelQueues, AmendQueues
<1>6. ASSUME NEW kind \in Kinds, SendApplication(kind, o)
      PROVE  RestInv'
  <2>1. [type |-> RequestType(kind), order |-> o] \in Requests
    BY DEF RequestType, Kinds, Requests
  <2>2. late' \subseteq Requests
    BY <1>3, <1>6, <2>1 DEF SendApplication
  <2>3. UNCHANGED <<again, loggedOn, probe, srvOn, inSeq, quiet, faults, lists>>
    BY <1>6 DEF SendApplication, loop
  <2> QED
    BY <1>1, <1>3, <2>2, <2>3
<1> QED
  BY <1>4, <1>5, <1>6 DEF CallerStep

(* So do the server, the venue and the connection.                         *)
LEMMA ServerRest ==
  ASSUME RestInv, \/ ServerStep \/ ServerTakesLate \/ ServerSpeaks \/ Breaks \/ Silence
                  \/ \E o \in Orders : VenueFills(o)
  PROVE  RestInv'
<1>1. ASSUME faults' \in 0 .. MaxFaults, late' \subseteq Requests, srvOn' \in BOOLEAN,
             quiet' \in 0 .. 3, UNCHANGED <<again, loggedOn, probe, inSeq, lists>>
      PROVE  RestInv'
  BY <1>1 DEF RestInv, Flags, Counts, ListsOK, lists
<1>2. ASSUME VenueRest
      PROVE  UNCHANGED <<again, loggedOn, probe, inSeq, lists, quiet>>
  BY <1>2 DEF VenueRest, loop
<1>3. late \subseteq Requests /\ srvOn \in BOOLEAN /\ quiet \in 0 .. 3
        /\ faults \in 0 .. MaxFaults
  BY DEF RestInv, Flags, Counts
<1>4. ASSUME NEW request, CarryOut(request)
      PROVE  faults' \in 0 .. MaxFaults
  BY <1>4, EmitRest DEF CarryOut, Carries
<1>5. CASE ServerTakesRequest
  BY <1>1, <1>2, <1>3, <1>4, <1>5 DEF ServerTakesRequest
<1>6. CASE ServerTakesAdmin
  <2>1. faults' \in 0 .. MaxFaults
    BY <1>3, <1>6, EmitRest DEF ServerTakesAdmin
  <2>2. srvOn' \in BOOLEAN
    BY <1>3, <1>6 DEF ServerTakesAdmin
  <2> QED
    BY <1>1, <1>2, <1>3, <1>6, <2>1, <2>2 DEF ServerTakesAdmin
<1>7. CASE ServerTakesLate
  BY <1>1, <1>2, <1>3, <1>4, <1>7 DEF ServerTakesLate
<1>8. CASE ServerSpeaks
  <2>1. faults' \in 0 .. MaxFaults
    BY <1>3, <1>8, EmitRest, FixConstants DEF ServerSpeaks
  <2> QED
    BY <1>1, <1>2, <1>3, <1>8, <2>1 DEF ServerSpeaks
<1>9. CASE \E o \in Orders : VenueFills(o)
  BY <1>1, <1>2, <1>3, <1>9, EmitRest DEF VenueFills
<1>10. CASE Breaks
  <2>1. /\ faults < MaxFaults /\ faults' = faults + 1 /\ srvOn' = FALSE
        /\ late' = late \union InFlight
        /\ UNCHANGED <<again, loggedOn, probe, inSeq, lists, quiet>>
    BY <1>10 DEF Breaks, loop
  <2>2. InFlight \subseteq Requests
    BY DEF InFlight
  <2>3. faults' \in 0 .. MaxFaults /\ late' \subseteq Requests
    BY <1>3, <2>1, <2>2, FixConstants
  <2> QED
    BY <1>1, <1>3, <2>1, <2>3
<1>11. CASE Silence
  BY <1>1, <1>3, <1>11, FixConstants DEF Silence, server
<1> QED
  BY <1>5, <1>6, <1>7, <1>8, <1>9, <1>10, <1>11 DEF ServerStep

-----------------------------------------------------------------------------
(* Every copy of a final status is the venue's, in every state.            *)
THEOREM FixInvHolds == Spec => [](TruthInv /\ RestInv)
<1>1. Init => TruthInv /\ RestInv
  <2> SUFFICES ASSUME Init PROVE TruthInv /\ RestInv
    OBVIOUS
  <2>1. Qty \in Nat \ {0} /\ MaxFaults \in Nat
    BY OrderStateAssumption, FixConstants
  <2>2. StateTypeOK /\ FileTrue
    BY DEF Init, StateInit, StateTypeOK, FileTrue
  <2>3. venue \in [Orders -> VenueOrders]
    BY <2>1 DEF Init, VenueOrders, Open
  <2>4. op \in [Callers -> Callings] /\ CallsTrue
    <3>1. Nowhere \in Callings /\ Nowhere.at # "mark"
      BY DEF Callings, Nowhere, Steps
    <3> QED
      BY <3>1 DEF Init, CallsTrue, At, Callers, Kinds
  <2> DEFINE T == TrueMessages(venue)
  <2>5. <<>> \in Seq(T) /\ <<>> \in Seq(Orders)
    OBVIOUS
  <2>6. MessagesTrue
    BY <2>5 DEF Init, MessagesTrue
  <2>7. CurTrue /\ ViewTrue
    BY DEF Init, CurTrue, ViewTrue
  <2>8. again = FALSE /\ loggedOn = FALSE /\ probe = FALSE /\ srvOn = FALSE
    BY DEF Init
  <2>9. Flags
    BY <2>8 DEF Flags
  <2>10. Counts /\ ListsOK /\ late \subseteq Requests
    BY <2>1, <2>5 DEF Init, Counts, ListsOK
  <2> QED
    BY <2>2, <2>3, <2>4, <2>6, <2>7, <2>9, <2>10 DEF TruthInv, RestInv
<1>2. TruthInv /\ RestInv /\ [Next]_vars => TruthInv' /\ RestInv'
  <2> SUFFICES ASSUME TruthInv, RestInv, [Next]_vars PROVE TruthInv' /\ RestInv'
    OBVIOUS
  <2>1. CASE UNCHANGED vars
    <3>1. TruthInv'
      BY <2>1, TruthFrame DEF vars, loop, server, truthVars
    <3>2. RestInv'
      BY <2>1 DEF vars, loop, server, lists, RestInv, Flags, Counts, ListsOK
    <3> QED
      BY <3>1, <3>2
  <2>2. CASE SessionStep \/ Tick \/ ContextDone
    BY <2>2, RunTruth, ReceiveTruth, ApplyTruth, RecordTruth, ReconcileTruth,
       RunRestInv, ReceiveRest, WorkRest DEF SessionStep
  <2>3. CASE \E o \in Orders : CallerStep(o)
    BY <2>3, CallerTruth, CallerRest
  <2>4. CASE \/ ServerStep \/ ServerTakesLate \/ ServerSpeaks \/ Breaks \/ Silence
             \/ \E o \in Orders : VenueFills(o)
    <3>1. late \subseteq Requests
      BY DEF RestInv
    <3> QED
      BY <2>4, <3>1, ServerTruth, ServerRest
  <2> QED
    BY <2>1, <2>2, <2>3, <2>4 DEF Next
<1> QED
  BY <1>1, <1>2, PTL DEF Spec

(* The types of the session, the router and the connection.                *)
THEOREM FixTypeCorrect == Spec => []TypeOK
<1>1. LinkInv /\ TruthInv /\ RestInv => TypeOK
  <2> SUFFICES ASSUME LinkInv, TruthInv, RestInv PROVE TypeOK
    OBVIOUS
  <2>1. {again, active, loggedOn, probe, srvOn} \subseteq BOOLEAN
    BY DEF RestInv, Flags, LinkInv, LinkTypes
  <2>2. {outSeq, inSeq, srvIn, srvOut} \subseteq Nat \ {0}
    BY DEF LinkInv, LinkTypes, RestInv, Counts, TruthInv, MessagesTrue
  <2>3. cur = NoUpdate \/ (cur.order \in Orders /\ cur.update \in OrderUpdates)
    BY DEF TruthInv, CurTrue, TrueUpdates
  <2>4. \A c \in Callers : op[c].view \in OrderRecords \union {NoOrder}
    BY DEF TruthInv, Callings
  <2>5. /\ run \in {"dial", "logon", "up", "backoff", "stopped"}
        /\ link \in {"up", "broken", "down"}
    BY DEF LinkInv, LinkTypes
  <2>6. phase \in {"idle", "apply", "record", "reconcile", "repair"} /\ StateTypeOK
    BY DEF TruthInv, CurTrue
  <2>7. /\ quiet \in 0 .. 3 /\ faults \in 0 .. MaxFaults /\ late \subseteq Requests
        /\ {pendingCancel, pendingAmend} \subseteq Seq(Orders)
    BY DEF RestInv, Counts, ListsOK
  <2> QED
    BY <2>1, <2>2, <2>3, <2>4, <2>5, <2>6, <2>7 DEF TypeOK
<1> QED
  BY <1>1, LinkInvHolds, FixInvHolds, PTL

(* FinalIsTrue: a final status in the file is the venue's, whatever stale  *)
(* copies markPendingCancel and the handlers of refusals write back, and   *)
(* whatever OnReconnect repairs with what it read before.                  *)
THEOREM FinalStatusesAreTheVenues == Spec => []FinalIsTrue
<1>1. TruthInv => FinalIsTrue
  BY DEF TruthInv, FileTrue, FinalIsTrue, Known, TrueViews, Tells, Reached
<1> QED
  BY <1>1, FixInvHolds, PTL

-----------------------------------------------------------------------------
(* Nothing is missed.  While the session is watching an open connection    *)
(* whose inbound numbers have no gap, the last report on the way about an  *)
(* order is what the venue has; without one the file has it, or is about   *)
(* to.  A gap ends the session when it is reached.                         *)

Gap(s, n) == \E i \in DOMAIN s : s[i].seq # n + i - 1

Reports(s, o) == {i \in DOMAIN s : s[i].type = "8" /\ s[i].order = o}

(* A rejection says nothing of the quantity, and nothing was filled.       *)
Matches(u, r) ==
  u.status = r.status /\ (u.cum = r.cum \/ (u.cum = NoCum /\ r.cum = 0))

(* The last report of s about o says r.                                    *)
Says(s, o, r) ==
  \E i \in Reports(s, o) : (\A j \in Reports(s, o) : j <= i) /\ Matches(s[i], r)

Watching ==
  /\ run = "up" /\ link = "up"
  /\ loggedOn \/ ~again \/ phase \in {"reconcile", "repair"}

(* The server numbers on from what the client expects and what is between. *)
InboundFollows == link = "up" => Gap(toClient, inSeq) \/ srvOut = inSeq + Len(toClient)

(* Only a server that took the logon speaks.                               *)
Served ==
  (link = "up" /\ (toClient # <<>> \/ loggedOn \/ phase \in {"reconcile", "repair"}))
    => srvOn

(* Before the session runs, nothing has come from the connection.          *)
Before ==
  /\ run # "up" => /\ toClient = <<>> /\ srvOut = 1
                   /\ ~srvOn /\ ~loggedOn /\ phase = "idle"
  /\ run = "logon" => inSeq = 1

(* No order reaches the venue before the first connection is served.       *)
Fresh ==
  (~again /\ link # "broken") =>
    late = {} /\ (~srvOn => \A o \in Orders : venue[o].status = "none")

ServeInv == InboundFollows /\ Served /\ Before /\ Fresh

(* What may have reached the venue is on file.                             *)
Placed(o) ==
  \/ At("place", o) # "idle" \/ venue[o].status # "none"
  \/ [type |-> "D", order |-> o] \in late
  \/ \E i \in DOMAIN toServer : toServer[i].type = "D" /\ toServer[i].order = o

PlacedKnown == \A o \in Orders : Placed(o) => o \in Known

LastSays ==
  (link = "up" /\ ~Gap(toClient, inSeq)) =>
    \A o \in Orders : Reports(toClient, o) = {} \/ Says(toClient, o, venue[o])

(* Applying u to r is refused, is a cancel's doing, or changes nothing.    *)
Harmless(r, u) ==
  ValidateTransition(r.status, u.status) =>
    u.status \in {"PendingCancel", "RejectedCancel"} \/ mergeOrder(r, u) = r

Settled(o) ==
  /\ orders[o].status \in {"PendingCancel", "RejectedCancel"} \/ orders[o] = venue[o]
  /\ (phase = "apply" /\ cur.order = o) => Harmless(orders[o], cur.update)

OrderCovered(o) ==
  \/ phase = "reconcile"
  \/ phase = "repair" /\ view[o] = venue[o]
  \/ phase = "apply" /\ cur.order = o /\ Matches(cur.update, venue[o])
  \/ phase # "repair" /\ Settled(o)

OrdersCovered ==
  (Watching /\ ~Gap(toClient, inSeq)) =>
    \A o \in Orders :
      (venue[o].status # "none" /\ Reports(toClient, o) = {}) => OrderCovered(o)

FillCovered(o, n) ==
  \/ <<o, n>> \in executions \/ phase = "reconcile"
  \/ phase = "repair" /\ view[o] # NoOrder /\ n <= view[o].cum
  \/ phase \in {"apply", "record"} /\ cur.order = o /\ cur.n = n
  \/ \E i \in Reports(toClient, o) : toClient[i].n = n

FillsCovered ==
  (Watching /\ ~Gap(toClient, inSeq)) =>
    \A o \in Orders : \A n \in 1 .. Qty : n <= venue[o].cum => FillCovered(o, n)

CoverInv == LastSays /\ OrdersCovered /\ FillsCovered

FixInv == LinkInv /\ TruthInv /\ RestInv

WatchInv == ServeInv /\ PlacedKnown /\ CoverInv

-----------------------------------------------------------------------------
(* Sequences of messages.                                                  *)

(* What is sent behind others: their reports stay, and it has the last     *)
(* word where it has one.                                                  *)
LEMMA Behind ==
  ASSUME NEW s \in Seq(FromVenue), NEW t \in Seq(FromVenue), NEW o, NEW r
  PROVE  /\ \A i \in Reports(s, o) : i \in Reports(s \o t, o) /\ (s \o t)[i] = s[i]
         /\ \A i \in Reports(t, o) :
              Len(s) + i \in Reports(s \o t, o) /\ (s \o t)[Len(s) + i] = t[i]
         /\ Reports(s \o t, o) = {} <=> Reports(s, o) = {} /\ Reports(t, o) = {}
         /\ Says(t, o, r) => Says(s \o t, o, r)
         /\ (Reports(t, o) = {} /\ Says(s, o, r)) => Says(s \o t, o, r)
<1> DEFINE u == s \o t
<1>1. /\ u \in Seq(FromVenue) /\ Len(u) = Len(s) + Len(t)
      /\ Len(s) \in Nat /\ Len(t) \in Nat
      /\ DOMAIN s = 1 .. Len(s) /\ DOMAIN t = 1 .. Len(t) /\ DOMAIN u = 1 .. Len(u)
      /\ \A i \in 1 .. Len(s) + Len(t) :
           u[i] = IF i <= Len(s) THEN s[i] ELSE t[i - Len(s)]
  BY ConcatProperties, LenProperties
<1> HIDE DEF u
<1>2. \A i \in DOMAIN s : i \in DOMAIN u /\ u[i] = s[i]
  BY <1>1
<1>3. \A i \in DOMAIN t : Len(s) + i \in DOMAIN u /\ u[Len(s) + i] = t[i]
  BY <1>1
<1>4. \A j \in DOMAIN u :
        \/ j \in DOMAIN s /\ u[j] = s[j] /\ j <= Len(s)
        \/ /\ j - Len(s) \in DOMAIN t /\ u[j] = t[j - Len(s)]
           /\ j = Len(s) + (j - Len(s)) /\ j > Len(s)
  BY <1>1
<1>5. \A i \in Reports(s, o) : i \in Reports(u, o) /\ u[i] = s[i]
  BY <1>2 DEF Reports
<1>6. \A i \in Reports(t, o) : Len(s) + i \in Reports(u, o) /\ u[Len(s) + i] = t[i]
  BY <1>3 DEF Reports
<1>7. \A j \in Reports(u, o) :
        \/ j \in Reports(s, o)
        \/ j - Len(s) \in Reports(t, o)
  BY <1>4 DEF Reports
<1>8. Reports(u, o) = {} <=> Reports(s, o) = {} /\ Reports(t, o) = {}
  BY <1>5, <1>6, <1>7
<1>9. ASSUME Says(t, o, r)
      PROVE  Says(u, o, r)
  <2>1. PICK i \in Reports(t, o) : (\A j \in Reports(t, o) : j <= i) /\ Matches(t[i], r)
    BY <1>9 DEF Says
  <2>2. i \in 1 .. Len(t)
    BY <1>1 DEF Reports
  <2>3. ASSUME NEW j \in Reports(u, o)
        PROVE  j <= Len(s) + i
    <3>1. j \in 1 .. Len(u)
      BY <1>1 DEF Reports
    <3>2. CASE j \in Reports(s, o)
      BY <1>1, <2>2, <3>2 DEF Reports
    <3>3. CASE j - Len(s) \in Reports(t, o)
      <4>1. j - Len(s) <= i
        BY <2>1, <3>3
      <4> QED
        BY <1>1, <2>2, <3>1, <4>1
    <3> QED
      BY <1>7, <3>2, <3>3
  <2> QED
    BY <1>6, <2>1, <2>3 DEF Says
<1>10. ASSUME Reports(t, o) = {}, Says(s, o, r)
       PROVE  Says(u, o, r)
  <2>1. \A j \in Reports(u, o) : j \in Reports(s, o)
    BY <1>7, <1>10
  <2> QED
    BY <1>5, <1>10, <2>1 DEF Says
<1> QED
  BY <1>5, <1>6, <1>8, <1>9, <1>10 DEF u

(* What is left when the first message is taken.                           *)
LEMMA Taken ==
  ASSUME NEW s \in Seq(FromVenue), s # <<>>, NEW o, NEW r, NEW n \in Nat
  PROVE  /\ Tail(s) \in Seq(FromVenue) /\ Head(s) \in FromVenue
         /\ Len(Tail(s)) = Len(s) - 1
         /\ Gap(Tail(s), n + 1) => Gap(s, n)
         /\ (Head(s).seq = n /\ Gap(s, n)) => Gap(Tail(s), n + 1)
         /\ Reports(s, o) = {} => Reports(Tail(s), o) = {}
         /\ ~(Head(s).type = "8" /\ Head(s).order = o) =>
              (Reports(Tail(s), o) = {} => Reports(s, o) = {})
         /\ (Says(s, o, r) /\ Reports(Tail(s), o) # {}) => Says(Tail(s), o, r)
         /\ (Says(s, o, r) /\ Reports(Tail(s), o) = {}) => Matches(Head(s), r)
         /\ \A i \in Reports(s, o) :
              \/ s[i] = Head(s) /\ Head(s).type = "8" /\ Head(s).order = o
              \/ i - 1 \in Reports(Tail(s), o) /\ Tail(s)[i - 1] = s[i]
<1> DEFINE t == Tail(s)
<1>1. /\ t \in Seq(FromVenue) /\ Head(s) \in FromVenue /\ Len(t) = Len(s) - 1
      /\ Len(s) \in Nat /\ Len(s) >= 1
      /\ DOMAIN s = 1 .. Len(s) /\ DOMAIN t = 1 .. Len(s) - 1
      /\ Head(s) = s[1]
      /\ \A i \in 1 .. Len(s) - 1 : t[i] = s[i + 1]
  <2>1. t \in Seq(FromVenue) /\ Head(s) \in FromVenue /\ Len(t) = Len(s) - 1
    BY HeadTailProperties
  <2>2. Len(s) \in Nat /\ Len(s) >= 1 /\ DOMAIN s = 1 .. Len(s)
    BY EmptySeq, LenProperties
  <2> QED
    BY <2>1, <2>2, HeadTailProperties, LenProperties
<1> HIDE DEF t
<1>2. \A i \in DOMAIN t : i \in Nat /\ i + 1 \in DOMAIN s /\ t[i] = s[i + 1]
  BY <1>1
<1>3. \A j \in DOMAIN s : j \in Nat /\ (j = 1 \/ (j - 1 \in DOMAIN t /\ t[j - 1] = s[j]))
  <2> SUFFICES ASSUME NEW j \in DOMAIN s, j # 1
               PROVE  j \in Nat /\ j - 1 \in DOMAIN t /\ t[j - 1] = s[j]
    BY <1>1
  <2>1. j \in Nat /\ j - 1 \in 1 .. Len(s) - 1 /\ (j - 1) + 1 = j
    BY <1>1
  <2> QED
    BY <1>1, <2>1
<1>4. Gap(t, n + 1) => Gap(s, n)
  <2> SUFFICES ASSUME NEW i \in DOMAIN t, t[i].seq # (n + 1) + i - 1
               PROVE  Gap(s, n)
    BY DEF Gap
  <2>1. i + 1 \in DOMAIN s /\ s[i + 1].seq # n + (i + 1) - 1
    BY <1>2
  <2> QED
    BY <2>1 DEF Gap
<1>5. ASSUME Head(s).seq = n, Gap(s, n)
      PROVE  Gap(t, n + 1)
  <2>1. PICK j \in DOMAIN s : s[j].seq # n + j - 1
    BY <1>5 DEF Gap
  <2>2. j # 1
    BY <1>1, <1>5, <2>1
  <2>3. j - 1 \in DOMAIN t /\ t[j - 1] = s[j] /\ j \in Nat
    BY <1>3, <2>2
  <2>4. t[j - 1].seq # (n + 1) + (j - 1) - 1
    BY <2>1, <2>3
  <2> QED
    BY <2>3, <2>4 DEF Gap
<1>6. \A i \in Reports(t, o) : i + 1 \in Reports(s, o) /\ i \in Nat /\ t[i] = s[i + 1]
  BY <1>2 DEF Reports
<1>7. \A j \in Reports(s, o) :
        \/ j = 1 /\ s[j] = Head(s) /\ Head(s).type = "8" /\ Head(s).order = o
        \/ j - 1 \in Reports(t, o) /\ t[j - 1] = s[j]
  BY <1>1, <1>3 DEF Reports
<1>8. Reports(s, o) = {} => Reports(t, o) = {}
  BY <1>6
<1>9. ~(Head(s).type = "8" /\ Head(s).order = o) => (Reports(t, o) = {} => Reports(s, o) = {})
  BY <1>7
<1>10. ASSUME Says(s, o, r)
       PROVE  /\ Reports(t, o) # {} => Says(t, o, r)
              /\ Reports(t, o) = {} => Matches(Head(s), r)
  <2>1. PICK i \in Reports(s, o) : (\A j \in Reports(s, o) : j <= i) /\ Matches(s[i], r)
    BY <1>10 DEF Says
  <2>2. Reports(t, o) = {} => Matches(Head(s), r)
    BY <1>7, <2>1
  <2>3. ASSUME NEW k \in Reports(t, o)
        PROVE  Says(t, o, r)
    <3>1. k + 1 <= i /\ k \in Nat /\ i \in Nat /\ k \in DOMAIN t
      BY <1>3, <1>6, <2>1 DEF Reports
    <3>2. k >= 1
      BY <1>1, <3>1
    <3>3. i # 1
      BY <3>1, <3>2
    <3>4. i - 1 \in Reports(t, o) /\ t[i - 1] = s[i]
      BY <1>7, <3>3
    <3>5. ASSUME NEW j \in Reports(t, o)
          PROVE  j <= i - 1
      <4>1. j + 1 <= i /\ j \in Nat
        BY <1>6, <2>1
      <4> QED
        BY <3>1, <4>1
    <3> QED
      BY <2>1, <3>4, <3>5 DEF Says
  <2> QED
    BY <2>2, <2>3
<1> QED
  BY <1>1, <1>4, <1>5, <1>7, <1>8, <1>9, <1>10 DEF t

(* A number changes nothing that a message says.                           *)
LEMMA NumberedSays ==
  ASSUME NEW s \in Seq(FromVenue), srvOut \in Nat \ {0}, NEW o, NEW r
  PROVE  /\ Numbered(s) \in Seq(FromVenue) /\ Len(Numbered(s)) = Len(s)
         /\ \A i \in DOMAIN s : /\ Numbered(s)[i].seq = srvOut + i - 1
                                /\ Numbered(s)[i].n = s[i].n
         /\ Reports(Numbered(s), o) = Reports(s, o)
         /\ Says(s, o, r) => Says(Numbered(s), o, r)
<1> DEFINE t == Numbered(s)
<1>1. DOMAIN s = 1 .. Len(s) /\ Len(s) \in Nat
  BY LenProperties
<1>2. ASSUME NEW i \in DOMAIN s
      PROVE  /\ t[i] \in FromVenue /\ t[i].seq = srvOut + i - 1
             /\ t[i].n = s[i].n /\ t[i].type = s[i].type /\ t[i].order = s[i].order
             /\ t[i].status = s[i].status /\ t[i].cum = s[i].cum
  <2>1. s[i] \in FromVenue
    BY ElementOfSeq, <1>1
  <2>2. srvOut + i - 1 \in Nat
    BY <1>1
  <2>3. t[i] = [s[i] EXCEPT !.seq = srvOut + i - 1]
    BY DEF Numbered
  <2> HIDE DEF t
  <2> QED
    BY <2>1, <2>2, <2>3 DEF FromVenue
<1>3. DOMAIN t = DOMAIN s /\ t = [i \in 1 .. Len(s) |-> t[i]]
  BY <1>1 DEF Numbered
<1> HIDE DEF t
<1>4. t \in [1 .. Len(s) -> FromVenue]
  BY <1>1, <1>2, <1>3
<1>5. t \in Seq(FromVenue) /\ Len(t) = Len(s)
  BY <1>1, <1>4, SeqDef
<1>6. Reports(t, o) = Reports(s, o)
  BY <1>2, <1>3 DEF Reports
<1>7. Says(s, o, r) => Says(t, o, r)
  <2>1. \A i \in Reports(s, o) : Matches(s[i], r) => Matches(t[i], r)
    BY <1>2 DEF Reports, Matches
  <2> QED
    BY <1>6, <2>1 DEF Says
<1> QED
  BY <1>2, <1>5, <1>6, <1>7 DEF t

(* Messages behind others have no gap only if they follow them.            *)
LEMMA NoGapBehind ==
  ASSUME NEW s \in Seq(FromVenue), NEW t \in Seq(FromVenue), NEW n \in Nat,
         ~Gap(s \o t, n)
  PROVE  /\ ~Gap(s, n)
         /\ \A i \in DOMAIN t : t[i].seq = n + Len(s) + i - 1
<1>1. /\ Len(s) \in Nat /\ Len(t) \in Nat
      /\ DOMAIN s = 1 .. Len(s) /\ DOMAIN t = 1 .. Len(t)
      /\ DOMAIN (s \o t) = 1 .. Len(s) + Len(t)
      /\ \A i \in 1 .. Len(s) + Len(t) :
           (s \o t)[i] = IF i <= Len(s) THEN s[i] ELSE t[i - Len(s)]
  BY ConcatProperties, LenProperties
<1>2. \A i \in DOMAIN s : i \in DOMAIN (s \o t) /\ (s \o t)[i] = s[i]
  BY <1>1
<1>3. ~Gap(s, n)
  BY <1>2 DEF Gap
<1>4. ASSUME NEW i \in DOMAIN t
      PROVE  t[i].seq = n + Len(s) + i - 1
  <2>1. Len(s) + i \in DOMAIN (s \o t) /\ (s \o t)[Len(s) + i] = t[i] /\ i \in Nat
    BY <1>1
  <2>2. (s \o t)[Len(s) + i].seq = n + (Len(s) + i) - 1
    BY <2>1 DEF Gap
  <2> QED
    BY <1>1, <2>1, <2>2
<1> QED
  BY <1>3, <1>4

(* What is sent of a change of the venue from v to w: the last report of   *)
(* every order that changed, and one of every lot that was filled.         *)
Announces(s, v, w) ==
  \A o \in Orders :
    /\ (w[o] = v[o] /\ Reports(s, o) = {}) \/ Says(s, o, w[o])
    /\ \A n \in 1 .. Qty :
         (n <= w[o].cum /\ ~(n <= v[o].cum)) => \E i \in Reports(s, o) : s[i].n = n

(* The server sends s, as Emit does or by a fault of its own.              *)
Speaks(s) ==
  \/ Emit(s)
  \/ /\ srvOn' /\ link = "up"
     /\ toClient' = toClient \o Numbered(s) /\ srvOut' = srvOut + Len(s)

(* What that does on a connection that is served.                          *)
LEMMA EmitFollows ==
  ASSUME ServeInv, NEW s \in Seq(FromVenue), s # <<>>, srvOut \in Nat \ {0},
         toClient \in Seq(FromVenue), inSeq \in Nat, Speaks(s), srvOn', link = "up"
  PROVE  /\ toClient' \in Seq(FromVenue)
         /\ Gap(toClient', inSeq) \/ srvOut' = inSeq + Len(toClient')
         /\ ~Gap(toClient', inSeq) =>
              ~Gap(toClient, inSeq) /\ toClient' = toClient \o Numbered(s)
<1>0. Len(s) \in Nat /\ DOMAIN s = 1 .. Len(s) /\ Len(s) >= 1 /\ Len(toClient) \in Nat
  BY LenProperties, EmptySeq
<1>1. CASE toClient' = toClient \o Numbered(s) /\ srvOut' = srvOut + Len(s)
  <2>1. Numbered(s) \in Seq(FromVenue) /\ Len(Numbered(s)) = Len(s)
    BY NumberedSays
  <2>2. toClient' \in Seq(FromVenue) /\ Len(toClient') = Len(toClient) + Len(s)
    BY <1>1, <2>1, ConcatProperties
  <2>3. ~Gap(toClient', inSeq) => ~Gap(toClient, inSeq)
    <3>1. Numbered(s) \in Seq(FromVenue)
      BY <2>1
    <3> QED
      BY <1>1, <3>1, NoGapBehind
  <2>4. ~Gap(toClient, inSeq) => srvOut = inSeq + Len(toClient)
    BY DEF ServeInv, InboundFollows
  <2>5. ~Gap(toClient', inSeq) => srvOut' = inSeq + Len(toClient')
    BY <1>0, <1>1, <2>2, <2>3, <2>4
  <2> QED
    BY <1>1, <2>2, <2>3, <2>5
<1>2. CASE toClient' = toClient \o Tail(Numbered(Append(s, Session("0"))))
  <2>1. Session("0") \in FromVenue
    BY OrderStateAssumption DEF Session, FromVenue, OrderStatuses
  <2> DEFINE t == Append(s, Session("0"))
             u == Numbered(t)
  <2>2. t \in Seq(FromVenue) /\ Len(t) = Len(s) + 1
    BY <2>1, AppendProperties
  <2> HIDE DEF t
  <2>3. u \in Seq(FromVenue) /\ Len(u) = Len(s) + 1
    BY <2>2, NumberedSays
  <2>4. DOMAIN t = 1 .. Len(s) + 1
    BY <2>2, LenProperties
  <2>5. u[2].seq = srvOut + 2 - 1
    <3>1. 2 \in DOMAIN t
      BY <1>0, <2>4
    <3>2. \A i \in DOMAIN t : Numbered(t)[i].seq = srvOut + i - 1
      BY <2>2, NumberedSays
    <3> QED
      BY <3>1, <3>2
  <2> HIDE DEF u
  <2>6. u # <<>>
    BY <1>0, <2>3, EmptySeq
  <2>7. /\ Tail(u) \in Seq(FromVenue) /\ Len(Tail(u)) = Len(s)
        /\ DOMAIN Tail(u) = 1 .. Len(s) /\ Tail(u)[1] = u[2]
    <3>1. Tail(u) \in Seq(FromVenue) /\ Len(Tail(u)) = Len(u) - 1
      BY <2>3, <2>6, HeadTailProperties
    <3>2. \A i \in 1 .. Len(Tail(u)) : Tail(u)[i] = u[i + 1]
      BY <2>3, <2>6, HeadTailProperties
    <3>3. Len(Tail(u)) = Len(s)
      BY <1>0, <2>3, <3>1
    <3>4. Tail(u)[1] = u[1 + 1]
      BY <1>0, <3>2, <3>3
    <3>5. DOMAIN Tail(u) = 1 .. Len(s)
      BY <3>1, <3>3, LenProperties
    <3>6. 1 + 1 = 2
      OBVIOUS
    <3> QED
      BY <3>1, <3>3, <3>4, <3>5, <3>6
  <2>8. toClient' \in Seq(FromVenue)
    BY <1>2, <2>7, ConcatProperties DEF u, t
  <2>9. ASSUME ~Gap(toClient', inSeq)
        PROVE  FALSE
    <3>0. ~Gap(toClient \o Tail(u), inSeq) /\ 1 \in DOMAIN Tail(u)
      BY <1>0, <1>2, <2>7, <2>9 DEF u, t
    <3>1. /\ ~Gap(toClient, inSeq)
          /\ Tail(u)[1].seq = inSeq + Len(toClient) + 1 - 1
      BY <2>7, <3>0, NoGapBehind
    <3>2. srvOut = inSeq + Len(toClient)
      BY <3>1 DEF ServeInv, InboundFollows
    <3> QED
      BY <1>0, <2>5, <2>7, <3>1, <3>2
  <2> QED
    BY <2>8, <2>9
<1> QED
  BY <1>1, <1>2 DEF Speaks, Emit

-----------------------------------------------------------------------------
(* The venue and the connection.                                           *)

(* The types that the following lemmas need.                               *)
LEMMA ClientTypes ==
  ASSUME FixInv
  PROVE  /\ srvOut \in Nat \ {0} /\ inSeq \in Nat \ {0} /\ toClient \in Seq(FromVenue)
         /\ venue \in [Orders -> VenueOrders] /\ Qty \in Nat \ {0}
<1>1. toClient \in Seq(TrueMessages(venue)) /\ srvOut \in Nat \ {0}
  BY DEF FixInv, TruthInv, MessagesTrue
<1>2. TrueMessages(venue) \subseteq FromVenue
  BY DEF TrueMessages
<1>3. toClient \in Seq(FromVenue)
  BY <1>1, <1>2, SeqMonotonic
<1> QED
  BY <1>1, <1>3, OrderStateAssumption DEF FixInv, TruthInv, RestInv, Counts

coverVars == <<run, again, loggedOn, phase, cur, view, link, toClient, inSeq, orders,
               executions, venue>>

(* What leaves these variables alone misses nothing.                       *)
LEMMA CoverFrame ==
  ASSUME CoverInv, UNCHANGED coverVars
  PROVE  CoverInv'
<1>1. UNCHANGED <<run, again, loggedOn, phase, cur, view, link, toClient, inSeq, orders,
                  executions, venue>>
  BY DEF coverVars
<1>2. Watching' = Watching
  BY <1>1 DEF Watching
<1>3. \A o \in Orders : OrderCovered(o) => OrderCovered(o)'
  BY <1>1 DEF OrderCovered, Settled
<1>4. \A o \in Orders : \A n \in 1 .. Qty : FillCovered(o, n) => FillCovered(o, n)'
  BY <1>1 DEF FillCovered
<1> QED
  BY <1>1, <1>2, <1>3, <1>4 DEF CoverInv, LastSays, OrdersCovered, FillsCovered

(* A connection that is not open promises nothing.                         *)
LEMMA CoverClosed ==
  ASSUME link' # "up"
  PROVE  CoverInv' /\ InboundFollows' /\ Served'
BY DEF CoverInv, LastSays, OrdersCovered, FillsCovered, Watching, InboundFollows, Served

(* A change that is announced behind what is on the way is not missed.     *)
LEMMA EmitCovers ==
  ASSUME FixInv, WatchInv, NEW s \in Seq(FromVenue), s # <<>>, Speaks(s), srvOn',
         link = "up", Announces(s, venue, venue'),
         UNCHANGED <<run, again, loggedOn, phase, cur, view, link, inSeq, orders, executions>>
  PROVE  CoverInv' /\ InboundFollows'
<1>0. ServeInv /\ CoverInv
  BY DEF WatchInv
<1>1. /\ srvOut \in Nat \ {0} /\ inSeq \in Nat \ {0} /\ toClient \in Seq(FromVenue)
      /\ venue \in [Orders -> VenueOrders]
  BY ClientTypes
<1>2. /\ Gap(toClient', inSeq) \/ srvOut' = inSeq + Len(toClient')
      /\ ~Gap(toClient', inSeq) =>
           ~Gap(toClient, inSeq) /\ toClient' = toClient \o Numbered(s)
  BY <1>0, <1>1, EmitFollows
<1>3. InboundFollows'
  BY <1>2 DEF InboundFollows
<1>4. CASE Gap(toClient', inSeq)
  BY <1>3, <1>4 DEF CoverInv, LastSays, OrdersCovered, FillsCovered
<1>5. CASE ~Gap(toClient', inSeq)
  <2> DEFINE t == Numbered(s)
  <2>1. ~Gap(toClient, inSeq) /\ toClient' = toClient \o t
    BY <1>2, <1>5
  <2>2. /\ t \in Seq(FromVenue)
        /\ \A i \in DOMAIN s : t[i].n = s[i].n
        /\ \A o : Reports(t, o) = Reports(s, o)
        /\ \A o, r : Says(s, o, r) => Says(t, o, r)
    BY <1>1, NumberedSays
  <2> HIDE DEF t
  <2>3. \A o, r :
          /\ \A i \in Reports(toClient, o) : i \in Reports(toClient', o) /\ toClient'[i] = toClient[i]
          /\ \A i \in Reports(t, o) : \E j \in Reports(toClient', o) : toClient'[j] = t[i]
          /\ Reports(toClient', o) = {} <=> Reports(toClient, o) = {} /\ Reports(t, o) = {}
          /\ Says(t, o, r) => Says(toClient', o, r)
          /\ (Reports(t, o) = {} /\ Says(toClient, o, r)) => Says(toClient', o, r)
    <3> SUFFICES ASSUME NEW o, NEW r
                 PROVE  /\ \A i \in Reports(toClient, o) :
                             i \in Reports(toClient', o) /\ toClient'[i] = toClient[i]
                        /\ \A i \in Reports(t, o) : \E j \in Reports(toClient', o) : toClient'[j] = t[i]
                        /\ Reports(toClient', o) = {} <=>
                             Reports(toClient, o) = {} /\ Reports(t, o) = {}
                        /\ Says(t, o, r) => Says(toClient', o, r)
                        /\ (Reports(t, o) = {} /\ Says(toClient, o, r)) => Says(toClient', o, r)
      OBVIOUS
    <3>1. toClient \in Seq(FromVenue) /\ t \in Seq(FromVenue) /\ toClient' = toClient \o t
      BY <1>1, <2>1, <2>2
    <3>2. /\ \A i \in Reports(toClient, o) :
               i \in Reports(toClient \o t, o) /\ (toClient \o t)[i] = toClient[i]
          /\ \A i \in Reports(t, o) : /\ Len(toClient) + i \in Reports(toClient \o t, o)
                                     /\ (toClient \o t)[Len(toClient) + i] = t[i]
          /\ Reports(toClient \o t, o) = {} <=>
               Reports(toClient, o) = {} /\ Reports(t, o) = {}
          /\ Says(t, o, r) => Says(toClient \o t, o, r)
          /\ (Reports(t, o) = {} /\ Says(toClient, o, r)) => Says(toClient \o t, o, r)
      BY <3>1, Behind
    <3> QED
      BY <3>1, <3>2
  <2>4. LastSays'
    <3>1. ASSUME NEW o \in Orders
          PROVE  Reports(toClient', o) = {} \/ Says(toClient', o, venue'[o])
      <4>1. Reports(toClient, o) = {} \/ Says(toClient, o, venue[o])
        BY <1>0, <2>1 DEF CoverInv, LastSays
      <4>2. (venue'[o] = venue[o] /\ Reports(t, o) = {}) \/ Says(t, o, venue'[o])
        BY <2>2 DEF Announces
      <4> QED
        BY <2>3, <4>1, <4>2
    <3> QED
      BY <3>1 DEF LastSays
  <2>5. Watching' = Watching
    BY DEF Watching
  <2>6. OrdersCovered'
    <3>1. ASSUME Watching, NEW o \in Orders, venue'[o].status # "none",
                 Reports(toClient', o) = {}
          PROVE  OrderCovered(o)'
      <4>1. Reports(toClient, o) = {} /\ Reports(s, o) = {}
        BY <2>2, <2>3, <3>1
      <4>2. venue'[o] = venue[o]
        BY <4>1 DEF Announces, Says
      <4>3. OrderCovered(o)
        BY <1>0, <2>1, <3>1, <4>1, <4>2 DEF CoverInv, OrdersCovered
      <4> QED
        BY <4>2, <4>3 DEF OrderCovered, Settled
    <3> QED
      BY <2>5, <3>1 DEF OrdersCovered
  <2>7. FillsCovered'
    <3>1. ASSUME Watching, NEW o \in Orders, NEW n \in 1 .. Qty, n <= venue'[o].cum
          PROVE  FillCovered(o, n)'
      <4>1. CASE n <= venue[o].cum
        <5>1. FillCovered(o, n)
          BY <1>0, <2>1, <3>1, <4>1 DEF CoverInv, FillsCovered
        <5>2. (\E i \in Reports(toClient, o) : toClient[i].n = n)
                => \E i \in Reports(toClient', o) : toClient'[i].n = n
          BY <2>3
        <5> QED
          BY <5>1, <5>2 DEF FillCovered
      <4>2. CASE ~(n <= venue[o].cum)
        <5>1. PICK i \in Reports(s, o) : s[i].n = n
          BY <3>1, <4>2 DEF Announces
        <5>2. i \in DOMAIN s /\ i \in Reports(t, o)
          BY <2>2 DEF Reports
        <5>3. t[i].n = n
          BY <2>2, <5>1, <5>2
        <5>4. PICK j \in Reports(toClient', o) : toClient'[j] = t[i]
          BY <2>3, <5>2
        <5> QED
          BY <5>3, <5>4 DEF FillCovered
      <4> QED
        BY <4>1, <4>2
    <3> QED
      BY <2>5, <3>1 DEF FillsCovered
  <2> QED
    BY <1>3, <2>4, <2>6, <2>7 DEF CoverInv
<1> QED
  BY <1>4, <1>5

(* A server that is not logged on to says nothing; then the session is not *)
(* watching, or the venue stands still.                                    *)
LEMMA EmitWatch ==
  ASSUME FixInv, WatchInv, NEW s \in Seq(FromVenue), s # <<>>, Speaks(s),
         Announces(s, venue, venue'), srvOn => srvOn', srvOn' \in BOOLEAN,
         (~again /\ link # "broken") => srvOn' \/ venue' = venue,
         UNCHANGED <<run, again, loggedOn, phase, cur, view, link, inSeq, orders, executions>>
  PROVE  CoverInv' /\ InboundFollows' /\ Served'
<1>0. ServeInv /\ CoverInv
  BY DEF WatchInv
<1>1. CASE link # "up"
  BY <1>1, CoverClosed
<1>2. CASE link = "up" /\ srvOn'
  <2>1. Served'
    BY <1>2 DEF Served
  <2> QED
    BY <1>2, <2>1, EmitCovers
<1>3. CASE link = "up" /\ ~srvOn'
  <2>1. UNCHANGED <<srvOut, toClient>> /\ ~srvOn
    BY <1>3 DEF Speaks, Emit
  <2>2. toClient = <<>> /\ ~loggedOn /\ phase \notin {"reconcile", "repair"}
    BY <1>0, <1>3, <2>1 DEF ServeInv, Served
  <2>3. Served' /\ InboundFollows'
    BY <1>0, <1>3, <2>1, <2>2 DEF ServeInv, Served, InboundFollows
  <2>4. CASE venue' = venue
    BY <1>0, <2>1, <2>3, <2>4, CoverFrame DEF coverVars
  <2>5. CASE again
    <3>1. ~Watching'
      BY <2>2, <2>5 DEF Watching
    <3>2. \A o \in Orders : Reports(toClient', o) = {}
      BY <2>1, <2>2 DEF Reports
    <3> QED
      BY <2>3, <3>1, <3>2 DEF CoverInv, LastSays, OrdersCovered, FillsCovered
  <2> QED
    BY <1>3, <2>4, <2>5 DEF FixInv, RestInv, Flags
<1> QED
  BY <1>1, <1>2, <1>3

(* A message that is no report announces that nothing has changed.         *)
LEMMA Silent ==
  ASSUME NEW a, a.type # "8", NEW v
  PROVE  Announces(<<a>>, v, v)
BY DEF Announces, Reports

(* A change of one order ends with a report of it.                         *)
LEMMA LastWord ==
  ASSUME NEW v \in [Orders -> VenueOrders], NEW o \in Orders, NEW after,
         NEW a, a.type = "8" => a.order = o,
         NEW b, b.type = "8", b.order = o, Matches(b, after),
         after.cum = v[o].cum \/ (after.cum = v[o].cum + 1 /\ b.n = after.cum)
  PROVE  LET w == [v EXCEPT ![o] = after]
         IN  Announces(<<b>>, v, w) /\ Announces(<<a, b>>, v, w)
<1> DEFINE w == [v EXCEPT ![o] = after]
<1>1. w[o] = after /\ \A p \in Orders \ {o} : w[p] = v[p]
  OBVIOUS
<1>2. ASSUME NEW p \in Orders \ {o}
      PROVE  Reports(<<b>>, p) = {} /\ Reports(<<a, b>>, p) = {}
  BY DEF Reports
<1>3. 1 \in Reports(<<b>>, o) /\ 2 \in Reports(<<a, b>>, o)
  BY DEF Reports
<1>4. Says(<<b>>, o, after) /\ Says(<<a, b>>, o, after)
  <2>1. \A j \in Reports(<<b>>, o) : j <= 1
    BY DEF Reports
  <2>2. \A j \in Reports(<<a, b>>, o) : j <= 2
    BY DEF Reports
  <2> QED
    BY <1>3, <2>1, <2>2 DEF Says
<1>5. v[o].cum \in Nat
  BY OrderStateAssumption DEF VenueOrders
<1>6. \A n \in 1 .. Qty : (n <= after.cum /\ ~(n <= v[o].cum)) => b.n = n
  BY <1>5
<1>7. \A p \in Orders \ {o} : \A n \in 1 .. Qty : ~(n <= w[p].cum /\ ~(n <= v[p].cum))
  BY <1>1
<1> HIDE DEF w
<1>8. Announces(<<b>>, v, w)
  <2>1. \A n \in 1 .. Qty :
          (n <= w[o].cum /\ ~(n <= v[o].cum)) => \E i \in Reports(<<b>>, o) : <<b>>[i].n = n
    BY <1>1, <1>3, <1>6
  <2>2. Says(<<b>>, o, w[o])
    BY <1>1, <1>4
  <2> QED
    BY <1>1, <1>2, <1>7, <2>1, <2>2 DEF Announces
<1>9. Announces(<<a, b>>, v, w)
  <2>1. \A n \in 1 .. Qty :
          (n <= w[o].cum /\ ~(n <= v[o].cum)) => \E i \in Reports(<<a, b>>, o) : <<a, b>>[i].n = n
    BY <1>1, <1>3, <1>6
  <2>2. Says(<<a, b>>, o, w[o])
    BY <1>1, <1>4
  <2> QED
    BY <1>1, <1>2, <1>7, <2>1, <2>2 DEF Announces
<1> QED
  BY <1>8, <1>9 DEF w

(* What a request brings about is announced.                               *)
LEMMA CarryOutWatch ==
  ASSUME FixInv, WatchInv, NEW request, request.order \in Orders, CarryOut(request),
         srvOn => srvOn', srvOn' \in BOOLEAN, (~again /\ link # "broken") => srvOn',
         UNCHANGED <<run, again, loggedOn, phase, cur, view, link, inSeq, orders, executions>>
  PROVE  /\ CoverInv' /\ InboundFollows' /\ Served'
         /\ \A p \in Orders : venue'[p].status # "none" =>
              venue[p].status # "none" \/ (request.type = "D" /\ request.order = p)
<1> DEFINE o == request.order
           v == venue[o]
           P == /\ CoverInv' /\ InboundFollows' /\ Served'
                /\ \A p \in Orders : venue'[p].status # "none" =>
                     venue[p].status # "none" \/ (request.type = "D" /\ request.order = p)
<1>0. /\ o \in Orders /\ venue \in [Orders -> VenueOrders] /\ v \in VenueOrders
      /\ Qty \in Nat \ {0}
  BY ClientTypes
<1>1. ASSUME NEW after, NEW s \in Seq(FromVenue), s # <<>>, Carries(request, after, s),
             Announces(s, venue, [venue EXCEPT ![o] = after]),
             after = v \/ request.type = "D" \/ v.status # "none"
      PROVE  P
  <2>1. venue' = [venue EXCEPT ![o] = after] /\ Emit(s)
    BY <1>1 DEF Carries
  <2>4. Speaks(s)
    BY <2>1 DEF Speaks
  <2>2. CoverInv' /\ InboundFollows' /\ Served'
    BY <1>1, <2>1, <2>4, EmitWatch
  <2>3. \A p \in Orders : venue'[p].status # "none" =>
          venue[p].status # "none" \/ (request.type = "D" /\ request.order = p)
    BY <1>0, <1>1, <2>1
  <2> QED
    BY <2>2, <2>3
<1>2. ASSUME NEW status \in OrderStatuses, NEW cum \in Nat \union {NoCum}
      PROVE  /\ Report(o, status, cum, 0) \in FromVenue
             /\ Report(o, status, cum, 0).type = "8" /\ Report(o, status, cum, 0).order = o
             /\ Report(o, status, cum, 0).status = status
             /\ Report(o, status, cum, 0).cum = cum
  BY <1>0 DEF Report, FromVenue
<1>3. ASSUME NEW type \in {"XCA", "XAA"}, NEW accepted \in BOOLEAN, NEW ids \in BOOLEAN
      PROVE  /\ Ack(type, o, accepted, ids) \in FromVenue
             /\ Ack(type, o, accepted, ids).type # "8"
  BY <1>0 DEF Ack, FromVenue, OrderStatuses
<1>4. ASSUME NEW a \in FromVenue
      PROVE  /\ <<a>> \in Seq(FromVenue) /\ <<a>> # <<>>
             /\ \A b \in FromVenue : <<a, b>> \in Seq(FromVenue) /\ <<a, b>> # <<>>
  BY <1>4
<1> SUFFICES P
  OBVIOUS
<1> HIDE DEF P
<1>5. CASE request.type = "D" /\ v.status = "none"
           /\ Carries(request, [status |-> "New", cum |-> 0],
                      <<Report(o, "PendingSubmit", 0, 0), Report(o, "New", 0, 0)>>)
  <2> DEFINE after == [status |-> "New", cum |-> 0]
             a == Report(o, "PendingSubmit", 0, 0)
             b == Report(o, "New", 0, 0)
  <2>1. /\ a \in FromVenue /\ b \in FromVenue /\ a.order = o
        /\ b.type = "8" /\ b.order = o /\ Matches(b, after)
    BY <1>2 DEF OrderStatuses, Matches
  <2>2. after.cum = v.cum
    BY <1>0, <1>5 DEF VenueOrders
  <2>4. Carries(request, after, <<a, b>>) /\ request.type = "D"
    BY <1>5
  <2> HIDE DEF after, a, b
  <2>3. Announces(<<a, b>>, venue, [venue EXCEPT ![o] = after])
    BY <1>0, <2>1, <2>2, LastWord
  <2> QED
    BY <1>1, <1>4, <2>1, <2>3, <2>4
<1>6. CASE request.type = "D" /\ v.status = "none"
           /\ Carries(request, [status |-> "Rejected", cum |-> 0],
                      <<Report(o, "Rejected", NoCum, 0)>>)
  <2> DEFINE after == [status |-> "Rejected", cum |-> 0]
             b == Report(o, "Rejected", NoCum, 0)
  <2>1. b \in FromVenue /\ b.type = "8" /\ b.order = o /\ Matches(b, after)
    BY <1>2 DEF OrderStatuses, Matches
  <2>2. after.cum = v.cum
    BY <1>0, <1>6 DEF VenueOrders
  <2>4. Carries(request, after, <<b>>) /\ request.type = "D"
    BY <1>6
  <2> HIDE DEF after, b
  <2>3. Announces(<<b>>, venue, [venue EXCEPT ![o] = after])
    BY <1>0, <2>1, <2>2, LastWord
  <2> QED
    BY <1>1, <1>4, <2>1, <2>3, <2>4
<1>7. CASE v.status \in Open
           /\ Carries(request, [v EXCEPT !.status = "Cancelled"],
                      <<Ack("XCA", o, TRUE, TRUE), Report(o, "Cancelled", v.cum, 0)>>)
  <2> DEFINE after == [v EXCEPT !.status = "Cancelled"]
             a == Ack("XCA", o, TRUE, TRUE)
             b == Report(o, "Cancelled", v.cum, 0)
  <2>1. /\ after.status = "Cancelled" /\ after.cum = v.cum /\ v.cum \in Nat
        /\ v.status # "none"
    BY <1>0, <1>7 DEF VenueOrders, Open
  <2>4. Carries(request, after, <<a, b>>)
    BY <1>7
  <2> HIDE DEF after
  <2>5. /\ b \in FromVenue /\ b.type = "8" /\ b.order = o
        /\ b.status = "Cancelled" /\ b.cum = v.cum
    BY <1>2, <2>1 DEF OrderStatuses
  <2>6. Matches(b, after)
    BY <2>1, <2>5 DEF Matches
  <2>2. a \in FromVenue /\ a.type # "8"
    BY <1>3
  <2> HIDE DEF a, b
  <2>3. Announces(<<a, b>>, venue, [venue EXCEPT ![o] = after])
    BY <1>0, <2>1, <2>2, <2>5, <2>6, LastWord
  <2> QED
    BY <1>1, <1>4, <2>1, <2>2, <2>3, <2>4, <2>5
<1>8. ASSUME NEW ids \in BOOLEAN, NEW type \in {"XCA", "XAA"},
             Carries(request, v, <<Ack(type, o, FALSE, ids)>>)
      PROVE  P
  <2> DEFINE a == Ack(type, o, FALSE, ids)
  <2>1. a \in FromVenue /\ a.type # "8"
    BY <1>3
  <2> HIDE DEF a
  <2>2. Announces(<<a>>, venue, [venue EXCEPT ![o] = v])
    <3>1. [venue EXCEPT ![o] = v] = venue
      BY <1>0
    <3> QED
      BY <2>1, <3>1, Silent
  <2> QED
    BY <1>1, <1>4, <1>8, <2>1, <2>2 DEF a
<1>9. CASE v.status \in Open
           /\ Carries(request, v, <<Ack("XAA", o, TRUE, TRUE), Report(o, v.status, v.cum, 0)>>)
  <2> DEFINE a == Ack("XAA", o, TRUE, TRUE)
             b == Report(o, v.status, v.cum, 0)
  <2>1. v.status \in OrderStatuses /\ v.cum \in Nat
    BY <1>0, <1>9 DEF VenueOrders, Open, OrderStatuses
  <2>4. Carries(request, v, <<a, b>>)
    BY <1>9
  <2>5. /\ b \in FromVenue /\ b.type = "8" /\ b.order = o
        /\ b.status = v.status /\ b.cum = v.cum
    BY <1>2, <2>1
  <2>6. Matches(b, v)
    BY <2>5 DEF Matches
  <2>2. a \in FromVenue /\ a.type # "8"
    BY <1>3
  <2> HIDE DEF a, b
  <2>3. Announces(<<a, b>>, venue, [venue EXCEPT ![o] = v])
    BY <1>0, <2>2, <2>5, <2>6, LastWord
  <2> QED
    BY <1>1, <1>4, <2>2, <2>3, <2>4, <2>5
<1> QED
  BY <1>5, <1>6, <1>7, <1>8, <1>9 DEF CarryOut

(* What is sent with no request for an order that is not on file.          *)
LEMMA SendPlaced ==
  ASSUME FixInv, PlacedKnown, NEW type, NEW o, Send(type, o), type = "D" => o \in Known,
         UNCHANGED <<orders, venue, late>>,
         \A p \in Orders : At("place", p)' # "idle" => At("place", p) # "idle"
  PROVE  PlacedKnown'
<1>1. toServer \in Seq(Wire)
  BY DEF FixInv, LinkInv, LinkTypes
<1>2. ASSUME NEW i \in DOMAIN toServer'
      PROVE  \/ i \in DOMAIN toServer /\ toServer'[i] = toServer[i]
             \/ toServer'[i].type = type /\ toServer'[i].order = o
  <2> DEFINE m == [type |-> type, order |-> o, seq |-> outSeq]
  <2>1. toServer' = toServer \/ toServer' = Append(toServer, m)
    BY DEF Send
  <2>2. m.type = type /\ m.order = o
    OBVIOUS
  <2> HIDE DEF m
  <2>3. CASE toServer' = Append(toServer, m)
    <3>1. /\ DOMAIN toServer' = 1 .. Len(toServer) + 1 /\ DOMAIN toServer = 1 .. Len(toServer)
          /\ Len(toServer) \in Nat
      BY <1>1, <2>3
    <3>2. CASE i \in 1 .. Len(toServer)
      BY <1>1, <2>3, <3>1, <3>2
    <3>3. CASE i = Len(toServer) + 1
      BY <1>1, <2>2, <2>3, <3>1, <3>3
    <3> QED
      BY <3>1, <3>2, <3>3
  <2> QED
    BY <2>1, <2>3
<1>3. Known' = Known
  BY DEF Known
<1>4. ASSUME NEW p \in Orders, Placed(p)'
      PROVE  Placed(p) \/ p \in Known
  BY <1>2, <1>4 DEF Placed
<1> QED
  BY <1>3, <1>4 DEF PlacedKnown

(* What leaves the wire alone places nothing.                              *)
LEMMA PlacedFrame ==
  ASSUME PlacedKnown, UNCHANGED <<orders, venue, late, op, toServer>>
  PROVE  PlacedKnown'
BY DEF PlacedKnown, Placed, Known, At

(* What was on the way may still arrive.                                   *)
LEMMA LostPlaced ==
  ASSUME PlacedKnown, toServer' = <<>>, late' = late \union InFlight,
         UNCHANGED <<orders, venue, op>>
  PROVE  PlacedKnown'
<1>1. ASSUME NEW p \in Orders, Placed(p)'
      PROVE  Placed(p)
  <2>1. ASSUME [type |-> "D", order |-> p] \in InFlight
        PROVE  \E i \in DOMAIN toServer : toServer[i].type = "D" /\ toServer[i].order = p
    <3>1. PICK m \in Range(toServer) :
            [type |-> "D", order |-> p] = [type |-> m.type, order |-> m.order]
      BY <2>1 DEF InFlight
    <3> QED
      BY <3>1 DEF Range
  <2> QED
    BY <1>1, <2>1 DEF Placed, At
<1> QED
  BY <1>1 DEF PlacedKnown, Known

(* The end of a connection, when the session starts again from nothing.    *)
LEMMA EndsWatch ==
  ASSUME FixInv, WatchInv, NEW next \in {"backoff", "stopped"}, Ends(next),
         UNCHANGED <<orders, op, venue>>
  PROVE  WatchInv'
<1>1. /\ run' = next /\ again' = TRUE /\ loggedOn' = FALSE /\ phase' = "idle"
      /\ link' = "down" /\ toServer' = <<>> /\ toClient' = <<>>
      /\ srvOn' = FALSE /\ srvOut' = 1 /\ late' = late \union InFlight
  BY DEF Ends
<1>2. CoverInv' /\ InboundFollows' /\ Served'
  BY <1>1, CoverClosed
<1>3. Before' /\ Fresh'
  BY <1>1 DEF Before, Fresh
<1>5. PlacedKnown'
  BY <1>1, LostPlaced DEF WatchInv
<1> QED
  BY <1>2, <1>3, <1>5 DEF WatchInv, ServeInv

(* A message of the loop changes nothing of this.                          *)
LEMMA LoopWatch ==
  ASSUME FixInv, WatchInv, run = "up", NEW type \in {"0", "1"}, Send(type, NoOrder),
         UNCHANGED <<run, again, loggedOn, phase, cur, view, link, toClient, server, inSeq,
                     orders, executions, op, venue>>
  PROVE  WatchInv'
<1>1. PlacedKnown'
  BY SendPlaced DEF WatchInv, At, server
<1>2. CoverInv'
  BY CoverFrame DEF WatchInv, coverVars
<1>3. ServeInv'
  BY DEF WatchInv, ServeInv, InboundFollows, Served, Before, Fresh, server
<1> QED
  BY <1>1, <1>2, <1>3 DEF WatchInv

(* A session that starts has missed nothing, as no order was placed, or    *)
(* has the reconciliation before it.                                       *)
LEMMA RunWatch ==
  ASSUME FixInv, WatchInv, Backoff \/ Dial \/ Logon \/ ReadFails \/ ContextDone \/ Tick
  PROVE  WatchInv'
<1>0. ServeInv /\ PlacedKnown /\ CoverInv /\ LinkInv
  BY DEF WatchInv, FixInv
<1>1. UNCHANGED <<stateVars, venue, op>> /\ UNCHANGED <<orders, executions>>
  BY DEF Backoff, Dial, Logon, ReadFails, ContextDone, Tick, RunRest, stateVars
<1>2. CASE \E next \in {"backoff", "stopped"} : Ends(next)
  BY <1>1, <1>2, EndsWatch
<1>3. CASE Backoff
  <2>1. /\ link' = "down" /\ run = "backoff" /\ run' = "dial"
        /\ UNCHANGED <<again, loggedOn, phase, link, toServer, toClient, server>>
    BY <1>0, <1>3 DEF Backoff, LinkInv, Published
  <2>2. CoverInv' /\ InboundFollows' /\ Served'
    BY <2>1, CoverClosed
  <2>3. Before' /\ Fresh'
    BY <1>0, <1>1, <2>1 DEF ServeInv, Before, Fresh, server
  <2>4. PlacedKnown'
    BY <1>0, <1>1, <2>1, PlacedFrame DEF server
  <2> QED
    BY <2>2, <2>3, <2>4 DEF WatchInv, ServeInv
<1>4. CASE Dial
  <2>1. /\ run = "dial" /\ link = "down"
        /\ UNCHANGED <<loggedOn, phase, toServer, toClient, server>>
    BY <1>0, <1>4 DEF Dial, LinkInv, Published
  <2>2. /\ toClient = <<>> /\ srvOut = 1 /\ ~srvOn /\ ~loggedOn /\ phase = "idle"
    BY <1>0, <2>1 DEF ServeInv, Before
  <2>3. PlacedKnown'
    BY <1>0, <1>1, <2>1, PlacedFrame DEF server
  <2>4. CASE run' = "logon" /\ link' = "up" /\ inSeq' = 1 /\ again' = again
    <3>1. \A o \in Orders : Reports(toClient', o) = {}
      BY <2>1, <2>2 DEF Reports
    <3>2. CoverInv'
      BY <2>4, <3>1 DEF CoverInv, LastSays, OrdersCovered, FillsCovered, Watching
    <3>3. InboundFollows' /\ Served' /\ Before' /\ Fresh'
      <4>1. Len(toClient') = 0 /\ srvOut' = 1
        BY <2>1, <2>2 DEF server
      <4>2. InboundFollows'
        BY <2>4, <4>1 DEF InboundFollows
      <4>3. Served'
        BY <2>1, <2>2 DEF Served
      <4>4. Before'
        BY <2>1, <2>2, <2>4 DEF Before, server
      <4>5. Fresh'
        BY <1>0, <1>1, <2>1, <2>4 DEF ServeInv, Fresh, server
      <4> QED
        BY <4>2, <4>3, <4>4, <4>5
    <3> QED
      BY <2>3, <3>2, <3>3 DEF WatchInv, ServeInv
  <2>5. CASE run' = "backoff" /\ again' = TRUE /\ link' = link
    <3>1. CoverInv' /\ InboundFollows' /\ Served'
      BY <2>1, <2>5, CoverClosed
    <3>2. Before' /\ Fresh'
      BY <2>1, <2>2, <2>5 DEF Before, Fresh, server
    <3> QED
      BY <2>3, <3>1, <3>2 DEF WatchInv, ServeInv
  <2> QED
    BY <1>4, <2>4, <2>5 DEF Dial
<1>5. CASE Logon
  <2>1. CASE /\ Send("A", NoOrder) /\ run' = "up" /\ inSeq' = inSeq
             /\ UNCHANGED <<again, loggedOn, probe, quiet, phase, cur, view,
                            link, toClient, server>>
    <3>1. run = "logon" /\ toClient = <<>> /\ ~loggedOn /\ phase = "idle"
            /\ srvOut = 1 /\ ~srvOn /\ inSeq = 1
      BY <1>0, <1>5 DEF Logon, ServeInv, Before
    <3>2. PlacedKnown'
      BY <1>0, <1>1, <2>1, SendPlaced DEF At, server
    <3>3. ServeInv'
      BY <1>0, <1>1, <2>1, <3>1
         DEF ServeInv, InboundFollows, Served, Before, Fresh, server
    <3>4. \A o \in Orders : Reports(toClient', o) = {}
      BY <2>1, <3>1 DEF Reports
    <3>5. ASSUME ~Watching'
          PROVE  CoverInv'
      BY <3>4, <3>5 DEF CoverInv, LastSays, OrdersCovered, FillsCovered
    <3>6. ASSUME Watching'
          PROVE  CoverInv'
      <4>1. ~again /\ link = "up"
        BY <2>1, <3>1, <3>6 DEF Watching
      <4>2. \A o \in Orders : venue'[o].status = "none"
        BY <1>0, <1>1, <3>1, <4>1 DEF ServeInv, Fresh
      <4>3. \A o \in Orders : \A n \in 1 .. Qty : ~(n <= venue'[o].cum)
        <5>1. venue \in [Orders -> VenueOrders] /\ Qty \in Nat \ {0}
          BY ClientTypes
        <5> QED
          BY <1>1, <4>2, <5>1 DEF VenueOrders
      <4> QED
        BY <3>4, <4>2, <4>3 DEF CoverInv, LastSays, OrdersCovered, FillsCovered
    <3>7. CoverInv'
      BY <3>5, <3>6
    <3> QED
      BY <3>2, <3>3, <3>7 DEF WatchInv
  <2> QED
    BY <1>2, <1>5, <2>1 DEF Logon
<1>6. CASE ReadFails \/ ContextDone
  BY <1>2, <1>6 DEF ReadFails, ContextDone
<1>7. CASE Tick
  <2>1. run = "up" /\ inSeq' = inSeq
    BY <1>7 DEF Tick, InLoop
  <2>2. ASSUME NEW type \in {"0", "1"}, TickSends(type)
        PROVE  WatchInv'
    <3>1. CASE Ends("backoff")
      BY <1>2, <3>1
    <3>2. CASE Send(type, NoOrder) /\ UNCHANGED <<run, again, active, loggedOn, quiet, phase,
                                             cur, view, link, toClient, server>>
      BY <1>1, <2>1, <3>2, LoopWatch
    <3> QED
      BY <2>2, <3>1, <3>2 DEF TickSends, LoopSends
  <2> QED
    BY <1>2, <1>7, <2>2 DEF Tick
<1> QED
  BY <1>3, <1>4, <1>5, <1>6, <1>7

(* The server serves a session that is logged on to it.                    *)
LEMMA ServerWatch ==
  ASSUME FixInv, WatchInv, \/ ServerStep \/ ServerTakesLate \/ ServerSpeaks
                           \/ \E o \in Orders : VenueFills(o)
  PROVE  WatchInv'
<1>0. /\ ServeInv /\ PlacedKnown /\ CoverInv /\ srvOn \in BOOLEAN
      /\ venue \in [Orders -> VenueOrders] /\ Qty \in Nat \ {0} /\ srvOut \in Nat \ {0}
  BY ClientTypes DEF WatchInv, FixInv, RestInv, Flags
<1>1. VenueRest
  BY DEF ServerStep, ServerTakesRequest, ServerTakesAdmin, ServerTakesLate, ServerSpeaks,
         VenueFills
<1>2. UNCHANGED <<run, again, loggedOn, phase, cur, view, link, inSeq, orders, executions, op>>
  BY <1>1 DEF VenueRest, loop, stateVars
<1>3. ASSUME CoverInv' /\ InboundFollows' /\ Served', srvOn => srvOn', late' \subseteq late,
             run # "up" => UNCHANGED <<toClient, srvOut, srvOn>>,
             (~again /\ link # "broken") => srvOn' \/ venue' = venue,
             \A p \in Orders : Placed(p)' => Placed(p)
      PROVE  WatchInv'
  <2>1. Before'
    BY <1>0, <1>2, <1>3 DEF ServeInv, Before
  <2>2. Fresh'
    BY <1>0, <1>2, <1>3 DEF ServeInv, Fresh
  <2>3. PlacedKnown'
    BY <1>0, <1>2, <1>3 DEF PlacedKnown, Known
  <2> QED
    BY <1>3, <2>1, <2>2, <2>3 DEF WatchInv, ServeInv
<1>4. toServer # <<>> =>
        /\ run = "up" /\ toServer \in Seq(Wire) /\ 1 \in DOMAIN toServer
        /\ Head(toServer) = toServer[1]
        /\ \A i \in DOMAIN Tail(toServer) :
             i + 1 \in DOMAIN toServer /\ Tail(toServer)[i] = toServer[i + 1]
  <2>1. toServer \in Seq(Wire) /\ (toServer # <<>> => run = "up")
    BY DEF FixInv, LinkInv, LinkTypes, Published
  <2>2. ASSUME toServer # <<>>
        PROVE  /\ 1 \in DOMAIN toServer /\ Head(toServer) = toServer[1]
               /\ \A i \in DOMAIN Tail(toServer) :
                    i + 1 \in DOMAIN toServer /\ Tail(toServer)[i] = toServer[i + 1]
    <3>1. Len(toServer) \in Nat /\ Len(toServer) >= 1 /\ DOMAIN toServer = 1 .. Len(toServer)
      BY <2>1, <2>2, EmptySeq, LenProperties
    <3>2. /\ Tail(toServer) \in Seq(Wire) /\ Len(Tail(toServer)) = Len(toServer) - 1
          /\ Head(toServer) = toServer[1]
          /\ \A i \in 1 .. Len(Tail(toServer)) : Tail(toServer)[i] = toServer[i + 1]
      BY <2>1, <2>2, HeadTailProperties
    <3>3. DOMAIN Tail(toServer) = 1 .. Len(toServer) - 1
      BY <3>2, LenProperties
    <3> QED
      BY <3>1, <3>2, <3>3
  <2> QED
    BY <2>1, <2>2
<1>5. ASSUME NEW type \in {"A", "0", "1", "3", "5"}
      PROVE  /\ <<Session(type)>> \in Seq(FromVenue) /\ <<Session(type)>> # <<>>
             /\ Announces(<<Session(type)>>, venue, venue)
  <2>1. Session(type) \in FromVenue /\ Session(type).type # "8"
    BY OrderStateAssumption DEF Session, FromVenue, OrderStatuses
  <2> QED
    BY <2>1, Silent
<1>6. CASE ServerTakesRequest
  <2>1. /\ toServer # <<>> /\ srvOn /\ srvOn' = srvOn /\ late' = late
        /\ toServer' = Tail(toServer) /\ CarryOut(Head(toServer))
        /\ [type |-> Head(toServer).type, order |-> Head(toServer).order] \in Requests
    BY <1>6 DEF ServerTakesRequest
  <2>2. Head(toServer).order \in Orders
    BY <2>1 DEF Requests
  <2>3. /\ CoverInv' /\ InboundFollows' /\ Served'
        /\ \A p \in Orders : venue'[p].status # "none" =>
             \/ venue[p].status # "none"
             \/ Head(toServer).type = "D" /\ Head(toServer).order = p
    BY <1>0, <1>2, <2>1, <2>2, CarryOutWatch
  <2>4. \A p \in Orders : Placed(p)' => Placed(p)
    BY <1>2, <1>4, <2>1, <2>3 DEF Placed, At
  <2> QED
    BY <1>3, <1>4, <2>1, <2>3, <2>4
<1>7. CASE ServerTakesLate
  <2>1. PICK request \in late :
          /\ late' = late \ {request} /\ UNCHANGED <<srvOn, srvIn, toServer>>
          /\ \/ CarryOut(request)
             \/ UNCHANGED <<venue, srvOut, toClient, faults>>
    BY <1>7 DEF ServerTakesLate
  <2>2. CASE CarryOut(request)
    <3>1. request.order \in Orders /\ request \in Requests
      BY DEF FixInv, RestInv, Requests
    <3>2. again \/ link = "broken"
      BY <1>0, <2>1 DEF ServeInv, Fresh
    <3>3. /\ CoverInv' /\ InboundFollows' /\ Served'
          /\ \A p \in Orders : venue'[p].status # "none" =>
               venue[p].status # "none" \/ (request.type = "D" /\ request.order = p)
      BY <1>0, <1>2, <2>1, <2>2, <3>1, <3>2, CarryOutWatch
    <3>4. ASSUME NEW p \in Orders, request.type = "D", request.order = p
          PROVE  [type |-> "D", order |-> p] \in late
      <4>1. request = [type |-> "D", order |-> p]
        BY <3>1, <3>4 DEF Requests
      <4> QED
        BY <2>1, <4>1
    <3>5. \A p \in Orders : Placed(p)' => Placed(p)
      BY <1>2, <2>1, <3>3, <3>4 DEF Placed, At
    <3>6. run # "up" => UNCHANGED <<toClient, srvOut>>
      BY <1>0, <2>1, <2>2 DEF ServeInv, Before, CarryOut, Carries, Emit
    <3> QED
      BY <1>3, <2>1, <3>2, <3>3, <3>5, <3>6
  <2>3. CASE UNCHANGED <<venue, srvOut, toClient, faults>>
    <3>1. CoverInv'
      BY <1>0, <1>2, <2>3, CoverFrame DEF coverVars
    <3>2. InboundFollows' /\ Served'
      BY <1>0, <1>2, <2>1, <2>3 DEF ServeInv, InboundFollows, Served
    <3>3. \A p \in Orders : Placed(p)' => Placed(p)
      BY <1>2, <2>1, <2>3 DEF Placed, At
    <3> QED
      BY <1>3, <2>1, <2>3, <3>1, <3>2, <3>3
  <2> QED
    BY <2>1, <2>2, <2>3
<1>8. CASE ServerTakesAdmin
  <2>1. /\ toServer # <<>> /\ toServer' = Tail(toServer) /\ UNCHANGED <<late, venue>>
    BY <1>8 DEF ServerTakesAdmin
  <2>2. \A p \in Orders : Placed(p)' => Placed(p)
    BY <1>2, <1>4, <2>1 DEF Placed, At
  <2>3. ASSUME NEW type \in {"A", "0", "1", "3", "5"}, Emit(<<Session(type)>>),
               srvOn' \in BOOLEAN, srvOn => srvOn'
        PROVE  WatchInv'
    <3>1. Speaks(<<Session(type)>>) /\ Announces(<<Session(type)>>, venue, venue')
      BY <1>5, <2>1, <2>3 DEF Speaks
    <3>2. CoverInv' /\ InboundFollows' /\ Served'
      BY <1>2, <1>5, <2>1, <2>3, <3>1, EmitWatch
    <3> QED
      BY <1>3, <1>4, <2>1, <2>2, <2>3, <3>2
  <2>4. CASE UNCHANGED <<srvOn, srvOut, toClient, faults>>
    <3>1. CoverInv'
      BY <1>0, <1>2, <2>1, <2>4, CoverFrame DEF coverVars
    <3>2. InboundFollows' /\ Served'
      BY <1>0, <1>2, <2>4 DEF ServeInv, InboundFollows, Served
    <3> QED
      BY <1>3, <2>1, <2>2, <2>4, <3>1, <3>2
  <2>5. \/ srvOn' = TRUE /\ (Emit(<<Session("A")>>) \/ Emit(<<Session("5")>>))
        \/ UNCHANGED <<srvOn, srvOut, toClient, faults>>
        \/ UNCHANGED srvOn /\ Emit(<<Session("0")>>)
    BY <1>8 DEF ServerTakesAdmin
  <2> QED
    BY <1>0, <2>3, <2>4, <2>5
<1>9. CASE ServerSpeaks
  <2>1. srvOn /\ UNCHANGED <<srvOn, srvIn, late, venue, toServer>>
    BY <1>9 DEF ServerSpeaks
  <2>2. ASSUME NEW type \in {"A", "0", "1", "3", "5"}, Speaks(<<Session(type)>>)
        PROVE  WatchInv'
    <3>1. CoverInv' /\ InboundFollows' /\ Served'
      BY <1>0, <1>2, <1>5, <2>1, <2>2, EmitWatch
    <3>2. \A p \in Orders : Placed(p)' => Placed(p)
      BY <1>2, <2>1 DEF Placed, At
    <3>3. run = "up"
      BY <1>0, <2>1 DEF ServeInv, Before
    <3> QED
      BY <1>3, <2>1, <3>1, <3>2, <3>3
  <2>3. CASE Emit(<<Session("1")>>)
    BY <2>2, <2>3 DEF Speaks
  <2>4. ASSUME NEW type \in {"3", "5"}, link = "up",
               toClient' = toClient \o Numbered(<<Session(type)>>), srvOut' = srvOut + 1
        PROVE  WatchInv'
    <3>1. Len(<<Session(type)>>) = 1
      OBVIOUS
    <3>2. Speaks(<<Session(type)>>)
      BY <2>1, <2>4, <3>1 DEF Speaks
    <3> QED
      BY <2>2, <3>2
  <2> QED
    BY <1>9, <2>3, <2>4 DEF ServerSpeaks
<1>10. ASSUME NEW o \in Orders, VenueFills(o)
       PROVE  WatchInv'
  <2> DEFINE n == venue[o].cum + 1
             status == IF n = Qty THEN "Filled" ELSE "PartiallyFilled"
             after == [status |-> status, cum |-> n]
             b == Report(o, status, n, n)
  <2>1. /\ venue[o].status \in Open /\ UNCHANGED <<srvOn, srvIn, late, toServer>>
        /\ venue' = [venue EXCEPT ![o] = after] /\ Emit(<<b>>)
    BY <1>10 DEF VenueFills
  <2>2. venue[o].cum \in 0 .. Qty /\ venue[o].cum < Qty /\ venue[o].status # "none"
    BY <1>0, <2>1 DEF VenueOrders, Open
  <2>3. n \in 0 .. Qty /\ status \in OrderStatuses
    BY <1>0, <2>2 DEF OrderStatuses
  <2>4. /\ b \in FromVenue /\ b.type = "8" /\ b.order = o /\ b.n = n
        /\ b.status = status /\ b.cum = n
    BY <1>0, <2>3 DEF Report, FromVenue
  <2>5. Matches(b, after) /\ after.cum = n
    BY <2>4 DEF Matches
  <2> HIDE DEF b
  <2>6. Announces(<<b>>, venue, venue')
    <3>1. after.cum = venue[o].cum + 1 /\ b.n = after.cum
      BY <2>4
    <3> HIDE DEF after
    <3> QED
      BY <1>0, <2>1, <2>4, <2>5, <3>1, LastWord
  <2>7. (~again /\ link # "broken") => srvOn'
    BY <1>0, <2>1, <2>2 DEF ServeInv, Fresh
  <2>8. <<b>> \in Seq(FromVenue) /\ <<b>> # <<>> /\ Speaks(<<b>>)
    BY <2>1, <2>4 DEF Speaks
  <2>9. CoverInv' /\ InboundFollows' /\ Served'
    BY <1>0, <1>2, <2>1, <2>6, <2>7, <2>8, EmitWatch
  <2>10. \A p \in Orders : Placed(p)' => Placed(p)
    BY <1>0, <1>2, <2>1, <2>2 DEF Placed, At
  <2>11. run # "up" => UNCHANGED <<toClient, srvOut>>
    BY <1>0, <2>1 DEF ServeInv, Before, Emit
  <2> QED
    BY <1>3, <2>1, <2>7, <2>9, <2>10, <2>11
<1> QED
  BY <1>6, <1>7, <1>8, <1>9, <1>10 DEF ServerStep

(* A connection that breaks, and silence.                                  *)
LEMMA BreaksWatch ==
  ASSUME FixInv, WatchInv, Breaks \/ Silence
  PROVE  WatchInv'
<1>0. ServeInv /\ PlacedKnown /\ CoverInv
  BY DEF WatchInv
<1>1. CASE Breaks
  <2>1. /\ link' = "broken" /\ toServer' = <<>> /\ late' = late \union InFlight
        /\ srvOn' = FALSE
        /\ UNCHANGED <<orders, run, again, loggedOn, phase, inSeq, op, toClient, srvOut, venue>>
    BY <1>1 DEF Breaks, stateVars, loop
  <2>2. CoverInv' /\ InboundFollows' /\ Served'
    BY <2>1, CoverClosed
  <2>3. Before' /\ Fresh'
    BY <1>0, <2>1 DEF ServeInv, Before, Fresh
  <2>4. PlacedKnown'
    BY <1>0, <2>1, LostPlaced
  <2> QED
    BY <2>2, <2>3, <2>4 DEF WatchInv, ServeInv
<1>2. CASE Silence
  <2>1. UNCHANGED <<orders, executions, run, again, loggedOn, phase, cur, view, inSeq, op, link,
                    toServer, toClient, server, venue>>
    BY <1>2 DEF Silence, stateVars
  <2>2. CoverInv'
    BY <1>0, <2>1, CoverFrame DEF coverVars
  <2>3. PlacedKnown'
    BY <1>0, <2>1, PlacedFrame DEF server
  <2>4. ServeInv'
    BY <1>0, <2>1 DEF ServeInv, InboundFollows, Served, Before, Fresh, server
  <2> QED
    BY <2>2, <2>3, <2>4 DEF WatchInv
<1> QED
  BY <1>1, <1>2

(* A message is read: a report is about to be applied, a refusal about to  *)
(* change nothing that matters.                                            *)
LEMMA ReadWatch ==
  ASSUME FixInv, WatchInv, InLoop, toClient # <<>>, Head(toClient).seq = inSeq,
         toClient' = Tail(toClient), inSeq' = inSeq + 1,
         UNCHANGED <<run, again, link, server, orders, executions, venue>>,
         Watching' => Watching \/ phase' = "reconcile",
         Head(toClient).type # "8" =>
           \/ phase' \in {"idle", "reconcile"}
           \/ phase' = "apply" /\ Harmless(orders[cur'.order], cur'.update),
         Head(toClient).type = "8" =>
           /\ phase' = "apply" /\ cur'.order = Head(toClient).order
           /\ cur'.n = Head(toClient).n
           /\ Matches(Head(toClient), venue[cur'.order]) =>
                Matches(cur'.update, venue[cur'.order])
  PROVE  CoverInv' /\ ServeInv'
<1> DEFINE m == Head(toClient)
<1>0. /\ ServeInv /\ CoverInv /\ run = "up" /\ phase = "idle" /\ phase' # "repair"
      /\ srvOut \in Nat \ {0} /\ inSeq \in Nat \ {0} /\ toClient \in Seq(FromVenue)
  BY ClientTypes DEF WatchInv, InLoop
<1>1. \A o, r :
        /\ Len(toClient') = Len(toClient) - 1 /\ Len(toClient) \in Nat
        /\ Gap(toClient, inSeq) <=> Gap(toClient', inSeq')
        /\ ~(m.type = "8" /\ m.order = o) =>
             (Reports(toClient', o) = {} => Reports(toClient, o) = {})
        /\ Reports(toClient, o) = {} => Reports(toClient', o) = {}
        /\ (Says(toClient, o, r) /\ Reports(toClient', o) # {}) => Says(toClient', o, r)
        /\ (Says(toClient, o, r) /\ Reports(toClient', o) = {}) => Matches(m, r)
        /\ \A i \in Reports(toClient, o) :
             \/ toClient[i] = m /\ m.type = "8" /\ m.order = o
             \/ i - 1 \in Reports(toClient', o) /\ toClient'[i - 1] = toClient[i]
  <2> SUFFICES ASSUME NEW o, NEW r
               PROVE
        /\ Len(toClient') = Len(toClient) - 1 /\ Len(toClient) \in Nat
        /\ Gap(toClient, inSeq) <=> Gap(toClient', inSeq')
        /\ ~(m.type = "8" /\ m.order = o) =>
             (Reports(toClient', o) = {} => Reports(toClient, o) = {})
        /\ Reports(toClient, o) = {} => Reports(toClient', o) = {}
        /\ (Says(toClient, o, r) /\ Reports(toClient', o) # {}) => Says(toClient', o, r)
        /\ (Says(toClient, o, r) /\ Reports(toClient', o) = {}) => Matches(m, r)
        /\ \A i \in Reports(toClient, o) :
             \/ toClient[i] = m /\ m.type = "8" /\ m.order = o
             \/ i - 1 \in Reports(toClient', o) /\ toClient'[i - 1] = toClient[i]
    OBVIOUS
  <2>1. Len(toClient) \in Nat /\ inSeq \in Nat
    BY <1>0, LenProperties
  <2> QED
    BY <1>0, <2>1, Taken
<1> HIDE DEF m
<1>2. LastSays'
  BY <1>0, <1>1 DEF CoverInv, LastSays
<1>3. ASSUME Watching', ~Gap(toClient', inSeq'), phase' # "reconcile"
      PROVE  Watching /\ ~Gap(toClient, inSeq)
  BY <1>1, <1>3
<1>4. OrdersCovered'
  <2> SUFFICES ASSUME Watching', ~Gap(toClient', inSeq'), NEW o \in Orders,
                      venue[o].status # "none", Reports(toClient', o) = {}
               PROVE  OrderCovered(o)'
    BY DEF OrdersCovered
  <2>1. CASE phase' = "reconcile"
    BY <2>1 DEF OrderCovered
  <2>2. CASE phase' # "reconcile" /\ m.type = "8" /\ m.order = o
    <3>1. Reports(toClient, o) = {} \/ Says(toClient, o, venue[o])
      BY <1>0, <1>3, <2>2 DEF CoverInv, LastSays, Watching
    <3>2. CASE Says(toClient, o, venue[o])
      BY <1>1, <2>2, <3>2 DEF OrderCovered, m
    <3>3. CASE Reports(toClient, o) = {}
      <4>1. 1 \in DOMAIN toClient /\ toClient[1] = m
        <5>1. Len(toClient) \in Nat /\ Len(toClient) >= 1 /\ DOMAIN toClient = 1 .. Len(toClient)
          BY <1>0, EmptySeq, LenProperties
        <5> QED
          BY <1>0, <5>1, HeadTailProperties DEF m
      <4> QED
        BY <2>2, <3>3, <4>1 DEF Reports
    <3> QED
      BY <3>1, <3>2, <3>3
  <2>3. CASE phase' # "reconcile" /\ ~(m.type = "8" /\ m.order = o)
    <3>1. Reports(toClient, o) = {}
      BY <1>1, <2>3
    <3>2. OrderCovered(o)
      BY <1>0, <1>3, <2>3, <3>1 DEF CoverInv, OrdersCovered
    <3>3. Settled(o)
      BY <1>0, <3>2 DEF OrderCovered
    <3>4. Settled(o)'
      BY <2>3, <3>3 DEF Settled, m
    <3> QED
      BY <1>0, <3>4 DEF OrderCovered
  <2> QED
    BY <2>1, <2>2, <2>3
<1>5. FillsCovered'
  <2> SUFFICES ASSUME Watching', ~Gap(toClient', inSeq'), NEW o \in Orders,
                      NEW n \in 1 .. Qty, n <= venue[o].cum
               PROVE  FillCovered(o, n)'
    BY DEF FillsCovered
  <2>1. CASE phase' = "reconcile"
    BY <2>1 DEF FillCovered
  <2>2. CASE phase' # "reconcile"
    <3>1. FillCovered(o, n)
      BY <1>0, <1>3, <2>2 DEF CoverInv, FillsCovered
    <3>2. CASE <<o, n>> \in executions
      BY <3>2 DEF FillCovered
    <3>3. ASSUME NEW i \in Reports(toClient, o), toClient[i].n = n
          PROVE  FillCovered(o, n)'
      <4>1. CASE toClient[i] = m /\ m.type = "8" /\ m.order = o
        BY <3>3, <4>1 DEF FillCovered, m
      <4>2. CASE i - 1 \in Reports(toClient', o) /\ toClient'[i - 1] = toClient[i]
        BY <3>3, <4>2 DEF FillCovered
      <4> QED
        BY <1>1, <4>1, <4>2
    <3> QED
      BY <1>0, <3>1, <3>2, <3>3 DEF FillCovered
  <2> QED
    BY <2>1, <2>2
<1>6. ServeInv'
  <2>1. InboundFollows'
    BY <1>0, <1>1 DEF ServeInv, InboundFollows, server
  <2>2. Served' /\ Before' /\ Fresh'
    BY <1>0 DEF ServeInv, Served, Before, Fresh, server
  <2> QED
    BY <2>1, <2>2 DEF ServeInv
<1> QED
  BY <1>2, <1>4, <1>5, <1>6 DEF CoverInv

(* A message that is read in sequence is about to be applied; any other    *)
(* ends the session.                                                       *)
LEMMA ReceiveWatch ==
  ASSUME FixInv, WatchInv, Receive
  PROVE  WatchInv'
<1> DEFINE m == Head(toClient)
<1>0. /\ InLoop /\ run = "up" /\ phase = "idle" /\ toClient # <<>>
      /\ inSeq' = IF m.seq = inSeq THEN inSeq + 1 ELSE inSeq
      /\ UNCHANGED <<orders, executions, op, venue>>
  BY DEF Receive, InLoop, stateVars
<1>1. CASE \E next \in {"backoff", "stopped"} : Ends(next)
  BY <1>0, <1>1, EndsWatch
<1>2. PlacedKnown /\ (UNCHANGED <<server, toServer>> => PlacedKnown')
        /\ (server' = server /\ Send("0", NoOrder) => PlacedKnown')
  BY <1>0, PlacedFrame, SendPlaced DEF WatchInv, server, At
<1>3. m \in TrueMessages(venue)
  <2>1. toClient \in Seq(TrueMessages(venue))
    BY DEF FixInv, TruthInv, MessagesTrue
  <2> QED
    BY <1>0, <2>1, HeadTailProperties
<1>4. venue \in [Orders -> VenueOrders] /\ {again, loggedOn} \subseteq BOOLEAN
  BY ClientTypes DEF FixInv, RestInv, Flags
<1> HIDE DEF m
<1>5. CASE m.seq = inSeq /\ HandleReport(m)
  <2> DEFINE u == ReportUpdate(m)
  <2>1. m.type = "8" /\ Handling(u) /\ UNCHANGED <<outSeq, toServer>>
    BY <1>5 DEF HandleReport, NotSent
  <2>2. u \in TrueUpdates(venue) /\ u.order = m.order /\ u.n = m.n
    BY <1>3, <2>1, ReportIsTrue DEF ReportUpdate, Update, FixInv
  <2>3. ASSUME Matches(m, venue[m.order])
        PROVE  Matches(u.update, venue[m.order])
    <3>1. venue[m.order] \in VenueOrders
      BY <1>3, <1>4, <2>1 DEF TrueMessages
    <3>2. m.status # "PendingSubmit"
      BY <2>3, <3>1 DEF Matches, VenueOrders, Open, Done
    <3>3. u.update = [status |-> m.status, cum |-> m.cum]
      BY <3>2 DEF ReportUpdate, Update
    <3> HIDE DEF u
    <3> QED
      BY <2>3, <3>3 DEF Matches
  <2>4. u # NoUpdate
    BY <2>2, FixLimits DEF TrueUpdates
  <2> HIDE DEF u
  <2>5. /\ cur' = u /\ phase' = "apply" /\ toClient' = Tail(toClient)
        /\ UNCHANGED <<run, again, loggedOn, link, server>>
    BY <2>1, <2>4 DEF Handling
  <2>6. Watching' => Watching
    BY <1>0, <2>5 DEF Watching
  <2>7. CoverInv' /\ ServeInv'
    BY <1>0, <1>5, <2>1, <2>2, <2>3, <2>5, <2>6, ReadWatch DEF m
  <2> QED
    BY <1>2, <2>1, <2>5, <2>7 DEF WatchInv
<1>6. CASE m.seq = inSeq /\ HandleAck(m)
  <2> DEFINE o == Correlated(m, IF m.type = "XCA" THEN pendingCancel ELSE pendingAmend)
             u == RefusalUpdate(m, o)
  <2>1. m.type # "8" /\ m.type \in {"XCA", "XAA"}
    BY <1>6 DEF HandleAck
  <2>2. CASE (m.accepted \/ o \in Known) /\ Handling(u) /\ UNCHANGED <<outSeq, toServer>>
    <3>1. /\ cur' = u /\ phase' = IF u = NoUpdate THEN "idle" ELSE "apply"
          /\ toClient' = Tail(toClient)
          /\ UNCHANGED <<run, again, loggedOn, link, server>>
      BY <2>2 DEF Handling
    <3>2. u # NoUpdate => Harmless(orders[u.order], u.update)
      <4> SUFFICES ASSUME u # NoUpdate
                   PROVE  Harmless(orders[u.order], u.update)
        OBVIOUS
      <4>1. ~m.accepted
        BY DEF RefusalUpdate
      <4>2. orders[o] \in OrderRecords
        BY <2>2, <4>1 DEF Known, FixInv, TruthInv, StateTypeOK
      <4>3. u.order = o /\ u.update = [status |-> IF m.type = "XCA" THEN "RejectedCancel"
                                                 ELSE orders[o].status,
                                       cum |-> orders[o].cum]
        BY <4>1 DEF RefusalUpdate, Update
      <4> HIDE DEF o, u
      <4>4. CASE m.type = "XCA"
        BY <4>3, <4>4 DEF Harmless
      <4>5. CASE m.type # "XCA"
        <5>1. orders[o].cum # NoCum
          BY <4>2, OrderStateAssumption DEF OrderRecords
        <5>2. mergeOrder(orders[o], u.update) = orders[o]
          BY <4>2, <4>3, <4>5, <5>1 DEF mergeOrder, OrderRecords
        <5> QED
          BY <4>3, <5>2 DEF Harmless
      <4> QED
        BY <4>4, <4>5
    <3> HIDE DEF u
    <3>3. Watching' => Watching
      BY <1>0, <3>1 DEF Watching
    <3>4. CoverInv' /\ ServeInv'
      BY <1>0, <1>6, <2>1, <3>1, <3>2, <3>3, ReadWatch DEF m
    <3> QED
      BY <1>2, <2>2, <3>1, <3>4 DEF WatchInv
  <2> QED
    BY <1>1, <1>6, <2>2 DEF HandleAck, NotSent
<1>7. CASE m.seq = inSeq /\ HandleSession(m)
  <2>1. ASSUME m.type # "8", NEW flags, Stay(flags), flags.phase \in {"idle", "reconcile"},
               UNCHANGED <<outSeq, toServer>> \/ Send("0", NoOrder),
               flags.loggedOn => loggedOn \/ ~again
        PROVE  WatchInv'
    <3>1. /\ phase' = flags.phase /\ loggedOn' = flags.loggedOn
          /\ toClient' = Tail(toClient) /\ UNCHANGED <<run, again, link, server>>
      BY <2>1 DEF Stay
    <3>2. Watching' => Watching \/ phase' = "reconcile"
      BY <1>0, <2>1, <3>1 DEF Watching
    <3>3. CoverInv' /\ ServeInv'
      BY <1>0, <1>7, <2>1, <3>1, <3>2, ReadWatch DEF m
    <3> QED
      BY <1>2, <2>1, <3>1, <3>3 DEF WatchInv
  <2>2. /\ Here.phase = "idle" /\ Here.loggedOn = loggedOn
        /\ [Here EXCEPT !.phase = "reconcile"].phase = "reconcile"
        /\ [Here EXCEPT !.phase = "reconcile"].loggedOn = loggedOn
        /\ [Here EXCEPT !.loggedOn = TRUE].phase = "idle"
        /\ [Here EXCEPT !.probe = FALSE].phase = "idle"
        /\ [Here EXCEPT !.probe = FALSE].loggedOn = loggedOn
    BY DEF Here
  <2>3. CASE HandleLogon(m)
    BY <1>4, <2>1, <2>2, <2>3 DEF HandleLogon, NotSent
  <2>4. CASE m.type = "0" /\ NotSent /\ Stay([Here EXCEPT !.probe = FALSE])
    BY <2>1, <2>2, <2>4 DEF NotSent
  <2>5. CASE m.type = "1" /\ LoopSends("0", Stay(Here))
    BY <1>1, <2>1, <2>2, <2>5 DEF LoopSends
  <2> QED
    BY <1>1, <1>7, <2>3, <2>4, <2>5 DEF HandleSession
<1>8. \/ m.seq = inSeq /\ (HandleReport(m) \/ HandleAck(m) \/ HandleSession(m))
      \/ Ends("backoff")
  BY DEF Receive, m
<1> QED
  BY <1>1, <1>5, <1>6, <1>7, <1>8

(* The loop's own work leaves the connection alone.                        *)
LEMMA WorkServes ==
  ASSUME WatchInv, run = "up", phase # "idle",
         phase' \in {"reconcile", "repair"} => phase \in {"reconcile", "repair"},
         loggedOn' => loggedOn \/ phase \in {"reconcile", "repair"},
         UNCHANGED <<run, again, link, toServer, toClient, server, inSeq, op, venue>>,
         \A o \in Known : orders'[o] # NoOrder
  PROVE  ServeInv' /\ PlacedKnown'
<1>1. PlacedKnown'
  BY DEF WatchInv, PlacedKnown, Placed, Known, At, server
<1>2. InboundFollows' /\ Served'
  BY DEF WatchInv, ServeInv, InboundFollows, Served, server
<1>3. Before' /\ Fresh'
  BY DEF WatchInv, ServeInv, Before, Fresh, server
<1> QED
  BY <1>1, <1>2, <1>3 DEF ServeInv

(* An order that the venue has is on file, with its copy.                  *)
LEMMA OnFile ==
  ASSUME FixInv, PlacedKnown, NEW o \in Orders, venue[o].status # "none"
  PROVE  /\ o \in Known /\ Current(o) = orders[o] /\ orders[o] \in OrderRecords
         /\ Tells(venue[o], orders[o])
<1>1. o \in Known
  BY DEF PlacedKnown, Placed
<1> QED
  BY <1>1 DEF Known, Current, FixInv, TruthInv, StateTypeOK, FileTrue, TrueViews

(* An update that matches the venue makes the file match it.               *)
LEMMA MatchMerges ==
  ASSUME FixInv, NEW o \in Orders, venue[o].status # "none", NEW u \in OrderUpdates,
         Matches(u, venue[o]), NEW r \in OrderRecords, Tells(venue[o], r)
  PROVE  mergeOrder(r, u) = venue[o]
<1>1. venue[o] \in VenueOrders
  BY ClientTypes
<1>2. venue[o] \in OrderRecords /\ venue[o].cum # NoCum
  BY <1>1, OrderStateAssumption DEF VenueOrders, OrderRecords, OrderStatuses, Open, Done
<1>3. u.status = venue[o].status
  BY DEF Matches
<1>4. CASE u.cum # NoCum
  <2>1. u.cum = venue[o].cum
    BY <1>4 DEF Matches
  <2> QED
    BY <1>2, <1>3, <1>4, <2>1 DEF mergeOrder, OrderRecords
<1>5. CASE u.cum = NoCum
  <2>1. venue[o].cum = 0
    BY <1>2, <1>5 DEF Matches
  <2>2. r.cum = 0
    <3>1. r.cum \in Nat /\ r.cum # NoCum
      BY OrderStateAssumption DEF OrderRecords
    <3> QED
      BY <2>1, <3>1 DEF Tells, Within
  <2> QED
    BY <1>2, <1>3, <1>5, <2>1, <2>2 DEF mergeOrder, OrderRecords
<1> QED
  BY <1>4, <1>5

(* An update that is refused ends the session; one that is applied makes   *)
(* the file match, or changes nothing.                                     *)
LEMMA ApplyWatch ==
  ASSUME FixInv, WatchInv, Apply
  PROVE  WatchInv'
<1> DEFINE c == cur.order
<1>0. /\ run = "up" /\ phase = "apply" /\ CoverInv /\ PlacedKnown
      /\ cur \in TrueUpdates(venue) /\ UNCHANGED <<inSeq, op, venue>>
  BY DEF Apply, WatchInv, FixInv, TruthInv, CurTrue
<1>1. CASE ~CanApplyOrder(c, cur.update)
  BY <1>0, <1>1, EndsWatch DEF Apply, stateVars
<1>2. CASE CanApplyOrder(c, cur.update)
  <2>1. /\ ApplyOrder(c, cur.update) /\ c \in Orders /\ cur.update \in OrderUpdates
        /\ phase' = IF cur.n = 0 THEN "idle" ELSE "record"
        /\ cur' = IF cur.n = 0 THEN NoUpdate ELSE cur
        /\ UNCHANGED <<run, again, loggedOn, view, link, toServer, toClient, server>>
    BY <1>0, <1>2 DEF Apply, TrueUpdates
  <2>2. /\ orders' = [orders EXCEPT ![c] = mergeOrder(Current(c), cur.update)]
        /\ executions' = executions
        /\ ValidateTransition(Current(c).status, cur.update.status)
    BY <2>1 DEF ApplyOrder, CanApplyOrder
  <2>3. orders \in [Orders -> OrderRecords \union {NoOrder}]
    BY DEF FixInv, TruthInv, StateTypeOK
  <2>4. mergeOrder(Current(c), cur.update) # NoOrder
    <3>1. Current(c) \in OrderRecords
      BY <2>1, <2>3 DEF Current, Known, OrderRecords, OrderStatuses
    <3>2. mergeOrder(Current(c), cur.update) \in OrderRecords
      BY <2>1, <3>1 DEF mergeOrder, OrderRecords, OrderUpdates
    <3> QED
      BY <3>2, OrderStateAssumption
  <2> HIDE DEF c
  <2>5. ServeInv' /\ PlacedKnown'
    <3>1. \A o \in Known : orders'[o] # NoOrder
      BY <2>2, <2>3, <2>4 DEF Known
    <3> QED
      BY <1>0, <2>1, <3>1, WorkServes
  <2>6. Watching' = Watching
    BY <1>0, <2>1 DEF Watching
  <2>7. ASSUME NEW o \in Orders, venue[o].status # "none", OrderCovered(o)
        PROVE  OrderCovered(o)'
    <3>1. o \in Known /\ Current(o) = orders[o] /\ orders[o] \in OrderRecords
            /\ Tells(venue[o], orders[o])
      BY <1>0, <2>7, OnFile
    <3>2. CASE o # c
      BY <1>0, <2>1, <2>2, <2>7, <3>2 DEF OrderCovered, Settled, c
    <3>3. CASE o = c
      <4>1. orders'[o] = mergeOrder(orders[o], cur.update)
        BY <2>2, <2>3, <3>1, <3>3
      <4>2. Settled(o)'
        <5>1. CASE Matches(cur.update, venue[o])
          <6>1. mergeOrder(orders[o], cur.update) = venue[o]
            BY <2>1, <2>7, <3>1, <5>1, MatchMerges
          <6> QED
            BY <1>0, <2>1, <4>1, <6>1 DEF Settled
        <5>2. CASE Settled(o)
          <6>1. Harmless(orders[o], cur.update)
            BY <1>0, <3>3, <5>2 DEF Settled, c
          <6>2. \/ cur.update.status \in {"PendingCancel", "RejectedCancel"}
                \/ mergeOrder(orders[o], cur.update) = orders[o]
            BY <2>2, <3>1, <3>3, <6>1 DEF Harmless
          <6>3. mergeOrder(orders[o], cur.update).status = cur.update.status
            BY DEF mergeOrder
          <6> QED
            BY <1>0, <2>1, <4>1, <5>2, <6>2, <6>3 DEF Settled
        <5> QED
          BY <1>0, <2>7, <5>1, <5>2 DEF OrderCovered
      <4> QED
        BY <2>1, <4>2 DEF OrderCovered
    <3> QED
      BY <3>2, <3>3
  <2>8. OrdersCovered'
    BY <1>0, <2>1, <2>6, <2>7 DEF CoverInv, OrdersCovered
  <2>9. ASSUME NEW o \in Orders, NEW n \in 1 .. Qty, FillCovered(o, n)
        PROVE  FillCovered(o, n)'
    BY <1>0, <2>1, <2>2, <2>9 DEF FillCovered
  <2>10. FillsCovered' /\ LastSays'
    BY <1>0, <2>1, <2>6, <2>9 DEF CoverInv, FillsCovered, LastSays
  <2> QED
    BY <2>5, <2>8, <2>10 DEF WatchInv, CoverInv
<1> QED
  BY <1>1, <1>2

(* The execution of a report is recorded once the order is applied.        *)
LEMMA RecordWatch ==
  ASSUME FixInv, WatchInv, Record
  PROVE  WatchInv'
<1>1. /\ run = "up" /\ phase = "record" /\ phase' = "idle"
      /\ executions' = executions \union {<<cur.order, cur.n>>}
      /\ UNCHANGED <<orders, run, again, loggedOn, view, link, toServer, toClient, server,
                     inSeq, op, venue>>
  BY DEF Record, RecordExecution
<1>2. ServeInv' /\ PlacedKnown'
  BY <1>1, WorkServes DEF Known
<1>3. Watching' = Watching
  BY <1>1 DEF Watching
<1>4. \A o \in Orders : OrderCovered(o) => OrderCovered(o)'
  BY <1>1 DEF OrderCovered, Settled
<1>5. \A o \in Orders : \A n \in 1 .. Qty : FillCovered(o, n) => FillCovered(o, n)'
  BY <1>1 DEF FillCovered
<1>6. CoverInv'
  BY <1>1, <1>3, <1>4, <1>5 DEF WatchInv, CoverInv, LastSays, OrdersCovered, FillsCovered
<1> QED
  BY <1>2, <1>6 DEF WatchInv

(* OnReconnect sees every order as the venue has it, and every fill.       *)
LEMMA ReadsWatch ==
  ASSUME FixInv, WatchInv, ReconcileReads
  PROVE  WatchInv'
<1>1. /\ run = "up" /\ phase = "reconcile" /\ inSeq' = inSeq
      /\ UNCHANGED <<orders, executions, op, venue>> /\ CoverInv
  BY DEF ReconcileReads, RunRest, stateVars, WatchInv
<1>2. CASE Ends("backoff")
  BY <1>1, <1>2, EndsWatch
<1>3. CASE /\ phase' = "repair"
           /\ view' = [o \in Orders |-> IF venue[o].status = "none" THEN NoOrder
                                        ELSE venue[o]]
           /\ UNCHANGED <<run, again, active, loggedOn, probe, quiet, cur, link,
                          toServer, toClient, server, faults>>
  <2>1. ServeInv' /\ PlacedKnown'
    BY <1>1, <1>3, WorkServes DEF Known
  <2>2. Watching' = Watching
    BY <1>1, <1>3 DEF Watching
  <2>3. ASSUME NEW o \in Orders, venue[o].status # "none"
        PROVE  view'[o] = venue[o]
    BY <1>3, <2>3
  <2>4. OrdersCovered'
    BY <1>1, <1>3, <2>3 DEF OrdersCovered, OrderCovered
  <2>5. ASSUME NEW o \in Orders, NEW n \in 1 .. Qty, n <= venue[o].cum
        PROVE  FillCovered(o, n)'
    <3>1. venue[o] \in VenueOrders /\ Qty \in Nat
      BY ClientTypes
    <3>2. venue[o].status # "none"
      BY <2>5, <3>1 DEF VenueOrders
    <3>3. venue[o] # NoOrder
      BY <3>1, <3>2, OrderStateAssumption
         DEF VenueOrders, OrderRecords, OrderStatuses, Open, Done
    <3> QED
      BY <1>1, <1>3, <2>3, <2>5, <3>2, <3>3 DEF FillCovered
  <2>6. FillsCovered' /\ LastSays'
    BY <1>1, <1>3, <2>5 DEF FillsCovered, CoverInv, LastSays
  <2> QED
    BY <2>1, <2>4, <2>6 DEF WatchInv, CoverInv
<1> QED
  BY <1>2, <1>3 DEF ReconcileReads

(* What the repair may not change has a cancel in its way.                 *)
LEMMA RepairsWatch ==
  ASSUME FixInv, WatchInv, ReconcileRepairs
  PROVE  WatchInv'
<1>1. /\ run = "up" /\ phase = "repair" /\ phase' = "idle" /\ loggedOn' = TRUE
      /\ orders' = [o \in Orders |->
           IF view[o] # NoOrder /\ CanApplyOrder(o, view[o])
             THEN mergeOrder(Current(o), view[o]) ELSE orders[o]]
      /\ executions' = executions \union
           {f \in Fills : view[f[1]] # NoOrder /\ f[2] <= view[f[1]].cum}
      /\ UNCHANGED <<run, again, cur, inSeq, op, link, toServer, toClient, server, venue>>
      /\ CoverInv /\ PlacedKnown
  BY DEF ReconcileRepairs, WatchInv
<1>2. ASSUME NEW o \in Orders, view[o] # NoOrder
      PROVE  mergeOrder(Current(o), view[o]) = view[o] /\ view[o] \in OrderRecords
  <2>1. view[o] \in OrderRecords
    BY <1>2 DEF FixInv, TruthInv, ViewTrue
  <2>2. view[o].cum # NoCum
    BY <2>1, OrderStateAssumption DEF OrderRecords
  <2> QED
    BY <2>1, <2>2 DEF mergeOrder, OrderRecords
<1>3. ServeInv' /\ PlacedKnown'
  <2>1. \A o \in Known : orders'[o] # NoOrder
    BY <1>1, <1>2 DEF Known
  <2> QED
    BY <1>1, <2>1, WorkServes
<1>4. Watching' => Watching
  BY <1>1 DEF Watching
<1>5. ASSUME NEW o \in Orders, venue[o].status # "none", OrderCovered(o)
      PROVE  OrderCovered(o)'
  <2>1. view[o] = venue[o]
    BY <1>1, <1>5 DEF OrderCovered
  <2>2. /\ o \in Known /\ Current(o) = orders[o] /\ orders[o] \in OrderRecords
        /\ Tells(venue[o], orders[o])
    BY <1>1, <1>5, OnFile
  <2>3. venue[o] \in VenueOrders
    BY ClientTypes
  <2>4. venue[o] # NoOrder
    BY <1>5, <2>3, OrderStateAssumption
       DEF VenueOrders, OrderRecords, OrderStatuses, Open, Done
  <2>5. \/ orders[o].status \in {"PendingCancel", "RejectedCancel"}
        \/ ValidateTransition(orders[o].status, venue[o].status)
    BY <1>5, <2>2, <2>3 DEF Tells, Reached, ValidateTransition, Allowed, VenueOrders,
         OrderRecords, OrderStatuses, Open, Done
  <2>6. \/ orders'[o] = venue[o]
        \/ orders'[o] = orders[o] /\ orders[o].status \in {"PendingCancel", "RejectedCancel"}
    BY <1>1, <1>2, <2>1, <2>2, <2>4, <2>5 DEF CanApplyOrder
  <2>7. Settled(o)'
    BY <1>1, <2>6 DEF Settled
  <2> QED
    BY <1>1, <2>7 DEF OrderCovered
<1>6. OrdersCovered'
  BY <1>1, <1>4, <1>5 DEF CoverInv, OrdersCovered
<1>7. ASSUME NEW o \in Orders, NEW n \in 1 .. Qty, FillCovered(o, n)
      PROVE  FillCovered(o, n)'
  <2>1. <<o, n>> \in Fills /\ <<o, n>>[1] = o /\ <<o, n>>[2] = n
    BY DEF Fills
  <2> QED
    BY <1>1, <1>7, <2>1 DEF FillCovered
<1>8. FillsCovered' /\ LastSays'
  BY <1>1, <1>4, <1>7 DEF CoverInv, FillsCovered, LastSays
<1> QED
  BY <1>3, <1>6, <1>8 DEF WatchInv, CoverInv

(* A caller writes only to orders the venue does not have, or to set       *)
(* PendingCancel; what is being applied stays harmless.                    *)
LEMMA CallerWatch ==
  ASSUME FixInv, WatchInv, NEW o \in Orders, CallerStep(o)
  PROVE  WatchInv'
<1>0. /\ ServeInv /\ PlacedKnown /\ CoverInv /\ op \in [Callers -> Callings]
      /\ orders \in [Orders -> OrderRecords \union {NoOrder}]
  BY DEF WatchInv, FixInv, TruthInv, StateTypeOK
<1>1. ASSUME UNCHANGED <<run, again, loggedOn, phase, cur, view, link, toClient, inSeq, orders,
                         executions, venue>>
      PROVE  CoverInv'
  BY <1>0, <1>1, CoverFrame DEF coverVars
<1>2. ASSUME UNCHANGED <<run, again, loggedOn, phase, link, toClient, inSeq, srvOut, srvOn, late,
                         venue>>
      PROVE  ServeInv'
  BY <1>0, <1>2 DEF ServeInv, InboundFollows, Served, Before, Fresh
<1>3. ASSUME CallRest
      PROVE  UNCHANGED <<run, again, loggedOn, phase, cur, view, link, toClient, inSeq, srvOut,
                         srvOn, late, venue>>
  BY <1>3 DEF CallRest, loop, server
<1>4. ASSUME NEW kind \in Kinds, NEW at, Goes(kind, o, at)
      PROVE  \A p \in Orders : At("place", p)' # "idle" =>
               At("place", p) # "idle" \/ (kind = "place" /\ p = o)
  BY <1>0, <1>4 DEF Goes, At, Callers, Kinds
<1>5. ASSUME UNCHANGED <<venue, late, toServer>>, \A p \in Known : orders'[p] # NoOrder,
             \A p \in Orders : At("place", p)' # "idle" =>
               At("place", p) # "idle" \/ (p = o /\ orders'[o] # NoOrder)
      PROVE  PlacedKnown'
  BY <1>0, <1>5 DEF PlacedKnown, Placed, Known
<1>6. ASSUME NEW u \in OrderUpdates, ApplyOrder(o, u), CallRest,
             \/ venue[o].status = "none"
             \/ OrderCovered(o) => OrderCovered(o)'
      PROVE  /\ CoverInv' /\ \A p \in Known : orders'[p] # NoOrder
             /\ orders'[o] # NoOrder
  <2>1. /\ orders' = [orders EXCEPT ![o] = mergeOrder(Current(o), u)]
        /\ executions' = executions
    BY <1>6 DEF ApplyOrder
  <2>2. mergeOrder(Current(o), u) \in OrderRecords
    <3>1. Current(o) \in OrderRecords
      BY <1>0 DEF Current, Known, OrderRecords, OrderStatuses
    <3> QED
      BY <3>1 DEF mergeOrder, OrderRecords, OrderUpdates
  <2>3. orders'[o] # NoOrder /\ \A p \in Known : orders'[p] # NoOrder
    BY <1>0, <2>1, <2>2, OrderStateAssumption DEF Known
  <2>4. ASSUME NEW p \in Orders, venue[p].status # "none", OrderCovered(p)
        PROVE  OrderCovered(p)'
    <3>1. CASE p = o
      BY <1>6, <2>4, <3>1
    <3>2. CASE p # o
      BY <1>3, <1>6, <2>1, <2>4, <3>2 DEF OrderCovered, Settled
    <3> QED
      BY <3>1, <3>2
  <2>5. UNCHANGED <<run, again, loggedOn, phase, cur, view, link, toClient, inSeq, venue>>
    BY <1>3, <1>6
  <2>6. Watching' = Watching
    BY <2>5 DEF Watching
  <2>7. OrdersCovered' /\ LastSays'
    BY <1>0, <2>4, <2>5, <2>6 DEF CoverInv, OrdersCovered, LastSays
  <2>8. FillsCovered'
    BY <1>0, <2>1, <2>5, <2>6 DEF CoverInv, FillsCovered, FillCovered
  <2> QED
    BY <2>3, <2>7, <2>8 DEF CoverInv
<1>7. PendingSubmit \in OrderUpdates /\ PendingSubmit.status = "PendingSubmit"
  BY DEF PendingSubmit, OrderUpdates, OrderStatuses
<1>8. CASE PlacePersist(o)
  <2>1. /\ o \notin Known /\ ApplyOrder(o, PendingSubmit) /\ CallRest
        /\ Goes("place", o, "send") /\ toServer' = toServer
    BY <1>8 DEF PlacePersist
  <2>2. venue[o].status = "none"
    BY <1>0, <2>1 DEF PlacedKnown, Placed
  <2>3. CoverInv' /\ (\A p \in Known : orders'[p] # NoOrder) /\ orders'[o] # NoOrder
    BY <1>6, <1>7, <2>1, <2>2
  <2>4. ServeInv' /\ UNCHANGED <<venue, late>>
    BY <1>2, <1>3, <2>1
  <2>5. PlacedKnown'
    BY <1>4, <1>5, <2>1, <2>3, <2>4 DEF Kinds
  <2> QED
    BY <2>3, <2>4, <2>5 DEF WatchInv
<1>9. CASE PlaceUncertain(o)
  <2>1. /\ At("place", o) = "uncertain" /\ CallRest
        /\ Goes("place", o, "done") /\ toServer' = toServer
        /\ ApplyOrder(o, PendingSubmit) \/ UNCHANGED stateVars
    BY <1>9 DEF PlaceUncertain
  <2>2. ServeInv' /\ UNCHANGED <<venue, late>>
    BY <1>2, <1>3, <2>1
  <2>3. o \in Known
    BY <1>0, <2>1 DEF PlacedKnown, Placed
  <2>4. CASE ApplyOrder(o, PendingSubmit)
    <3>1. ValidateTransition(orders[o].status, "PendingSubmit")
      BY <1>7, <2>3, <2>4 DEF ApplyOrder, CanApplyOrder, Current
    <3>2. orders[o].status \in {"Unknown", "PendingSubmit"}
      BY <1>0, <2>3, <3>1 DEF ValidateTransition, Allowed, Known, OrderRecords, OrderStatuses
    <3>3. ~Settled(o)
      <4>1. venue[o] \in VenueOrders
        BY ClientTypes
      <4> QED
        BY <3>2, <4>1 DEF Settled, VenueOrders, Open, Done
    <3>4. OrderCovered(o) => OrderCovered(o)'
      BY <1>3, <2>1, <3>3 DEF OrderCovered
    <3>5. CoverInv' /\ (\A p \in Known : orders'[p] # NoOrder) /\ orders'[o] # NoOrder
      BY <1>6, <1>7, <2>1, <2>4, <3>4
    <3>6. PlacedKnown'
      BY <1>4, <1>5, <2>1, <2>2, <3>5 DEF Kinds
    <3> QED
      BY <2>2, <3>5, <3>6 DEF WatchInv
  <2>5. CASE UNCHANGED stateVars
    <3>1. orders' = orders /\ executions' = executions
      BY <2>5 DEF stateVars
    <3>2. PlacedKnown'
      BY <1>4, <1>5, <2>1, <2>2, <2>3, <3>1 DEF Kinds, Known
    <3>3. CoverInv'
      BY <1>1, <1>3, <2>1, <3>1
    <3> QED
      BY <2>2, <3>2, <3>3 DEF WatchInv
  <2> QED
    BY <2>1, <2>4, <2>5
<1>10. CASE CancelReads(o)
  <2>1. /\ CallRest /\ toServer' = toServer /\ UNCHANGED <<orders, executions>>
        /\ op' = [op EXCEPT ![<<"cancel", o>>] = [at |-> "mark", view |-> orders[o]]]
    BY <1>10 DEF CancelReads, stateVars
  <2>2. \A p \in Orders : At("place", p)' = At("place", p)
    BY <1>0, <2>1 DEF At, Callers, Kinds
  <2>3. PlacedKnown'
    BY <1>3, <1>5, <2>1, <2>2 DEF Known
  <2> QED
    BY <1>1, <1>2, <1>3, <2>1, <2>3 DEF WatchInv
<1>11. CASE CancelMarks(o)
  <2> DEFINE u == [status |-> "PendingCancel", cum |-> op[<<"cancel", o>>].view.cum]
  <2>1. /\ At("cancel", o) = "mark" /\ CallRest /\ toServer' = toServer
        /\ \/ ApplyOrder(o, u) /\ Goes("cancel", o, "append")
           \/ Goes("cancel", o, "done") /\ UNCHANGED stateVars
    BY <1>11 DEF CancelMarks
  <2>2. \A p \in Orders : At("place", p)' # "idle" => At("place", p) # "idle"
    BY <1>4, <2>1 DEF Kinds
  <2>3. ServeInv' /\ UNCHANGED <<venue, late>>
    BY <1>2, <1>3, <2>1
  <2>4. CASE UNCHANGED stateVars
    <3>1. orders' = orders /\ executions' = executions
      BY <2>4 DEF stateVars
    <3>2. PlacedKnown'
      BY <1>5, <2>1, <2>2, <2>3, <3>1 DEF Known
    <3> QED
      BY <1>1, <1>3, <2>1, <2>3, <3>1, <3>2 DEF WatchInv
  <2>5. CASE ApplyOrder(o, u)
    <3>1. u \in OrderUpdates /\ u.status = "PendingCancel"
      <4>1. op[<<"cancel", o>>].view \in OrderRecords
        BY <1>0, <2>1 DEF At, Callers, Kinds, Callings
      <4> QED
        BY <4>1 DEF OrderRecords, OrderUpdates, OrderStatuses
    <3> HIDE DEF u
    <3>2. /\ orders' = [orders EXCEPT ![o] = mergeOrder(Current(o), u)]
          /\ ValidateTransition(Current(o).status, "PendingCancel")
      BY <2>5, <3>1 DEF ApplyOrder, CanApplyOrder
    <3>3. orders'[o].status = "PendingCancel"
      BY <1>0, <3>1, <3>2 DEF mergeOrder
    <3>4. ASSUME venue[o].status # "none", OrderCovered(o)
          PROVE  OrderCovered(o)'
      <4>1. /\ Current(o) = orders[o] /\ orders[o] \in OrderRecords
        BY <1>0, <3>4, OnFile
      <4>2. orders[o].status \in {"New", "PartiallyFilled", "PendingCancel"}
        BY <3>2, <4>1 DEF ValidateTransition, Allowed, OrderRecords, OrderStatuses
      <4>3. ASSUME phase = "apply", cur.order = o, Harmless(orders[o], cur.update)
            PROVE  Harmless(orders'[o], cur.update)
        <5>1. mergeOrder(orders[o], cur.update) = orders[o] =>
                cur.update.status = orders[o].status
          BY DEF mergeOrder
        <5>2. cur.update.status \notin {"Cancelled", "Filled"}
          BY <4>2, <4>3, <5>1 DEF Harmless, ValidateTransition, Allowed
        <5>3. ValidateTransition("PendingCancel", cur.update.status) =>
                cur.update.status \in {"PendingCancel", "RejectedCancel"}
          BY <5>2 DEF ValidateTransition, Allowed
        <5> QED
          BY <3>3, <5>3 DEF Harmless
      <4>4. Settled(o) => Settled(o)'
        BY <1>3, <2>1, <3>3, <4>3 DEF Settled
      <4> QED
        BY <1>3, <2>1, <3>4, <4>4 DEF OrderCovered
    <3>5. CoverInv' /\ (\A p \in Known : orders'[p] # NoOrder)
      BY <1>6, <2>1, <2>5, <3>1, <3>4
    <3>6. PlacedKnown'
      BY <1>5, <2>1, <2>2, <2>3, <3>5
    <3> QED
      BY <2>3, <3>5, <3>6 DEF WatchInv
  <2> QED
    BY <2>1, <2>4, <2>5
<1>12. CASE CancelQueues(o) \/ AmendQueues(o)
  <2>1. /\ CallRest /\ toServer' = toServer /\ UNCHANGED <<orders, executions>>
        /\ Goes("cancel", o, "send") \/ Goes("amend", o, "send")
    BY <1>12 DEF CancelQueues, AmendQueues, stateVars
  <2>2. \A p \in Orders : At("place", p)' # "idle" => At("place", p) # "idle"
    BY <1>4, <2>1 DEF Kinds
  <2>3. PlacedKnown'
    BY <1>3, <1>5, <2>1, <2>2 DEF Known
  <2> QED
    BY <1>1, <1>2, <1>3, <2>1, <2>3 DEF WatchInv
<1>13. ASSUME NEW kind \in Kinds, SendApplication(kind, o)
       PROVE  WatchInv'
  <2>1. /\ At(kind, o) = "send"
        /\ UNCHANGED <<orders, executions, run, again, loggedOn, phase, cur, view, inSeq, link,
                       toClient, srvOn, srvOut, venue>>
    BY <1>13 DEF SendApplication, stateVars, loop
  <2>2. CoverInv'
    BY <1>1, <2>1
  <2>3. kind = "place" => o \in Known
    BY <1>0, <2>1 DEF PlacedKnown, Placed
  <2>4. RequestType(kind) = "D" => kind = "place"
    BY DEF RequestType, Kinds
  <2>5. PICK at : Goes(kind, o, at)
    BY <1>13 DEF SendApplication
  <2>6. \A p \in Orders : At("place", p)' # "idle" => At("place", p) # "idle"
    BY <1>4, <2>1, <2>5
  <2>7. CASE active /\ Send(RequestType(kind), o) /\ late' = late
    <3>1. PlacedKnown'
      BY <1>0, <2>1, <2>3, <2>4, <2>6, <2>7, SendPlaced
    <3>2. ServeInv'
      BY <1>2, <2>1, <2>7
    <3> QED
      BY <2>2, <3>1, <3>2 DEF WatchInv
  <2>8. CASE /\ ~active \/ link = "broken"
             /\ toServer' = toServer
             /\ late' \in {late} \union
                  (IF active THEN {late \union {[type |-> RequestType(kind), order |-> o]}}
                   ELSE {})
    <3>1. late' = late \/ link = "broken"
      BY <2>8
    <3>2. ServeInv'
      BY <1>0, <2>1, <3>1 DEF ServeInv, InboundFollows, Served, Before, Fresh
    <3>3. ASSUME NEW p \in Orders, Placed(p)'
          PROVE  p \in Known
      BY <1>0, <2>1, <2>3, <2>4, <2>6, <2>8, <3>3 DEF PlacedKnown, Placed
    <3>4. PlacedKnown'
      BY <2>1, <3>3 DEF PlacedKnown, Known
    <3> QED
      BY <2>2, <3>2, <3>4 DEF WatchInv
  <2> QED
    BY <1>13, <2>7, <2>8 DEF SendApplication, NotSent
<1> QED
  BY <1>8, <1>9, <1>10, <1>11, <1>12, <1>13 DEF CallerStep

-----------------------------------------------------------------------------
(* No fill and no change of an order is lost, in every state: it is in the *)
(* file, or on its way there, or read by the reconciliation.               *)
THEOREM WatchInvHolds == Spec => [](FixInv /\ WatchInv)
<1>1. Init => WatchInv
  <2> SUFFICES ASSUME Init PROVE WatchInv
    OBVIOUS
  <2>1. /\ run = "dial" /\ link = "down" /\ toClient = <<>> /\ toServer = <<>>
        /\ srvOut = 1 /\ ~srvOn /\ ~loggedOn /\ phase = "idle" /\ late = {}
        /\ venue = [o \in Orders |-> [status |-> "none", cum |-> 0]]
        /\ op = [c \in Callers |-> Nowhere]
    BY DEF Init
  <2>2. InboundFollows /\ Served /\ CoverInv
    BY <2>1 DEF CoverInv, LastSays, OrdersCovered, FillsCovered, Watching, InboundFollows, Served
  <2>3. Before /\ Fresh
    BY <2>1 DEF Before, Fresh
  <2>4. PlacedKnown
    BY <2>1 DEF PlacedKnown, Placed, At, Nowhere, Callers, Kinds
  <2> QED
    BY <2>2, <2>3, <2>4 DEF WatchInv, ServeInv
<1>2. FixInv /\ WatchInv /\ [Next]_vars => WatchInv'
  <2> SUFFICES ASSUME FixInv, WatchInv, [Next]_vars PROVE WatchInv'
    OBVIOUS
  <2>1. CASE Next
    BY <2>1, RunWatch, ReceiveWatch, ApplyWatch, RecordWatch, ReadsWatch, RepairsWatch,
       CallerWatch, ServerWatch, BreaksWatch DEF Next, SessionStep
  <2>2. CASE UNCHANGED vars
    <3>1. UNCHANGED <<orders, executions, run, again, loggedOn, phase, cur, view, inSeq, op, link,
                      toServer, toClient, server, venue>>
      BY <2>2 DEF vars, loop
    <3>2. CoverInv' /\ PlacedKnown'
      BY <3>1, CoverFrame, PlacedFrame DEF WatchInv, coverVars, server
    <3>3. ServeInv'
      BY <3>1 DEF WatchInv, ServeInv, InboundFollows, Served, Before, Fresh, server
    <3> QED
      BY <3>2, <3>3 DEF WatchInv
  <2> QED
    BY <2>1, <2>2
<1>3. Spec => []FixInv
  <2>1. Spec => []LinkInv /\ [](TruthInv /\ RestInv)
    BY LinkInvHolds, FixInvHolds
  <2>2. LinkInv /\ TruthInv /\ RestInv => FixInv
    BY DEF FixInv
  <2> QED
    BY <2>1, <2>2, PTL
<1> QED
  BY <1>1, <1>2, <1>3, PTL DEF Spec

(* A logged-on session with nothing left to read knows every fill, and     *)
(* every order as the venue has it unless a cancel keeps its status: read  *)
(* by handleExecutionReport on this connection, or by OnReconnect before.  *)
THEOREM NothingIsMissed == Spec => []CaughtUp
<1>1. FixInv /\ WatchInv => CaughtUp
  <2> SUFFICES ASSUME FixInv, WatchInv, InLoop, loggedOn, link = "up", toClient = <<>>
               PROVE  /\ \A f \in Fills : f[2] <= venue[f[1]].cum => f \in executions
                      /\ \A o \in Known :
                           (venue[o].status # "none"
                              /\ orders[o].status \notin {"PendingCancel", "RejectedCancel"})
                             => orders[o] = venue[o]
    BY DEF CaughtUp
  <2>1. Watching /\ ~Gap(toClient, inSeq) /\ phase = "idle"
    BY DEF Watching, Gap, InLoop
  <2>2. \A o \in Orders : Reports(toClient, o) = {}
    BY DEF Reports
  <2>3. ASSUME NEW o \in Orders, venue[o].status # "none"
        PROVE  Settled(o)
    BY <2>1, <2>2, <2>3 DEF WatchInv, CoverInv, OrdersCovered, OrderCovered
  <2>4. ASSUME NEW o \in Orders, NEW n \in 1 .. Qty, n <= venue[o].cum
        PROVE  <<o, n>> \in executions
    <3>1. FillCovered(o, n)
      BY <2>1, <2>4 DEF WatchInv, CoverInv, FillsCovered
    <3> QED
      BY <2>1, <2>2, <3>1 DEF FillCovered
  <2>5. \A f \in Fills : f[2] <= venue[f[1]].cum => f \in executions
    BY <2>4 DEF Fills
  <2> QED
    BY <2>3, <2>5 DEF Known, Settled
<1> QED
  BY <1>1, WatchInvHolds, PTL
=============================================================================
