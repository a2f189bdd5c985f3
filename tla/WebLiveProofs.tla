---------------------------- MODULE WebLiveProofs -----------------------------
(***************************************************************************)
(* A page with nothing on its way to it shows the manager's snapshot, and  *)
(* a private stream whose messages are worked off has brought the snapshot *)
(* up to date, for any sizes of the queues and any number of changes,      *)
(* faults and restarts.                                                    *)
(***************************************************************************)
EXTENDS WebLive, SequenceTheorems, TLAPS

EventTypes ==
  {"account.updated", "venue.health.updated", "valuation.updated", "resync.required"}

(* What the socket writes.                                                 *)
Envelopes ==
  [type: EventTypes \union {"snapshot"}, seq: Nat, account: Accounts \union {NoAccount}]

WorkerTypes ==
  triggers \in Seq({"this", "other"}) /\ Len(triggers) <= TriggerSize

FeedTypes ==
  /\ events \in Seq(EventTypes) /\ Len(events) <= BufferSize
  /\ toBrowser \in Seq(Envelopes) /\ Len(toBrowser) <= WireSize
  /\ seq \in Nat /\ asked \in Nat /\ controls \in 0 .. ControlSize
  /\ view \in Accounts \union {NoAccount} /\ response \in Accounts \union {NoAccount}

TypeInv == AccountTypeOK /\ StreamTypeOK /\ WorkerTypes /\ FeedTypes

-----------------------------------------------------------------------------
(* What each part does in a step.                                          *)

AccountMoves ==
  \/ AccountChanges \/ RefreshStores \/ RefreshFails \/ RefreshEnds
  \/ Revalue \/ PublishValuation \/ AccountRestart
  \/ \E c \in Refreshers : Refresh(c) \/ WaitTimesOut(c)
  \/ \E ok \in BOOLEAN : RefreshReads(ok)
  \/ \E event \in EventTypes : RefreshAnnounces(event)

StreamMoves ==
  \/ ReadsAnswer \/ ReadsNotification \/ SinkTakes \/ StreamDials \/ StreamBreaks
  \/ ServerServes \/ ServerAnswers \/ StreamRestart
  \/ /\ ServerNotifies
     /\ UNCHANGED <<conn, srv, answered, codQueryDone, subscribed, ready, buffered, queued,
                    leftover>>

Published ==
  /\ \E event \in EventTypes : Publish(event)
  /\ UNCHANGED <<sock, seq, toBrowser, asked, controls, lastSeq, view, response>>

FeedMoves ==
  \/ SocketConnects \/ FirstSnapshot(snap) \/ SendEvent(snap) \/ AnswerResync(snap)
  \/ ReadControl \/ PageReads \/ PagePolls(snap) \/ PollReturns \/ Published
  \/ Closed /\ UNCHANGED <<view, response>>

(* A step of the system moves each part by one of these, or not at all.    *)
LEMMA Moves ==
  ASSUME [Next]_vars
  PROVE  /\ AccountMoves \/ UNCHANGED accountVars
         /\ StreamMoves \/ UNCHANGED streamVars
         /\ FeedMoves \/ UNCHANGED feedVars
<1>0. {"account.updated", "venue.health.updated", "valuation.updated"} \subseteq EventTypes
        /\ {"interval", "trigger"} \subseteq Refreshers
  BY DEF EventTypes, Refreshers
<1>1. AccountMoves \/ UNCHANGED accountVars
  <2>1. CASE UNCHANGED accountVars
    BY <2>1
  <2>2. CASE \/ WorkerTakes \/ RefreshBegins \/ RefreshSucceeds \/ ReadFails
             \/ \E c \in Refreshers : GivesUp(c)
    BY <1>0, <2>2
       DEF AccountMoves, WorkerTakes, RefreshBegins, RefreshSucceeds, ReadFails, GivesUp
  <2>3. CASE \/ ManagerStep \/ Announce \/ PriceChanges \/ AnnounceValuation
             \/ VenueChanges \/ Restart
    BY <1>0, <2>3
       DEF AccountMoves, ManagerStep, Announce, PriceChanges, AnnounceValuation, VenueChanges,
           Restart
  <2> QED
    BY <2>1, <2>2, <2>3
       DEF Next, vars, AnswerArrives, NotificationArrives, SinkTriggers, OtherTriggers,
           WorkerTakesOther, WorkerRechecks, WorkerReturns, StreamStep, StreamIsLost,
           SocketStep, SocketIsLost, PollStep
<1>2. StreamMoves \/ UNCHANGED streamVars
  <2>1. CASE UNCHANGED streamVars
    BY <2>1
  <2>2. CASE \/ AnswerArrives \/ NotificationArrives \/ SinkTriggers \/ VenueChanges
             \/ StreamStep \/ StreamIsLost \/ Restart
    BY <2>2
       DEF StreamMoves, AnswerArrives, NotificationArrives, SinkTriggers, VenueChanges,
           StreamStep, StreamIsLost, Restart
  <2> QED
    BY <2>1, <2>2
       DEF Next, vars, OtherTriggers, WorkerTakes, WorkerTakesOther, WorkerRechecks,
           WorkerReturns, RefreshBegins, RefreshSucceeds, ReadFails, GivesUp, ManagerStep,
           Announce, PriceChanges, AnnounceValuation, SocketStep, SocketIsLost, PollStep
<1>3. FeedMoves \/ UNCHANGED feedVars
  <2>1. CASE UNCHANGED feedVars
    BY <2>1
  <2>2. CASE Announce \/ AnnounceValuation
    BY <1>0, <2>2 DEF FeedMoves, Published, Announce, AnnounceValuation
  <2>3. CASE SocketStep \/ SocketIsLost \/ PollStep \/ Restart
    BY <2>3 DEF FeedMoves, SocketStep, SocketIsLost, SocketCloses, PollStep, Restart
  <2> QED
    BY <2>1, <2>2, <2>3
       DEF Next, vars, AnswerArrives, NotificationArrives, SinkTriggers, OtherTriggers,
           WorkerTakes, WorkerTakesOther, WorkerRechecks, WorkerReturns, RefreshBegins,
           RefreshSucceeds, ReadFails, GivesUp, ManagerStep, PriceChanges, VenueChanges,
           StreamStep, StreamIsLost
<1> QED
  BY <1>1, <1>2, <1>3

-----------------------------------------------------------------------------
(* Types.                                                                  *)

(* No step of the manager leaves its types.                                *)
LEMMA AccountTypes ==
  ASSUME AccountTypeOK, AccountMoves \/ UNCHANGED accountVars
  PROVE  AccountTypeOK'
<1> DEFINE Calls == [at: CallSteps, by: Refreshers, got: Nat]
<1>0. MaxChanges \in Nat /\ MaxRevalues \in Nat /\ NoAccount \notin Accounts
  BY AccountLimits DEF Accounts
<1>c. call \in Calls /\ venueAccount \in Nat
  BY <1>0 DEF AccountTypeOK
<1>d. ASSUME NEW step \in CallSteps, NEW n \in Nat
      PROVE  /\ [call EXCEPT !.at = step] \in Calls
             /\ [call EXCEPT !.at = step, !.got = n] \in Calls
             /\ \A c \in Refreshers : [at |-> step, by |-> c, got |-> n] \in Calls
  BY <1>c
<1>e. {"none", "reading", "read", "failed", "stored", "updated", "done"} = CallSteps
  BY DEF CallSteps
<1>f. ASSUME call' \in Calls, UNCHANGED <<venueAccount, inst, revalues, repriced>>,
             UNCHANGED caller, UNCHANGED <<snap, revision>>
      PROVE  AccountTypeOK'
  BY <1>f DEF AccountTypeOK
<1> HIDE DEF Calls
<1>1. CASE AccountChanges
  BY <1>0, <1>1 DEF AccountChanges, AccountTypeOK
<1>2. CASE RefreshStores
  <2>1. revision' \in Nat /\ call.got \in Nat /\ inst \in Nat /\ "stored" \in CallSteps
    BY <1>2, <1>c, <1>e DEF RefreshStores, AccountTypeOK, Calls
  <2>2. snap' \in Accounts
    BY <1>2, <2>1 DEF RefreshStores, Accounts
  <2>3. call' \in Calls
    BY <1>2, <1>d, <2>1 DEF RefreshStores
  <2> QED
    BY <1>2, <2>1, <2>2, <2>3 DEF RefreshStores, AccountTypeOK, Calls
<1>3. CASE RefreshFails
  BY <1>3, <1>d, <1>e, <1>f DEF RefreshFails
<1>4. CASE RefreshEnds \/ AccountRestart
  <2>1. call' = NoCall /\ caller' = [c \in Refreshers |-> "idle"]
    BY <1>4 DEF RefreshEnds, AccountRestart, Empty
  <2>2. NoCall \in Calls
    BY DEF NoCall, Calls, CallSteps, Refreshers
  <2>3. caller' \in [Refreshers -> {"idle", "waiting"}]
    BY <2>1
  <2>4. CASE RefreshEnds
    BY <2>1, <2>2, <2>3, <2>4 DEF RefreshEnds, AccountTypeOK, Calls
  <2>5. CASE AccountRestart
    <3>1. /\ inst' \in Nat /\ revision' \in Nat /\ snap' = NoAccount /\ repriced' = FALSE
          /\ UNCHANGED <<venueAccount, revalues>>
      BY <2>5 DEF AccountRestart, Empty, AccountTypeOK
    <3>2. call' \in Calls
      BY <2>1, <2>2
    <3> QED
      BY <2>3, <3>1, <3>2 DEF AccountTypeOK, Calls
  <2> QED
    BY <1>4, <2>4, <2>5
<1>5. CASE Revalue
  BY <1>0, <1>5 DEF Revalue, AccountTypeOK, Accounts
<1>6. CASE PublishValuation
  BY <1>6 DEF PublishValuation, AccountTypeOK
<1>7. ASSUME NEW c \in Refreshers, Refresh(c) \/ WaitTimesOut(c)
      PROVE  AccountTypeOK'
  <2>1. caller' \in [Refreshers -> {"idle", "waiting"}]
    BY <1>7 DEF Refresh, WaitTimesOut, AccountTypeOK
  <2>2. call' \in Calls
    <3>1. [at |-> "reading", by |-> c, got |-> 0] \in Calls
      BY <1>d, <1>e
    <3>2. call' = call \/ call' = [at |-> "reading", by |-> c, got |-> 0]
      BY <1>7 DEF Refresh, WaitTimesOut
    <3> QED
      BY <1>c, <3>1, <3>2
  <2> QED
    BY <1>7, <2>1, <2>2 DEF Refresh, WaitTimesOut, AccountTypeOK, Calls
<1>8. ASSUME NEW ok \in BOOLEAN, RefreshReads(ok)
      PROVE  AccountTypeOK'
  <2>1. call' \in Calls
    BY <1>8, <1>c, <1>d, <1>e DEF RefreshReads
  <2> QED
    BY <1>8, <1>f, <2>1 DEF RefreshReads
<1>9. ASSUME NEW event, RefreshAnnounces(event)
      PROVE  AccountTypeOK'
  BY <1>9, <1>d, <1>e, <1>f DEF RefreshAnnounces
<1>10. CASE UNCHANGED accountVars
  BY <1>10 DEF accountVars, AccountTypeOK
<1> QED
  BY <1>1, <1>2, <1>3, <1>4, <1>5, <1>6, <1>7, <1>8, <1>9, <1>10 DEF AccountMoves

(* The connection is given up.                                             *)
LEMMA LostTypes ==
  ASSUME StreamTypeOK, Lost \/ StreamRestart
  PROVE  StreamTypeOK'
<1>0. QueueSize \in Nat /\ leftover \in Nat /\ queued \in Nat
  BY StreamLimits DEF StreamTypeOK
<1>1. <<>> \in Seq({"cod", "subscribe", "changed"})
  OBVIOUS
<1>2. leftover' \in Nat
  BY <1>0 DEF Lost, StreamRestart
<1>3. wire' = <<>> /\ conn' = "down" /\ srv' = 0 /\ answered' = 0 /\ buffered' = 0 /\ queued' = 0
        /\ codQueryDone' = FALSE /\ subscribed' = FALSE /\ ready' = FALSE
  BY DEF Lost, StreamRestart
<1>4. {srv', answered'} \subseteq 0 .. 2 /\ {buffered', queued'} \subseteq 0 .. QueueSize
  BY <1>0, <1>3
<1>5. {codQueryDone', subscribed', ready'} \subseteq BOOLEAN
  BY <1>3
<1> QED
  BY <1>1, <1>2, <1>3, <1>4, <1>5 DEF StreamTypeOK

(* No step of the stream leaves its types: neither buffer passes QueueSize. *)
LEMMA StreamTypes ==
  ASSUME StreamTypeOK, StreamMoves \/ UNCHANGED streamVars
  PROVE  StreamTypeOK'
<1> DEFINE T == {"cod", "subscribe", "changed"}
<1>0. /\ QueueSize \in Nat \ {0} /\ wire \in Seq(T) /\ buffered \in 0 .. QueueSize
      /\ queued \in 0 .. QueueSize /\ leftover \in Nat
      /\ srv \in 0 .. 2 /\ answered \in 0 .. 2
  BY StreamLimits DEF StreamTypeOK
<1>1. <<>> \in Seq(T) /\ (wire # <<>> => Tail(wire) \in Seq(T))
        /\ \A m \in T : Append(wire, m) \in Seq(T)
  BY <1>0
<1> HIDE DEF T
<1>2. CASE ReadsAnswer
  <2>1. wire # <<>>
    BY <1>2 DEF ReadsAnswer, Incoming
  <2> QED
    BY <1>0, <1>1, <1>2, <2>1 DEF ReadsAnswer, StreamTypeOK, T
<1>4. CASE ReadsNotification
  <2>1. wire # <<>>
    BY <1>4 DEF ReadsNotification, Incoming
  <2>2. CASE Lost
    BY <2>2, LostTypes
  <2>3. CASE ~Lost
    <3>1. /\ wire' \in Seq(T)
          /\ UNCHANGED <<conn, srv, answered, codQueryDone, subscribed, ready, leftover>>
      BY <1>1, <1>4, <2>1, <2>3 DEF ReadsNotification
    <3>2. buffered' \in 0 .. QueueSize /\ queued' \in 0 .. QueueSize
      BY <1>0, <1>4, <2>3 DEF ReadsNotification
    <3> QED
      BY <3>1, <3>2 DEF StreamTypeOK, T
  <2> QED
    BY <2>2, <2>3
<1>5. CASE SinkTakes
  BY <1>0, <1>5 DEF SinkTakes, StreamTypeOK
<1>12. CASE StreamDials
  BY <1>0, <1>12 DEF StreamDials, StreamTypeOK
<1>13. CASE ServerServes
  BY <1>0, <1>13 DEF ServerServes, StreamTypeOK
<1>6. CASE StreamBreaks \/ StreamRestart
  BY <1>6, LostTypes DEF StreamBreaks
<1>7. CASE ServerAnswers
  BY <1>0, <1>1, <1>7 DEF ServerAnswers, StreamTypeOK, T
<1>8. CASE /\ ServerNotifies
           /\ UNCHANGED <<conn, srv, answered, codQueryDone, subscribed, ready, buffered, queued,
                          leftover>>
  BY <1>0, <1>1, <1>8 DEF ServerNotifies, StreamTypeOK, T
<1>9. CASE UNCHANGED streamVars
  BY <1>9 DEF streamVars, StreamTypeOK
<1> QED
  BY <1>2, <1>4, <1>5, <1>6, <1>7, <1>8, <1>9, <1>12, <1>13 DEF StreamMoves

(* A trigger is queued, or the channel is full.                            *)
LEMMA Triggers ==
  ASSUME WorkerTypes, NEW venue \in {"this", "other"}, triggerVenue(venue)
  PROVE  /\ WorkerTypes' /\ (Queued("this") => Queued("this")')
         /\ Queued(venue)' \/ Len(triggers) = TriggerSize
<1> DEFINE V == {"this", "other"}
<1>1. triggers \in Seq(V) /\ Len(triggers) \in Nat /\ TriggerSize \in Nat
        /\ Len(triggers) <= TriggerSize
  BY LiveLimits, LenProperties DEF WorkerTypes
<1>2. CASE Len(triggers) < TriggerSize
  <2>1. triggers' = Append(triggers, venue)
    BY <1>2 DEF triggerVenue
  <2>2. /\ triggers' \in Seq(V) /\ Len(triggers') = Len(triggers) + 1
        /\ \A i \in 1 .. Len(triggers) : triggers'[i] = triggers[i]
        /\ triggers'[Len(triggers) + 1] = venue
        /\ DOMAIN triggers' = 1 .. Len(triggers) + 1 /\ DOMAIN triggers = 1 .. Len(triggers)
    BY <1>1, <2>1, AppendProperties, LenProperties
  <2>3. Queued(venue)'
    BY <1>1, <2>2 DEF Queued
  <2>4. Queued("this") => Queued("this")'
    BY <1>1, <2>2 DEF Queued
  <2> QED
    BY <1>1, <1>2, <2>2, <2>3, <2>4 DEF WorkerTypes
<1>3. CASE ~(Len(triggers) < TriggerSize)
  BY <1>1, <1>3 DEF triggerVenue, WorkerTypes, Queued
<1> QED
  BY <1>2, <1>3

(* The worker takes a trigger.                                             *)
LEMMA TriggerTaken ==
  ASSUME WorkerTypes, triggers # <<>>, triggers' = Tail(triggers)
  PROVE  WorkerTypes' /\ (Head(triggers) # "this" /\ Queued("this") => Queued("this")')
<1> DEFINE V == {"this", "other"}
<1>1. /\ triggers \in Seq(V) /\ Len(triggers) \in Nat /\ Len(triggers) >= 1
      /\ DOMAIN triggers = 1 .. Len(triggers) /\ Len(triggers) <= TriggerSize
      /\ TriggerSize \in Nat
  BY LiveLimits, LenProperties, EmptySeq DEF WorkerTypes
<1>2. /\ triggers' \in Seq(V) /\ Len(triggers') = Len(triggers) - 1
      /\ Head(triggers) = triggers[1]
      /\ \A i \in 1 .. Len(triggers') : triggers'[i] = triggers[i + 1]
  BY <1>1, HeadTailProperties
<1>3. DOMAIN triggers' = 1 .. Len(triggers) - 1
  BY <1>2, LenProperties
<1>4. ASSUME Head(triggers) # "this", Queued("this")
      PROVE  Queued("this")'
  <2>1. PICK i \in DOMAIN triggers : triggers[i] = "this"
    BY <1>4 DEF Queued
  <2>2. i # 1 /\ i \in 1 .. Len(triggers)
    BY <1>1, <1>2, <1>4, <2>1
  <2>3. i - 1 \in 1 .. Len(triggers') /\ (i - 1) + 1 = i
    BY <1>1, <1>2, <2>2
  <2>4. triggers'[i - 1] = "this"
    BY <1>2, <2>1, <2>3
  <2> QED
    BY <1>2, <1>3, <2>3, <2>4 DEF Queued
<1> QED
  BY <1>1, <1>2, <1>4 DEF WorkerTypes

-----------------------------------------------------------------------------
(* Queues.                                                                 *)

(* What a message added to a queue leaves alone.                           *)
LEMMA Added ==
  ASSUME NEW T, NEW q \in Seq(T), NEW e \in T
  PROVE  /\ Append(q, e) \in Seq(T) /\ Len(q) \in Nat /\ Len(Append(q, e)) = Len(q) + 1
         /\ DOMAIN q = 1 .. Len(q) /\ DOMAIN Append(q, e) = 1 .. Len(q) + 1
         /\ \A i \in DOMAIN q : Append(q, e)[i] = q[i]
         /\ Append(q, e)[Len(q) + 1] = e
<1>1. /\ Append(q, e) \in Seq(T) /\ Len(Append(q, e)) = Len(q) + 1
      /\ \A i \in 1 .. Len(q) : Append(q, e)[i] = q[i]
      /\ Append(q, e)[Len(q) + 1] = e
  BY AppendProperties
<1>2. DOMAIN q = 1 .. Len(q) /\ Len(q) \in Nat
  BY LenProperties
<1>3. DOMAIN Append(q, e) = 1 .. Len(Append(q, e))
  BY <1>1, LenProperties
<1> QED
  BY <1>1, <1>2, <1>3

(* Every message of a queue is its head or stays in it.                    *)
LEMMA Taken ==
  ASSUME NEW T, NEW q \in Seq(T), q # <<>>
  PROVE  /\ Tail(q) \in Seq(T) /\ Len(q) \in Nat \ {0} /\ Len(Tail(q)) = Len(q) - 1
         /\ Head(q) \in T /\ Head(q) = q[1]
         /\ \A i \in DOMAIN q : i = 1 \/ (i - 1 \in DOMAIN Tail(q) /\ Tail(q)[i - 1] = q[i])
         /\ \A i \in DOMAIN Tail(q) : i + 1 \in DOMAIN q /\ Tail(q)[i] = q[i + 1]
<1>1. /\ Tail(q) \in Seq(T) /\ Head(q) \in T /\ Len(Tail(q)) = Len(q) - 1
      /\ \A i \in 1 .. Len(Tail(q)) : Tail(q)[i] = q[i + 1]
  BY HeadTailProperties
<1>2. DOMAIN q = 1 .. Len(q) /\ Len(q) \in Nat /\ Len(q) # 0
  BY LenProperties, EmptySeq
<1>3. DOMAIN Tail(q) = 1 .. Len(q) - 1
  BY <1>1, LenProperties
<1>4. Head(q) = q[1]
  OBVIOUS
<1>5. ASSUME NEW i \in DOMAIN q, i # 1
      PROVE  i - 1 \in DOMAIN Tail(q) /\ Tail(q)[i - 1] = q[i]
  <2>1. i \in 2 .. Len(q)
    BY <1>2, <1>5
  <2>2. i - 1 \in 1 .. Len(q) - 1 /\ (i - 1) + 1 = i
    BY <1>2, <2>1
  <2>3. Tail(q)[i - 1] = q[(i - 1) + 1]
    BY <1>1, <2>2
  <2> QED
    BY <1>3, <2>2, <2>3
<1>6. ASSUME NEW i \in DOMAIN Tail(q)
      PROVE  i + 1 \in DOMAIN q /\ Tail(q)[i] = q[i + 1]
  BY <1>1, <1>2, <1>3, <1>6
<1> QED
  BY <1>1, <1>2, <1>4, <1>5, <1>6

-----------------------------------------------------------------------------
(* The feed's types.                                                       *)

(* What the socket writes has its type, and fits.                          *)
LEMMA WriteTypes ==
  ASSUME FeedTypes, NEW type \in EventTypes \union {"snapshot"},
         NEW account \in Accounts \union {NoAccount}, Writes(type, account)
  PROVE  toBrowser' \in Seq(Envelopes) /\ Len(toBrowser') <= WireSize /\ seq' \in Nat
<1>1. seq \in Nat /\ WireSize \in Nat /\ toBrowser \in Seq(Envelopes)
  BY FeedLimits DEF FeedTypes
<1>2. Envelope(type, account) \in Envelopes
  BY <1>1 DEF Envelope, Envelopes
<1>3. /\ Append(toBrowser, Envelope(type, account)) \in Seq(Envelopes) /\ Len(toBrowser) \in Nat
      /\ Len(Append(toBrowser, Envelope(type, account))) = Len(toBrowser) + 1
  BY <1>1, <1>2, Added
<1> QED
  BY <1>1, <1>3 DEF Writes, Room

(* No step of the broker, the socket or the page overfills a queue.        *)
LEMMA FeedTypesKept ==
  ASSUME FeedTypes, snap \in Accounts \union {NoAccount}, FeedMoves \/ UNCHANGED feedVars
  PROVE  FeedTypes'
<1> DEFINE Known == Accounts \union {NoAccount}
<1>0. /\ BufferSize \in Nat \ {0} /\ ControlSize \in Nat \ {0} /\ WireSize \in Nat \ {0}
      /\ NoPage = NoAccount
  BY FeedLimits, LiveLimits
<1>t. /\ events \in Seq(EventTypes) /\ Len(events) <= BufferSize
      /\ toBrowser \in Seq(Envelopes) /\ Len(toBrowser) <= WireSize
      /\ seq \in Nat /\ asked \in Nat /\ controls \in 0 .. ControlSize
      /\ view \in Known /\ response \in Known /\ snap \in Known
  BY DEF FeedTypes
<1>k. \A a \in Known : AcceptAccount(a) \in Known
  BY <1>t DEF AcceptAccount
<1>n. <<>> \in Seq(EventTypes) /\ <<>> \in Seq(Envelopes)
  OBVIOUS
<1>z. Len(<<>>) = 0
  OBVIOUS
<1> HIDE DEF Known
<1>1. CASE SocketConnects
  BY <1>1, <1>t DEF SocketConnects, FeedTypes, Known
<1>2. CASE FirstSnapshot(snap)
  <2>1. toBrowser' \in Seq(Envelopes) /\ Len(toBrowser') <= WireSize /\ seq' \in Nat
    BY <1>2, WriteTypes DEF FirstSnapshot
  <2> QED
    BY <1>2, <1>t, <2>1 DEF FirstSnapshot, FeedTypes, Known
<1>3. CASE SendEvent(snap)
  <2>1. events # <<>>
    BY <1>3 DEF SendEvent
  <2>2. /\ events' = Tail(events) /\ Tail(events) \in Seq(EventTypes)
        /\ Head(events) \in EventTypes /\ Len(events) \in Nat /\ Len(events') = Len(events) - 1
    BY <1>3, <1>t, <2>1, Taken DEF SendEvent
  <2>3. \E type \in EventTypes \union {"snapshot"} : Writes(type, snap)
    BY <1>3, <2>2 DEF SendEvent, EventTypes
  <2>4. toBrowser' \in Seq(Envelopes) /\ Len(toBrowser') <= WireSize /\ seq' \in Nat
    BY <2>3, WriteTypes
  <2>5. Len(events') <= BufferSize
    BY <1>0, <1>t, <2>2
  <2>6. UNCHANGED <<asked, controls, view, response>>
    BY <1>3 DEF SendEvent
  <2> QED
    BY <1>t, <2>2, <2>4, <2>5, <2>6 DEF FeedTypes, Known
<1>4. CASE AnswerResync(snap)
  <2>1. toBrowser' \in Seq(Envelopes) /\ Len(toBrowser') <= WireSize /\ seq' \in Nat
    BY <1>4, WriteTypes DEF AnswerResync
  <2>2. controls' \in 0 .. ControlSize /\ UNCHANGED <<events, asked, view, response>>
    BY <1>0, <1>4, <1>t DEF AnswerResync
  <2> QED
    BY <1>t, <2>1, <2>2 DEF FeedTypes, Known
<1>5. ASSUME Closed, UNCHANGED <<view, response>>
      PROVE  FeedTypes'
  <2>1. events' = <<>> /\ seq' = 0 /\ toBrowser' = <<>> /\ asked' = 0 /\ controls' = 0
    BY <1>5 DEF Closed
  <2> QED
    BY <1>0, <1>5, <1>n, <1>t, <1>z, <2>1 DEF FeedTypes, Known
<1>6. CASE ReadControl
  <2>1. CASE Closed
    BY <1>5, <1>6, <2>1 DEF ReadControl
  <2>2. CASE ~Closed
    <3>1. asked' \in Nat /\ controls' \in 0 .. ControlSize
            /\ UNCHANGED <<events, toBrowser, seq, view, response>>
      BY <1>0, <1>6, <1>t, <2>2 DEF ReadControl
    <3> QED
      BY <1>t, <3>1 DEF FeedTypes, Known
  <2> QED
    BY <2>1, <2>2
<1>7. CASE PageReads
  <2>1. toBrowser # <<>>
    BY <1>7 DEF PageReads
  <2>2. /\ toBrowser' = Tail(toBrowser) /\ Tail(toBrowser) \in Seq(Envelopes)
        /\ Head(toBrowser) \in Envelopes /\ Len(toBrowser) \in Nat
        /\ Len(toBrowser') = Len(toBrowser) - 1
    BY <1>7, <1>t, <2>1, Taken DEF PageReads
  <2>3. Len(toBrowser') <= WireSize
    BY <1>0, <1>t, <2>2
  <2>4. Head(toBrowser).account \in Known
    BY <2>2 DEF Envelopes, Known
  <2>5. view' \in Known
    BY <1>7, <1>k, <1>t, <2>4 DEF PageReads
  <2>6. asked' \in Nat /\ UNCHANGED <<events, seq, controls, response>>
    BY <1>7, <1>t DEF PageReads
  <2> QED
    BY <1>t, <2>2, <2>3, <2>5, <2>6 DEF FeedTypes, Known
<1>8. CASE PagePolls(snap)
  BY <1>8, <1>t DEF PagePolls, socketVars, FeedTypes, Known
<1>9. CASE PollReturns
  <2>1. view' \in Known /\ response' \in Known /\ UNCHANGED socketVars
    BY <1>0, <1>9, <1>k, <1>t DEF PollReturns, Known
  <2> QED
    BY <1>t, <2>1 DEF socketVars, FeedTypes, Known
<1>10. CASE Published
  <2>1. PICK type \in EventTypes : Publish(type)
    BY <1>10 DEF Published
  <2>2. /\ Append(events, type) \in Seq(EventTypes) /\ Len(events) \in Nat
        /\ Len(Append(events, type)) = Len(events) + 1
    BY <1>t, Added
  <2>3. <<"resync.required">> \in Seq(EventTypes) /\ Len(<<"resync.required">>) = 1
    BY DEF EventTypes
  <2>4. events' \in Seq(EventTypes) /\ Len(events') <= BufferSize
    BY <1>0, <1>t, <2>1, <2>2, <2>3 DEF Publish
  <2>5. UNCHANGED <<seq, toBrowser, asked, controls, view, response>>
    BY <1>10 DEF Published
  <2> QED
    BY <1>t, <2>4, <2>5 DEF FeedTypes, Known
<1>11. CASE UNCHANGED feedVars
  BY <1>11, <1>t DEF feedVars, FeedTypes, Known
<1> QED
  BY <1>1, <1>2, <1>3, <1>4, <1>5, <1>6, <1>7, <1>8, <1>9, <1>10, <1>11 DEF FeedMoves

(* The channel of triggers is used in one of these ways, or not at all.    *)
LEMMA TriggersMove ==
  ASSUME [Next]_vars
  PROVE  \/ UNCHANGED triggers \/ triggers' = <<>>
         \/ triggerVenue("this") \/ triggerVenue("other")
         \/ triggers # <<>> /\ triggers' = Tail(triggers)
<1>1. CASE AnswerArrives \/ SinkTriggers \/ OtherTriggers
  BY <1>1 DEF AnswerArrives, SinkTriggers, OtherTriggers, OnReady, StreamTriggers
<1>2. CASE WorkerTakes \/ WorkerTakesOther
  BY <1>2 DEF WorkerTakes, WorkerTakesOther
<1>3. CASE Restart
  BY <1>3 DEF Restart
<1>4. CASE UNCHANGED vars
  BY <1>4 DEF vars, workerVars
<1> QED
  BY <1>1, <1>2, <1>3, <1>4
     DEF Next, workerVars, NotificationArrives, WorkerRechecks, WorkerReturns,
         RefreshBegins, RefreshSucceeds, ReadFails, GivesUp, ManagerStep, Announce,
         PriceChanges, AnnounceValuation, VenueChanges, StreamStep, StreamIsLost,
         SocketStep, SocketIsLost, PollStep

(* The channel of triggers never holds more than TriggerSize.              *)
LEMMA WorkerTypesKept == ASSUME WorkerTypes, [Next]_vars PROVE WorkerTypes'
<1>1. CASE UNCHANGED triggers
  BY <1>1 DEF WorkerTypes
<1>2. CASE triggers' = <<>>
  <2>1. <<>> \in Seq({"this", "other"}) /\ Len(<<>>) = 0
    OBVIOUS
  <2> QED
    BY <1>2, <2>1, LiveLimits DEF WorkerTypes
<1>3. CASE triggerVenue("this") \/ triggerVenue("other")
  BY <1>3, Triggers
<1>4. CASE triggers # <<>> /\ triggers' = Tail(triggers)
  BY <1>4, TriggerTaken
<1> QED
  BY <1>1, <1>2, <1>3, <1>4, TriggersMove

(* A step keeps every part in its types.                                   *)
LEMMA TypesKept == ASSUME TypeInv, [Next]_vars PROVE TypeInv'
<1>1. AccountTypeOK'
  BY Moves, AccountTypes DEF TypeInv
<1>2. StreamTypeOK'
  BY Moves, StreamTypes DEF TypeInv
<1>3. FeedTypes'
  BY Moves, FeedTypesKept DEF TypeInv, AccountTypeOK
<1>4. WorkerTypes'
  BY WorkerTypesKept DEF TypeInv
<1> QED
  BY <1>1, <1>2, <1>3, <1>4 DEF TypeInv

(* The server starts in its types.                                         *)
LEMMA TypesAtFirst == Init => TypeInv
<1> SUFFICES ASSUME Init PROVE TypeInv
  OBVIOUS
<1>1. AccountTypeOK
  <2>1. NoCall \in [at: CallSteps, by: Refreshers, got: Nat]
    BY DEF NoCall, CallSteps, Refreshers
  <2> QED
    <3>1. /\ venueAccount = 1 /\ inst = 1 /\ snap = NoAccount /\ revision = 0
          /\ call = NoCall /\ caller = [c \in Refreshers |-> "idle"]
          /\ revalues = 0 /\ repriced = FALSE
      BY DEF Init, AccountInit
    <3>2. caller \in [Refreshers -> {"idle", "waiting"}]
      BY <3>1
    <3>3. MaxChanges \in Nat /\ MaxRevalues \in Nat
      BY AccountLimits
    <3>4. venueAccount \in 1 .. MaxChanges + 1 /\ revalues \in 0 .. MaxRevalues
      BY <3>1, <3>3
    <3> QED
      BY <2>1, <3>1, <3>2, <3>4 DEF AccountTypeOK
<1>2. StreamTypeOK
  <2>1. <<>> \in Seq({"cod", "subscribe", "changed"})
    OBVIOUS
  <2>2. /\ conn = "down" /\ srv = 0 /\ answered = 0 /\ wire = <<>>
        /\ codQueryDone = FALSE /\ subscribed = FALSE /\ ready = FALSE
        /\ buffered = 0 /\ queued = 0 /\ leftover = 0
    BY DEF Init, StreamInit
  <2>3. {codQueryDone, subscribed, ready} \subseteq BOOLEAN
    BY <2>2
  <2> QED
    BY <2>1, <2>2, <2>3, StreamLimits DEF StreamTypeOK
<1>3. WorkerTypes
  <2>1. <<>> \in Seq({"this", "other"}) /\ Len(<<>>) = 0
    OBVIOUS
  <2> QED
    BY <2>1, LiveLimits DEF Init, WorkerTypes
<1>4. FeedTypes
  <2>1. <<>> \in Seq(EventTypes) /\ <<>> \in Seq(Envelopes) /\ Len(<<>>) = 0
    OBVIOUS
  <2>2. /\ events = <<>> /\ seq = 0 /\ toBrowser = <<>>
        /\ asked = 0 /\ controls = 0 /\ view = NoAccount /\ response = NoAccount
    BY LiveLimits DEF Init, FeedInit
  <2> QED
    BY <2>1, <2>2, FeedLimits DEF FeedTypes
<1> QED
  BY <1>1, <1>2, <1>3, <1>4 DEF TypeInv

(* The types hold in every reachable state.                                *)
LEMMA TypesHold == Spec => []TypeInv
BY TypesAtFirst, TypesKept, PTL DEF Spec

(* Every variable has its type and every queue stays within its channel,   *)
(* whatever their sizes are: the triggers', the subscriber's, the          *)
(* controls', the stream's two, the connection's.                          *)
THEOREM LiveTypeCorrect == Spec => []TypeOK
<1>1. TypeInv => TypeOK
  BY FeedLimits DEF TypeInv, TypeOK, WorkerTypes, FeedTypes
<1> QED
  BY <1>1, TypesHold, PTL

-----------------------------------------------------------------------------
(* What the page and its connection know is never newer than the           *)
(* manager's snapshot.                                                     *)

Known == Accounts \union {NoAccount}

(* An account of this process has at most the snapshot's revision, and is  *)
(* the snapshot when it has that one.                                      *)
NotAfter(a) ==
  a # NoAccount =>
    /\ a.inst <= inst
    /\ a.inst = inst =>
         snap # NoAccount /\ a.rev <= snap.rev /\ (a.rev = snap.rev => a = snap)

SnapInv == snap # NoAccount => snap.inst = inst /\ snap.rev <= revision

AheadInv ==
  /\ SnapInv /\ NotAfter(view) /\ NotAfter(response)
  /\ \A j \in DOMAIN toBrowser : NotAfter(toBrowser[j].account)

(* The snapshot gets a new revision, and the page will be told.            *)
Replaced ==
  /\ inst' = inst /\ revision' = revision + 1
  /\ snap' \in Accounts /\ snap'.inst = inst /\ snap'.rev = revision + 1
  /\ call'.at = "stored" \/ repriced'

(* The snapshot stays, gets the next revision, or is lost with its process. *)
LEMMA SnapMoves ==
  ASSUME AccountTypeOK, SnapInv, AccountMoves \/ UNCHANGED accountVars
  PROVE  \/ /\ UNCHANGED <<inst, snap, revision>>
            /\ call.at = "stored" =>
                 call'.at = "stored" \/ RefreshAnnounces("account.updated")
            /\ repriced => repriced' \/ PublishValuation
         \/ Replaced
         \/ AccountRestart
<1>c. call \in [at: CallSteps, by: Refreshers, got: Nat] /\ inst \in Nat /\ revision \in Nat
        /\ snap \in Accounts \union {NoAccount}
  BY DEF AccountTypeOK
<1>1. CASE RefreshStores
  <2>1. snap' \in Accounts /\ snap'.inst = inst /\ snap'.rev = revision + 1
    BY <1>1, <1>c DEF RefreshStores, Accounts
  <2>2. call'.at = "stored"
    BY <1>1, <1>c DEF RefreshStores
  <2> QED
    BY <1>1, <2>1, <2>2 DEF RefreshStores, Replaced
<1>2. CASE Revalue
  <2>1. snap' \in Accounts /\ snap'.inst = inst /\ snap'.rev = revision + 1
    BY <1>2, <1>c DEF Revalue, Accounts, SnapInv
  <2> QED
    BY <1>2, <2>1 DEF Revalue, Replaced
<1>3. CASE AccountChanges \/ RefreshFails \/ RefreshEnds \/ PublishValuation
  BY <1>3, <1>c DEF AccountChanges, RefreshFails, RefreshEnds, PublishValuation
<1>4. ASSUME NEW c \in Refreshers, Refresh(c) \/ WaitTimesOut(c)
      PROVE  UNCHANGED <<inst, snap, revision, repriced>>
               /\ (call.at = "stored" => call'.at = "stored")
  BY <1>4 DEF Refresh, WaitTimesOut
<1>5. ASSUME NEW ok \in BOOLEAN, RefreshReads(ok)
      PROVE  UNCHANGED <<inst, snap, revision, repriced>> /\ call.at # "stored"
  BY <1>5 DEF RefreshReads
<1>6. ASSUME NEW event, RefreshAnnounces(event)
      PROVE  /\ UNCHANGED <<inst, snap, revision, repriced>>
             /\ call.at = "stored" => event = "account.updated"
  BY <1>6 DEF RefreshAnnounces
<1>7. CASE UNCHANGED accountVars
  BY <1>7 DEF accountVars
<1> QED
  BY <1>1, <1>2, <1>3, <1>4, <1>5, <1>6, <1>7 DEF AccountMoves

(* An account that was not ahead of the snapshot stays so.                 *)
LEMMA AheadLasts ==
  ASSUME AccountTypeOK, SnapInv, AccountMoves \/ UNCHANGED accountVars
  PROVE  SnapInv' /\ \A a \in Known : NotAfter(a) => NotAfter(a)'
<1>t. inst \in Nat /\ revision \in Nat /\ snap \in Known /\ NoAccount \notin Accounts
  BY AccountLimits DEF AccountTypeOK, Known, Accounts
<1>1. CASE UNCHANGED <<inst, snap, revision>>
  BY <1>1 DEF SnapInv, NotAfter
<1>2. CASE Replaced
  <2>1. SnapInv'
    BY <1>2, <1>t DEF Replaced, SnapInv
  <2>2. ASSUME NEW a \in Known, NotAfter(a), a # NoAccount
        PROVE  NotAfter(a)'
    <3>1. a.inst <= inst' /\ snap' # NoAccount
      BY <1>2, <1>t, <2>2 DEF Replaced, NotAfter
    <3>2. ASSUME a.inst = inst
          PROVE  a.rev <= revision
      BY <1>t, <2>2, <3>2 DEF NotAfter, SnapInv, Known, Accounts
    <3>3. a.rev \in Nat
      BY <2>2 DEF Known, Accounts
    <3> QED
      BY <1>2, <1>t, <3>1, <3>2, <3>3 DEF Replaced, NotAfter
  <2> QED
    BY <2>1, <2>2 DEF NotAfter
<1>3. CASE AccountRestart
  <2>1. inst' = inst + 1 /\ snap' = NoAccount
    BY <1>3 DEF AccountRestart, Empty
  <2>2. ASSUME NEW a \in Known, NotAfter(a), a # NoAccount
        PROVE  a.inst <= inst' /\ a.inst # inst'
    BY <1>t, <2>1, <2>2 DEF NotAfter, Known, Accounts
  <2> QED
    BY <2>1, <2>2 DEF SnapInv, NotAfter
<1> QED
  BY <1>1, <1>2, <1>3, SnapMoves

(* The accounts the page, its connection and the manager hold.             *)
Held ==
  {view, response, snap, NoAccount} \union {toBrowser[j].account : j \in DOMAIN toBrowser}

(* A write adds one envelope, which holds the account that was read.       *)
LEMMA WritesHeld ==
  ASSUME FeedTypes, NEW type \in EventTypes \union {"snapshot"},
         NEW account \in Accounts \union {NoAccount}, Writes(type, account)
  PROVE  /\ DOMAIN toBrowser \subseteq DOMAIN toBrowser'
         /\ \A j \in DOMAIN toBrowser : toBrowser'[j] = toBrowser[j]
         /\ DOMAIN toBrowser' = DOMAIN toBrowser \union {Len(toBrowser) + 1}
         /\ toBrowser'[Len(toBrowser) + 1].type = type
         /\ toBrowser'[Len(toBrowser) + 1].account = account
<1> DEFINE e == Envelope(type, account)
<1>1. toBrowser \in Seq(Envelopes) /\ seq \in Nat
  BY DEF FeedTypes
<1>2. e \in Envelopes /\ e.type = type /\ e.account = account
  BY <1>1 DEF Envelope, Envelopes
<1>3. toBrowser' = Append(toBrowser, e)
  BY DEF Writes
<1> HIDE DEF e
<1>4. /\ DOMAIN toBrowser = 1 .. Len(toBrowser) /\ Len(toBrowser) \in Nat
      /\ DOMAIN toBrowser' = 1 .. Len(toBrowser) + 1
      /\ \A i \in DOMAIN toBrowser : toBrowser'[i] = toBrowser[i]
      /\ toBrowser'[Len(toBrowser) + 1] = e
  BY <1>1, <1>2, <1>3, Added
<1>5. /\ Len(toBrowser) + 1 \in DOMAIN toBrowser'
      /\ DOMAIN toBrowser' = DOMAIN toBrowser \union {Len(toBrowser) + 1}
  BY <1>4
<1> QED
  BY <1>2, <1>4, <1>5

(* The feed invents no account: it hands on those that are held.           *)
LEMMA FeedHolds ==
  ASSUME FeedTypes, snap \in Known, FeedMoves \/ UNCHANGED feedVars
  PROVE  view' \in Held /\ response' \in Held
           /\ \A j \in DOMAIN toBrowser' : toBrowser'[j].account \in Held
<1>0. NoPage = NoAccount
  BY LiveLimits
<1>t. toBrowser \in Seq(Envelopes) /\ events \in Seq(EventTypes)
  BY DEF FeedTypes
<1>a. \A a \in Held : AcceptAccount(a) \in Held
  BY DEF AcceptAccount, Held
<1>b. ASSUME NEW type \in EventTypes \union {"snapshot"}, Writes(type, snap)
      PROVE  \A j \in DOMAIN toBrowser' : toBrowser'[j].account \in Held
  <2>1. PICK last \in DOMAIN toBrowser' :
          toBrowser'[last].account = snap /\ DOMAIN toBrowser' = DOMAIN toBrowser \union {last}
    BY <1>b, WritesHeld DEF Known
  <2>2. \A j \in DOMAIN toBrowser : toBrowser'[j] = toBrowser[j]
    BY <1>b, WritesHeld DEF Known
  <2> QED
    BY <2>1, <2>2 DEF Held
<1>1. CASE UNCHANGED <<toBrowser, view, response>>
  BY <1>1 DEF Held
<1>2. CASE FirstSnapshot(snap) \/ SendEvent(snap) \/ AnswerResync(snap)
  <2>1. UNCHANGED <<view, response>>
    BY <1>2 DEF FirstSnapshot, SendEvent, AnswerResync
  <2>2. ASSUME SendEvent(snap)
        PROVE  Head(events) \in EventTypes
    <3>1. events # <<>>
      BY <2>2 DEF SendEvent
    <3> QED
      BY <1>t, <3>1, Taken
  <2>3. \E type \in EventTypes \union {"snapshot"} : Writes(type, snap)
    BY <1>2, <2>2 DEF FirstSnapshot, SendEvent, AnswerResync, EventTypes
  <2> QED
    BY <1>b, <2>1, <2>3 DEF Held
<1>3. ASSUME Closed, UNCHANGED <<view, response>>
      PROVE  view' \in Held /\ response' \in Held
               /\ \A j \in DOMAIN toBrowser' : toBrowser'[j].account \in Held
  BY <1>3 DEF Closed, Held
<1>4. CASE ReadControl
  BY <1>1, <1>3, <1>4 DEF ReadControl
<1>5. CASE PageReads
  <2>1. toBrowser # <<>> /\ toBrowser' = Tail(toBrowser) /\ response' = response
    BY <1>5 DEF PageReads
  <2>2. /\ \A i \in DOMAIN Tail(toBrowser) :
             i + 1 \in DOMAIN toBrowser /\ Tail(toBrowser)[i] = toBrowser[i + 1]
        /\ Head(toBrowser) = toBrowser[1] /\ Len(toBrowser) \in Nat \ {0}
    BY <1>t, <2>1, Taken
  <2>3. 1 \in DOMAIN toBrowser
    BY <1>t, <2>2, LenProperties
  <2>4. Head(toBrowser).account \in Held
    BY <2>2, <2>3 DEF Held
  <2>5. view' \in Held
    BY <1>5, <1>a, <2>4 DEF PageReads, Held
  <2>6. \A j \in DOMAIN toBrowser' : toBrowser'[j].account \in Held
    BY <2>1, <2>2 DEF Held
  <2> QED
    BY <2>1, <2>5, <2>6 DEF Held
<1>6. CASE PagePolls(snap)
  BY <1>6 DEF PagePolls, socketVars, Held
<1>7. CASE PollReturns
  <2>1. view' \in Held
    BY <1>7, <1>a DEF PollReturns, Held
  <2> QED
    BY <1>0, <1>7, <2>1 DEF PollReturns, socketVars, Held
<1>8. CASE UNCHANGED feedVars \/ SocketConnects \/ Published
  BY <1>1, <1>8 DEF feedVars, SocketConnects, Published
<1> QED
  BY <1>2, <1>3, <1>4, <1>5, <1>6, <1>7, <1>8 DEF FeedMoves

(* A step leaves nothing ahead of the snapshot.                            *)
LEMMA AheadKept == ASSUME TypeInv, AheadInv, [Next]_vars PROVE AheadInv'
<1>0. AccountTypeOK /\ FeedTypes /\ snap \in Known
  BY DEF TypeInv, AccountTypeOK, Known
<1>1. SnapInv' /\ \A a \in Known : NotAfter(a) => NotAfter(a)'
  BY <1>0, Moves, AheadLasts DEF AheadInv
<1>2. \A a \in Held : a \in Known /\ NotAfter(a)
  <2>1. NotAfter(snap) /\ NotAfter(NoAccount)
    BY <1>0 DEF AheadInv, SnapInv, NotAfter, TypeInv, AccountTypeOK, Known, Accounts
  <2>2. \A j \in DOMAIN toBrowser : toBrowser[j].account \in Known
    <3>1. toBrowser \in Seq(Envelopes)
      BY <1>0 DEF FeedTypes
    <3>2. \A j \in DOMAIN toBrowser : toBrowser[j] \in Envelopes
      BY <3>1, ElementOfSeq, LenProperties
    <3> QED
      BY <3>2 DEF Envelopes, Known
  <2>3. view \in Known /\ response \in Known /\ NoAccount \in Known
    BY <1>0 DEF FeedTypes, Known
  <2> QED
    BY <1>0, <2>1, <2>2, <2>3 DEF Held, AheadInv
<1>3. \A a \in Held : NotAfter(a)'
  BY <1>1, <1>2
<1>4. view' \in Held /\ response' \in Held
        /\ \A j \in DOMAIN toBrowser' : toBrowser'[j].account \in Held
  BY <1>0, Moves, FeedHolds
<1>5. NotAfter(view)' /\ NotAfter(response)'
  BY <1>3, <1>4 DEF NotAfter
<1>6. ASSUME NEW j \in DOMAIN toBrowser'
      PROVE  NotAfter(toBrowser[j].account)'
  BY <1>3, <1>4 DEF NotAfter
<1> QED
  BY <1>1, <1>5, <1>6 DEF AheadInv

-----------------------------------------------------------------------------
(* A connected page has been shown the snapshot, or will be.               *)

Carries(m) == m.type = "resync.required" \/ (ShowsAccount(m) /\ m.account = snap)

Telling == {"account.updated", "valuation.updated", "resync.required"}

Coming ==
  \/ call.at = "stored" \/ repriced \/ asked > 0 \/ controls > 0
  \/ \E i \in DOMAIN events : events[i] \in Telling
  \/ \E j \in DOMAIN toBrowser : Carries(toBrowser[j])

(* A page from before a restart shows its own account while its revision   *)
(* is not the smaller one.                                                 *)
Shown ==
  snap # NoAccount =>
    view # NoAccount /\ (view = snap \/ (view.inst # inst /\ view.rev >= snap.rev))

ToldInv == sock = "live" => Coming \/ Shown

(* What the page accepts never hides the snapshot.                         *)
LEMMA Accepting ==
  ASSUME TypeInv, SnapInv, NotAfter(view), NEW a \in Known, NotAfter(a),
         view' = AcceptAccount(a), UNCHANGED <<inst, snap>>
  PROVE  Shown \/ a = snap => Shown'
<1>t. /\ snap \in Known /\ view \in Known /\ inst \in Nat /\ NoPage = NoAccount
      /\ NoAccount \notin Accounts
  BY LiveLimits, AccountLimits
     DEF TypeInv, AccountTypeOK, FeedTypes, Known, Accounts
<1>1. CASE snap = NoAccount
  BY <1>1 DEF Shown
<1>2. CASE snap # NoAccount /\ (a = NoAccount \/ view' = view)
  <2>1. view' = view
    BY <1>2, <1>t DEF AcceptAccount
  <2>2. ASSUME a = snap
        PROVE  Shown
    <3>1. (view # NoAccount /\ ~(a.rev >= view.rev)) \/ view = a
      BY <1>2, <1>t, <2>1, <2>2 DEF AcceptAccount
    <3>2. ASSUME view # NoAccount, ~(snap.rev >= view.rev)
          PROVE  view.inst # inst /\ view.rev >= snap.rev
      <4>1. view.rev \in Nat /\ snap.rev \in Nat
        BY <1>2, <1>t, <3>2 DEF Known, Accounts
      <4> QED
        BY <3>2, <4>1 DEF NotAfter
    <3> QED
      BY <1>2, <2>2, <3>1, <3>2 DEF Shown
  <2> QED
    BY <2>1, <2>2 DEF Shown
<1>3. CASE snap # NoAccount /\ a # NoAccount /\ view' = a
  <2>1. ASSUME Shown, a # snap
        PROVE  a.inst # inst /\ a.rev >= snap.rev
    <3>1. view # NoAccount /\ (view = snap \/ view.rev >= snap.rev)
      BY <1>3, <2>1 DEF Shown
    <3>2. a.rev >= view.rev \/ view = a
      BY <1>3, <1>t, <3>1 DEF AcceptAccount
    <3>3. a.rev \in Nat /\ view.rev \in Nat /\ snap.rev \in Nat
      BY <1>3, <1>t, <3>1 DEF Known, Accounts
    <3>4. a.rev >= snap.rev
      BY <2>1, <3>1, <3>2, <3>3
    <3> QED
      BY <1>3, <2>1, <3>3, <3>4 DEF NotAfter
  <2> QED
    BY <1>3, <2>1 DEF Shown
<1>4. view' = view \/ view' = a
  BY DEF AcceptAccount
<1> QED
  BY <1>1, <1>2, <1>3, <1>4

(* What a step does to the manager and to the feed.                        *)
KeepsTelling ==
  UNCHANGED <<inst, snap>> /\ (call.at = "stored" => call'.at = "stored")
    /\ (repriced => repriced')

(* What a step may do to the news of the snapshot.                         *)
LEMMA TellingMoves ==
  ASSUME TypeInv, SnapInv, [Next]_vars
  PROVE  \/ UNCHANGED feedVars /\ (KeepsTelling \/ Replaced)
         \/ Announce \/ AnnounceValuation
         \/ SocketStep \/ PollStep
         \/ sock' = "closed"
<1>c. call \in [at: CallSteps, by: Refreshers, got: Nat]
  BY DEF TypeInv, AccountTypeOK
<1>1. CASE UNCHANGED <<accountVars, feedVars>>
  BY <1>1 DEF accountVars, KeepsTelling
<1>2. CASE WorkerTakes \/ RefreshBegins
  BY <1>2 DEF WorkerTakes, RefreshBegins, Refresh, KeepsTelling
<1>3. CASE RefreshSucceeds \/ ReadFails \/ \E c \in Refreshers : GivesUp(c)
  BY <1>3 DEF RefreshSucceeds, ReadFails, GivesUp, RefreshReads, WaitTimesOut, KeepsTelling
<1>4. CASE ManagerStep /\ ~RefreshStores
  BY <1>4 DEF ManagerStep, RefreshFails, RefreshEnds, KeepsTelling
<1>5. CASE VenueChanges
  BY <1>5 DEF VenueChanges, AccountChanges, KeepsTelling
<1>6. CASE ManagerStep /\ RefreshStores
  <2>1. call.at = "read" /\ ~AccountRestart /\ call'.at = "stored" /\ snap' # snap
    <3>1. snap' = [inst |-> inst, rev |-> revision + 1, bal |-> call.got]
      BY <1>6 DEF RefreshStores
    <3>2. revision \in Nat /\ NoAccount \notin Accounts /\ snap \in Accounts \union {NoAccount}
            /\ call.got \in Nat /\ inst \in Nat
      BY <1>c, AccountLimits DEF TypeInv, AccountTypeOK, Accounts
    <3>3. snap' \in Accounts
      BY <3>1, <3>2 DEF Accounts
    <3>4. snap' # snap
      BY <3>1, <3>2, <3>3 DEF SnapInv, Accounts
    <3>5. call.at = "read" /\ call'.at = "stored"
      BY <1>6, <1>c DEF RefreshStores
    <3> QED
      BY <3>2, <3>3, <3>4, <3>5 DEF AccountRestart, Empty
  <2>2. Replaced
    BY <1>6, <2>1, SnapMoves DEF AccountMoves, TypeInv
  <2> QED
    BY <1>6, <2>2 DEF ManagerStep
<1>7. CASE PriceChanges
  <2>1. snap' # snap /\ ~AccountRestart
    <3>1. revision \in Nat /\ NoAccount \notin Accounts /\ snap \in Accounts
      BY <1>7, AccountLimits DEF PriceChanges, Revalue, TypeInv, AccountTypeOK, Accounts
    <3>2. snap'.rev = revision + 1 /\ snap.rev <= revision /\ snap' \in Accounts
      BY <1>7, <3>1 DEF PriceChanges, Revalue, SnapInv, Accounts
    <3> QED
      BY <3>1, <3>2 DEF AccountRestart, Empty
  <2>2. Replaced
    BY <1>7, <2>1, SnapMoves DEF AccountMoves, TypeInv, PriceChanges
  <2> QED
    BY <1>7, <2>2 DEF PriceChanges
<1>8. CASE SocketStep \/ PollStep
  BY <1>8
<1>9. CASE SocketIsLost \/ Restart
  BY <1>9 DEF SocketIsLost, SocketCloses, Restart, Closed
<1> QED
  BY <1>1, <1>2, <1>3, <1>4, <1>5, <1>6, <1>7, <1>8, <1>9
     DEF Next, vars, AnswerArrives, NotificationArrives, SinkTriggers, OtherTriggers,
         WorkerTakesOther, WorkerRechecks, WorkerReturns, StreamStep, StreamIsLost,
         ManagerStep

(* The manager's steps, while the feed rests.                              *)
LEMMA ToldByManager ==
  ASSUME ToldInv, UNCHANGED feedVars, KeepsTelling \/ Replaced
  PROVE  ToldInv'
<1>1. CASE Replaced
  BY <1>1 DEF Replaced, ToldInv, Coming
<1>2. CASE KeepsTelling
  <2>1. Coming => Coming'
    BY <1>2 DEF KeepsTelling, feedVars, Coming, Carries, ShowsAccount
  <2>2. Shown => Shown'
    BY <1>2 DEF KeepsTelling, feedVars, Shown
  <2> QED
    BY <2>1, <2>2 DEF ToldInv, feedVars
<1> QED
  BY <1>1, <1>2

(* What is published replaces only what it makes up for.                   *)
LEMMA ToldByBroker ==
  ASSUME TypeInv, ToldInv, Announce \/ AnnounceValuation
  PROVE  ToldInv'
<1>0. events \in Seq(EventTypes)
  BY DEF TypeInv, FeedTypes
<1>1. UNCHANGED <<inst, snap, sock, toBrowser, asked, controls, view>>
  BY DEF Announce, AnnounceValuation, RefreshAnnounces, PublishValuation
<1>2. ASSUME NEW type \in EventTypes, Publish(type), sock = "live"
      PROVE  /\ type \in Telling => \E i \in DOMAIN events' : events'[i] \in Telling
             /\ (\E i \in DOMAIN events : events[i] \in Telling)
                  => \E i \in DOMAIN events' : events'[i] \in Telling
  <2>1. /\ DOMAIN events = 1 .. Len(events) /\ Len(events) \in Nat
        /\ DOMAIN Append(events, type) = 1 .. Len(events) + 1
        /\ \A i \in DOMAIN events : Append(events, type)[i] = events[i]
        /\ Append(events, type)[Len(events) + 1] = type
    BY <1>0, <1>2, Added
  <2>2. CASE events' = Append(events, type)
    <3>1. Len(events) + 1 \in DOMAIN events' /\ events'[Len(events) + 1] = type
      BY <2>1, <2>2
    <3>2. \A i \in DOMAIN events : i \in DOMAIN events' /\ events'[i] = events[i]
      BY <2>1, <2>2
    <3> QED
      BY <3>1, <3>2
  <2>3. CASE events' = <<"resync.required">>
    <3>1. 1 \in DOMAIN events' /\ events'[1] = "resync.required"
      BY <2>3
    <3> QED
      BY <3>1 DEF Telling
  <2> QED
    BY <1>2, <2>2, <2>3 DEF Publish
<1>3. Shown => Shown'
  BY <1>1 DEF Shown
<1>4. asked > 0 \/ controls > 0 \/ (\E j \in DOMAIN toBrowser : Carries(toBrowser[j]))
        => Coming'
  BY <1>1 DEF Coming, Carries, ShowsAccount
<1>5. CASE Announce
  <2>1. PICK event \in {"account.updated", "venue.health.updated"} :
          RefreshAnnounces(event) /\ Publish(event)
    BY <1>5 DEF Announce
  <2>2. event \in EventTypes /\ UNCHANGED repriced
    BY <2>1 DEF EventTypes, RefreshAnnounces
  <2>3. call.at = "stored" => event \in Telling
    BY <2>1 DEF RefreshAnnounces, Telling
  <2>4. sock = "live" /\ (call.at = "stored" \/ \E i \in DOMAIN events : events[i] \in Telling)
          => Coming'
    BY <1>2, <2>1, <2>2, <2>3 DEF Coming
  <2>5. repriced => Coming'
    BY <2>2 DEF Coming
  <2>6. sock = "live" /\ Coming => Coming'
    BY <1>4, <2>4, <2>5 DEF Coming
  <2> QED
    BY <1>1, <1>3, <2>6 DEF ToldInv
<1>6. CASE AnnounceValuation
  <2>1. Publish("valuation.updated") /\ UNCHANGED call
    BY <1>6 DEF AnnounceValuation, PublishValuation
  <2>2. "valuation.updated" \in EventTypes /\ "valuation.updated" \in Telling
    BY DEF EventTypes, Telling
  <2>3. sock = "live" => Coming'
    BY <1>2, <2>1, <2>2 DEF Coming
  <2> QED
    BY <1>1, <2>3 DEF ToldInv
<1> QED
  BY <1>5, <1>6

(* The socket and the page hand on what they take.                         *)
LEMMA ToldByFeed ==
  ASSUME TypeInv, AheadInv, ToldInv, SocketStep \/ PollStep
  PROVE  ToldInv'
<1>0. /\ FeedTypes /\ snap \in Known /\ UNCHANGED <<inst, snap, call, repriced>>
      /\ events \in Seq(EventTypes) /\ toBrowser \in Seq(Envelopes)
      /\ asked \in Nat /\ controls \in Nat /\ ControlSize \in Nat /\ NoPage = NoAccount
  BY LiveLimits, FeedLimits
     DEF SocketStep, PollStep, accountVars, TypeInv, FeedTypes, AccountTypeOK, Known
<1>a. \A m : Carries(m) => Carries(m)'
  BY <1>0 DEF Carries, ShowsAccount
<1>b. call.at = "stored" \/ repriced => Coming'
  BY <1>0 DEF Coming
<1>c. UNCHANGED view => (Shown => Shown')
  BY <1>0 DEF Shown
<1>w. ASSUME NEW type \in EventTypes \union {"snapshot"}, Writes(type, snap)
      PROVE  /\ type \in Telling \union {"snapshot"} =>
                  \E j \in DOMAIN toBrowser' : Carries(toBrowser[j])'
             /\ (\E j \in DOMAIN toBrowser : Carries(toBrowser[j])) =>
                  \E j \in DOMAIN toBrowser' : Carries(toBrowser[j])'
  <2>1. \E last \in DOMAIN toBrowser' :
          toBrowser'[last].type = type /\ toBrowser'[last].account = snap
    <3>1. FeedTypes /\ snap \in Accounts \union {NoAccount}
      BY <1>0 DEF Known
    <3>2. /\ DOMAIN toBrowser' = DOMAIN toBrowser \union {Len(toBrowser) + 1}
          /\ toBrowser'[Len(toBrowser) + 1].type = type
          /\ toBrowser'[Len(toBrowser) + 1].account = snap
      BY <1>w, <3>1, WritesHeld
    <3> QED
      BY <3>2
  <2>2. DOMAIN toBrowser \subseteq DOMAIN toBrowser'
          /\ \A j \in DOMAIN toBrowser : toBrowser'[j] = toBrowser[j]
    BY <1>0, <1>w, WritesHeld DEF Known
  <2>3. type \in Telling \union {"snapshot"} =>
          \E j \in DOMAIN toBrowser' : Carries(toBrowser[j])'
    BY <1>0, <2>1 DEF Carries, ShowsAccount, Telling
  <2>4. \A j \in DOMAIN toBrowser : Carries(toBrowser[j]) => Carries(toBrowser[j])'
    BY <1>0, <2>2 DEF Carries, ShowsAccount
  <2> QED
    BY <2>2, <2>3, <2>4
<1>1. CASE SocketConnects \/ Closed
  BY <1>1 DEF SocketConnects, Closed, ToldInv
<1>2. CASE FirstSnapshot(snap) \/ AnswerResync(snap)
  <2>1. Writes("snapshot", snap)
    BY <1>2 DEF FirstSnapshot, AnswerResync
  <2>2. Coming'
    BY <1>w, <2>1 DEF Coming
  <2> QED
    BY <2>2 DEF ToldInv
<1>3. CASE SendEvent(snap)
  <2>1. events # <<>> /\ events' = Tail(events) /\ sock = "live"
          /\ UNCHANGED <<asked, controls, view>>
    BY <1>3 DEF SendEvent
  <2>2. /\ Head(events) \in EventTypes /\ Head(events) = events[1]
        /\ \A i \in DOMAIN events :
             i = 1 \/ (i - 1 \in DOMAIN Tail(events) /\ Tail(events)[i - 1] = events[i])
    BY <1>0, <2>1, Taken
  <2>3. PICK type \in EventTypes \union {"snapshot"} :
          /\ Writes(type, snap)
          /\ Head(events) \in Telling => type \in Telling
    BY <1>3, <2>2 DEF SendEvent, EventTypes, Telling
  <2>4. (\E i \in DOMAIN events : events[i] \in Telling) => Coming'
    <3>1. SUFFICES ASSUME NEW i \in DOMAIN events, events[i] \in Telling
                   PROVE  Coming'
      OBVIOUS
    <3>2. CASE i = 1
      BY <1>w, <2>2, <2>3, <3>1, <3>2 DEF Coming
    <3>3. CASE i # 1
      BY <2>1, <2>2, <3>1, <3>3 DEF Coming
    <3> QED
      BY <3>2, <3>3
  <2>5. (\E j \in DOMAIN toBrowser : Carries(toBrowser[j])) => Coming'
    BY <1>w, <2>3 DEF Coming
  <2>6. asked > 0 \/ controls > 0 => Coming'
    BY <2>1 DEF Coming
  <2> QED
    BY <1>b, <1>c, <2>1, <2>4, <2>5, <2>6 DEF ToldInv, Coming
<1>4. CASE ReadControl
  <2>1. CASE controls < ControlSize
    <3>1. controls' > 0
      BY <1>0, <1>4, <2>1 DEF ReadControl
    <3> QED
      BY <3>1 DEF ToldInv, Coming
  <2>2. CASE ~(controls < ControlSize)
    BY <1>1, <1>4, <2>2 DEF ReadControl
  <2> QED
    BY <2>1, <2>2
<1>5. CASE PageReads
  <2> DEFINE m == Head(toBrowser)
  <2>1. toBrowser # <<>> /\ toBrowser' = Tail(toBrowser) /\ UNCHANGED <<events, sock, controls>>
    BY <1>5 DEF PageReads
  <2>2. /\ m \in Envelopes /\ m = toBrowser[1] /\ Len(toBrowser) \in Nat \ {0}
        /\ \A j \in DOMAIN toBrowser :
             j = 1 \/ (j - 1 \in DOMAIN Tail(toBrowser) /\ Tail(toBrowser)[j - 1] = toBrowser[j])
    BY <1>0, <2>1, Taken
  <2>3. 1 \in DOMAIN toBrowser
    BY <1>0, <2>2, LenProperties
  <2>4. NotAfter(m.account) /\ m.account \in Known
    BY <2>2, <2>3 DEF AheadInv, Envelopes, Known
  <2>5. CASE Gap(m) \/ m.type = "resync.required"
    <3>1. asked' > 0
      BY <1>0, <1>5, <2>5 DEF PageReads
    <3> QED
      BY <3>1 DEF ToldInv, Coming
  <2>6. CASE ~Gap(m) /\ m.type # "resync.required"
    <3>1. asked' = asked /\ view' = IF ShowsAccount(m) THEN AcceptAccount(m.account) ELSE view
      BY <1>5, <2>6 DEF PageReads
    <3>2. Shown => Shown'
      BY <1>0, <1>c, <2>4, <3>1, Accepting DEF AheadInv
    <3>3. Carries(m) => Shown'
      <4>1. Carries(m) => view' = AcceptAccount(m.account) /\ m.account = snap
        BY <2>6, <3>1 DEF Carries
      <4> QED
        BY <1>0, <2>4, <4>1, Accepting DEF AheadInv
    <3>4. (\E j \in DOMAIN toBrowser : Carries(toBrowser[j])) => Coming' \/ Shown'
      <4>1. SUFFICES ASSUME NEW j \in DOMAIN toBrowser, Carries(toBrowser[j])
                     PROVE  Coming' \/ Shown'
        OBVIOUS
      <4>2. CASE j = 1
        BY <2>2, <3>3, <4>1, <4>2
      <4>3. CASE j # 1
        <5>1. j - 1 \in DOMAIN toBrowser' /\ toBrowser'[j - 1] = toBrowser[j]
          BY <2>1, <2>2, <4>3
        <5>2. Carries(toBrowser[j - 1])'
          BY <1>0, <4>1, <5>1 DEF Carries, ShowsAccount
        <5> QED
          BY <5>1, <5>2 DEF Coming
      <4> QED
        BY <4>2, <4>3
    <3>5. asked > 0 \/ controls > 0 \/ (\E i \in DOMAIN events : events[i] \in Telling)
            => Coming'
      BY <2>1, <3>1 DEF Coming
    <3> QED
      BY <1>b, <2>1, <3>2, <3>4, <3>5 DEF ToldInv, Coming
  <2> QED
    BY <2>5, <2>6
<1>6. CASE PagePolls(snap) \/ PollReturns
  <2>1. UNCHANGED socketVars
    BY <1>6 DEF PagePolls, PollReturns
  <2>2. Coming => Coming'
    BY <1>0, <2>1 DEF socketVars, Coming, Carries, ShowsAccount
  <2>3. Shown => Shown'
    <3>1. CASE PagePolls(snap)
      BY <1>c, <3>1 DEF PagePolls
    <3>2. CASE PollReturns
      <4>1. response \in Known /\ NotAfter(response) /\ view' = AcceptAccount(response)
        BY <1>0, <3>2 DEF PollReturns, AheadInv, FeedTypes, Known
      <4> QED
        BY <1>0, <4>1, Accepting DEF AheadInv
    <3> QED
      BY <1>6, <3>1, <3>2
  <2> QED
    BY <2>1, <2>2, <2>3 DEF socketVars, ToldInv
<1> QED
  BY <1>1, <1>2, <1>3, <1>4, <1>5, <1>6 DEF SocketStep, PollStep

(* A step keeps the page told, or about to be.                             *)
LEMMA ToldKept == ASSUME TypeInv, AheadInv, ToldInv, [Next]_vars PROVE ToldInv'
<1>1. CASE UNCHANGED feedVars /\ (KeepsTelling \/ Replaced)
  BY <1>1, ToldByManager
<1>2. CASE Announce \/ AnnounceValuation
  BY <1>2, ToldByBroker
<1>3. CASE SocketStep \/ PollStep
  BY <1>3, ToldByFeed
<1>4. CASE sock' = "closed"
  BY <1>4 DEF ToldInv
<1> QED
  BY <1>1, <1>2, <1>3, <1>4, TellingMoves DEF AheadInv

(* The page is told in every reachable state.                              *)
LEMMA PageInvHolds == Spec => [](AheadInv /\ ToldInv)
<1>1. Init => AheadInv /\ ToldInv
  <2> SUFFICES ASSUME Init PROVE AheadInv /\ ToldInv
    OBVIOUS
  <2>1. /\ snap = NoAccount /\ sock = "closed" /\ toBrowser = <<>>
        /\ view = NoAccount /\ response = NoAccount
    BY LiveLimits DEF Init, AccountInit, FeedInit
  <2> QED
    BY <2>1 DEF AheadInv, SnapInv, NotAfter, ToldInv
<1>2. TypeInv /\ AheadInv /\ ToldInv /\ [Next]_vars => (AheadInv /\ ToldInv)'
  BY AheadKept, ToldKept
<1> QED
  BY <1>1, <1>2, TypesHold, PTL DEF Spec

(* A page with nothing on its way to it shows the manager's snapshot: no   *)
(* announcement is lost between the subscription and the first message, in *)
(* a full queue, in a gap of the numbers, or behind an older answer to a   *)
(* poll, for any sizes of the queues and any number of refreshes, prices,  *)
(* broken sockets and restarts.                                            *)
THEOREM EveryChangeIsAnnounced == Spec => []NothingUnannounced
<1>1. ToldInv => NothingUnannounced
  <2> SUFFICES ASSUME ToldInv, Quiet, snap # NoAccount
               PROVE  view # NoPage /\ (view = snap \/ view.inst # inst)
    BY DEF NothingUnannounced
  <2>1. ~Coming
    BY DEF Quiet, Coming
  <2>2. Shown /\ NoPage = NoAccount
    BY <2>1, LiveLimits DEF ToldInv, Quiet
  <2> QED
    BY <2>2 DEF Shown
<1> QED
  BY <1>1, PageInvHolds, PTL

-----------------------------------------------------------------------------
(* The private stream: what has been subscribed, and what was read.        *)

OnWire(type) == \E i \in DOMAIN wire : wire[i] = type

(* The client is subscribed, or will be, only when the server is.          *)
SubscribedInv ==
  answered <= srv /\ (subscribed \/ ready \/ OnWire("subscribe") => srv = 2)

(* The snapshot and what a refresh has read only go forward.               *)
ReadInv ==
  /\ snap # NoAccount => snap.bal <= venueAccount
  /\ call.at = "read" =>
       call.got <= venueAccount /\ (snap # NoAccount => snap.bal <= call.got)

(* A message put on the wire joins those that are there.                   *)
LEMMA WireAdded ==
  ASSUME StreamTypeOK, NEW type \in {"cod", "subscribe", "changed"},
         wire' = Append(wire, type)
  PROVE  /\ OnWire(type)' /\ \A m : OnWire(m) => OnWire(m)'
         /\ \A m : OnWire(m)' => OnWire(m) \/ m = type
<1>1. /\ DOMAIN wire = 1 .. Len(wire) /\ Len(wire) \in Nat
      /\ DOMAIN wire' = 1 .. Len(wire) + 1
      /\ \A i \in DOMAIN wire : wire'[i] = wire[i]
      /\ wire'[Len(wire) + 1] = type
  BY Added DEF StreamTypeOK
<1>2. /\ DOMAIN wire' = DOMAIN wire \union {Len(wire) + 1}
  BY <1>1
<1> QED
  BY <1>1, <1>2 DEF OnWire

(* A message taken from the wire leaves the others.                        *)
LEMMA WireTaken ==
  ASSUME StreamTypeOK, wire # <<>>, wire' = Tail(wire)
  PROVE  /\ OnWire(Head(wire))
         /\ \A type : OnWire(type)' => OnWire(type)
         /\ \A type : OnWire(type) => OnWire(type)' \/ type = Head(wire)
<1>1. /\ Len(wire) \in Nat \ {0} /\ Head(wire) = wire[1]
      /\ \A i \in DOMAIN wire : i = 1 \/ (i - 1 \in DOMAIN wire' /\ wire'[i - 1] = wire[i])
      /\ \A i \in DOMAIN wire' : i + 1 \in DOMAIN wire /\ wire'[i] = wire[i + 1]
  BY Taken DEF StreamTypeOK
<1>2. 1 \in DOMAIN wire
  BY <1>1, LenProperties DEF StreamTypeOK
<1>3. OnWire(Head(wire))
  BY <1>1, <1>2 DEF OnWire
<1>4. ASSUME NEW type, OnWire(type)'  PROVE OnWire(type)
  <2>1. PICK i \in DOMAIN wire' : wire'[i] = type
    BY <1>4 DEF OnWire
  <2> QED
    BY <1>1, <2>1 DEF OnWire
<1>5. ASSUME NEW type, OnWire(type), type # Head(wire)  PROVE OnWire(type)'
  <2>1. PICK i \in DOMAIN wire : wire[i] = type
    BY <1>5 DEF OnWire
  <2>2. i # 1
    BY <1>1, <1>5, <2>1
  <2> QED
    BY <1>1, <2>1, <2>2 DEF OnWire
<1> QED
  BY <1>3, <1>4, <1>5

(* A step of the stream keeps client and server agreed on the subscription. *)
LEMMA SubscribedKept ==
  ASSUME StreamTypeOK, SubscribedInv, StreamMoves \/ UNCHANGED streamVars
  PROVE  SubscribedInv'
<1>0. srv \in 0 .. 2 /\ answered \in 0 .. 2
  BY DEF StreamTypeOK
<1>1. CASE ReadsAnswer
  <2>1. wire # <<>> /\ wire' = Tail(wire) /\ Incoming = Head(wire)
          /\ UNCHANGED <<srv, answered>>
    BY <1>1 DEF ReadsAnswer, Incoming
  <2>2. OnWire(Head(wire)) /\ \A type : OnWire(type)' => OnWire(type)
    BY <2>1, WireTaken
  <2>3. subscribed' => subscribed \/ OnWire("subscribe")
    BY <1>1, <2>1, <2>2 DEF ReadsAnswer
  <2>4. ready' => ready \/ subscribed \/ OnWire("subscribe")
    BY <1>1, <2>1, <2>2 DEF ReadsAnswer, LastAnswer
  <2> QED
    BY <2>1, <2>2, <2>3, <2>4 DEF SubscribedInv
<1>2. ASSUME Lost \/ StreamRestart
      PROVE  SubscribedInv'
  <2>1. srv' = 0 /\ answered' = 0 /\ wire' = <<>> /\ ~subscribed' /\ ~ready'
    BY <1>2 DEF Lost, StreamRestart
  <2> QED
    BY <2>1 DEF SubscribedInv, OnWire
<1>3. CASE ReadsNotification
  <2>1. CASE Lost
    BY <1>2, <2>1
  <2>2. CASE ~Lost
    <3>1. wire # <<>> /\ wire' = Tail(wire) /\ UNCHANGED <<srv, answered, subscribed, ready>>
      BY <1>3, <2>2 DEF ReadsNotification, Incoming
    <3>2. OnWire("subscribe")' => OnWire("subscribe")
      BY <3>1, WireTaken
    <3> QED
      BY <3>1, <3>2 DEF SubscribedInv
  <2> QED
    BY <2>1, <2>2
<1>4. CASE SinkTakes \/ StreamDials \/ UNCHANGED streamVars
  BY <1>4 DEF SinkTakes, StreamDials, streamVars, SubscribedInv, OnWire
<1>5. CASE ServerServes
  BY <1>0, <1>5 DEF ServerServes, SubscribedInv, OnWire
<1>6. CASE StreamBreaks \/ StreamRestart
  BY <1>2, <1>6 DEF StreamBreaks
<1>7. CASE ServerAnswers
  <2> DEFINE type == IF answered = 0 THEN "cod" ELSE "subscribe"
  <2>1. wire' = Append(wire, type) /\ type \in {"cod", "subscribe", "changed"}
    BY <1>7 DEF ServerAnswers
  <2>2. OnWire("subscribe")' => OnWire("subscribe") \/ type = "subscribe"
    BY <2>1, WireAdded
  <2>3. type = "subscribe" => srv = 2
    BY <1>0, <1>7 DEF ServerAnswers
  <2>4. answered' <= srv
    BY <1>0, <1>7 DEF ServerAnswers
  <2>5. UNCHANGED <<srv, subscribed, ready>>
    BY <1>7 DEF ServerAnswers
  <2> QED
    BY <2>2, <2>3, <2>4, <2>5 DEF SubscribedInv
<1>8. CASE /\ ServerNotifies
           /\ UNCHANGED <<conn, srv, answered, codQueryDone, subscribed, ready, buffered, queued,
                          leftover>>
  <2>1. OnWire("subscribe")' => OnWire("subscribe")
    <3>1. CASE wire' = Append(wire, "changed")
      BY <3>1, WireAdded
    <3>2. CASE wire' = wire
      BY <3>2 DEF OnWire
    <3> QED
      BY <1>8, <3>1, <3>2 DEF ServerNotifies
  <2> QED
    BY <1>8, <2>1 DEF SubscribedInv
<1> QED
  BY <1>1, <1>3, <1>4, <1>5, <1>6, <1>7, <1>8 DEF StreamMoves

(* A step of the manager never turns what was read back.                   *)
LEMMA ReadKept ==
  ASSUME AccountTypeOK, ReadInv, AccountMoves \/ UNCHANGED accountVars
  PROVE  ReadInv'
<1>t. /\ call \in [at: CallSteps, by: Refreshers, got: Nat]
      /\ snap \in Accounts \union {NoAccount} /\ NoAccount \notin Accounts
      /\ venueAccount \in Nat
  BY AccountLimits DEF AccountTypeOK, Accounts
<1>b. snap # NoAccount => snap.bal \in Nat
  BY <1>t DEF Accounts
<1>1. CASE AccountChanges
  BY <1>1, <1>b, <1>t DEF AccountChanges, ReadInv
<1>2. CASE RefreshStores
  <2>1. snap'.bal = call.got /\ call'.at = "stored" /\ UNCHANGED venueAccount
    BY <1>2, <1>t DEF RefreshStores
  <2> QED
    BY <1>2, <2>1 DEF RefreshStores, ReadInv
<1>3. CASE RefreshFails \/ RefreshEnds \/ PublishValuation \/ AccountRestart
  BY <1>3, <1>t
     DEF RefreshFails, RefreshEnds, PublishValuation, AccountRestart, Empty, NoCall, ReadInv
<1>4. CASE Revalue
  <2>1. snap \in Accounts
    BY <1>4, <1>t DEF Revalue
  <2>2. snap'.bal = snap.bal
    BY <1>4, <2>1 DEF Revalue, Accounts
  <2> QED
    BY <1>4, <2>2 DEF Revalue, ReadInv
<1>5. ASSUME NEW c \in Refreshers, Refresh(c) \/ WaitTimesOut(c)
      PROVE  ReadInv'
  BY <1>5 DEF Refresh, WaitTimesOut, ReadInv
<1>6. ASSUME NEW ok \in BOOLEAN, RefreshReads(ok)
      PROVE  ReadInv'
  <2>1. call'.at = "read" => call'.got = venueAccount
    BY <1>6, <1>t DEF RefreshReads
  <2> QED
    BY <1>6, <1>b, <1>t, <2>1 DEF RefreshReads, ReadInv
<1>7. ASSUME NEW event, RefreshAnnounces(event)
      PROVE  ReadInv'
  BY <1>7, <1>t DEF RefreshAnnounces, ReadInv
<1>8. CASE UNCHANGED accountVars
  BY <1>8 DEF accountVars, ReadInv
<1> QED
  BY <1>1, <1>2, <1>3, <1>4, <1>5, <1>6, <1>7, <1>8 DEF AccountMoves

(* A ready stream is excused, or the snapshot is the venue's account, or   *)
(* what will make it so is under way: on the wire, in the client's queue,  *)
(* in the channel of triggers, or in a refresh that reads what is there.   *)
Reading == call.at = "reading" \/ (call.at = "read" /\ call.got = venueAccount)

StreamCover ==
  ready =>
    \/ excused \/ UpToDate \/ Reading
    \/ OnWire("changed") \/ queued > 0 \/ Queued("this")

(* The manager's part of it.                                               *)
ManagerCovers == UpToDate \/ Reading

(* After the stream's trigger one of its own is queued, or it is excused.  *)
LEMMA StreamTriggersKept ==
  ASSUME WorkerTypes, StreamTriggers
  PROVE  excused' \/ Queued("this")'
BY Triggers DEF StreamTriggers, TriggerLost

(* A step that takes nothing of the cover away keeps it.                   *)
LEMMA CoverRests ==
  ASSUME StreamCover, UNCHANGED <<ready, wire, queued>>, excused => excused',
         Queued("this") => Queued("this")', ManagerCovers => excused' \/ ManagerCovers'
  PROVE  StreamCover'
BY DEF StreamCover, ManagerCovers, OnWire

(* The steps of the stream and of the venue keep the cover.                *)
LEMMA CoverByStream ==
  ASSUME TypeInv, SubscribedInv, StreamCover,
         \/ AnswerArrives \/ NotificationArrives \/ SinkTriggers \/ StreamStep
         \/ StreamIsLost \/ Restart \/ VenueChanges
  PROVE  StreamCover'
<1>0. StreamTypeOK /\ WorkerTypes /\ QueueSize \in Nat /\ queued \in 0 .. QueueSize
  BY StreamLimits DEF TypeInv, StreamTypeOK
<1>1. CASE AnswerArrives
  <2>1. wire # <<>> /\ wire' = Tail(wire) /\ Head(wire) # "changed"
          /\ ready' = (ready \/ LastAnswer)
    BY <1>1 DEF AnswerArrives, ReadsAnswer, Incoming
  <2>2. CASE LastAnswer
    BY <1>0, <1>1, <2>2, StreamTriggersKept DEF AnswerArrives, OnReady, StreamCover
  <2>3. CASE ~LastAnswer
    <3>1. OnWire("changed") => OnWire("changed")'
      BY <1>0, <2>1, WireTaken
    <3>2. UNCHANGED <<accountVars, triggers, excused, queued>> /\ (ready' => ready)
      BY <1>1, <2>1, <2>3 DEF AnswerArrives, ReadsAnswer
    <3> QED
      BY <3>1, <3>2 DEF accountVars, StreamCover, UpToDate, Reading, Queued
  <2> QED
    BY <2>2, <2>3
<1>2. CASE NotificationArrives
  <2>1. CASE ~ready'
    BY <2>1 DEF StreamCover
  <2>2. CASE ready'
    <3>1. ~Lost
      BY <2>2 DEF Lost
    <3>2. queued' = queued + 1
      BY <1>2, <2>2, <3>1 DEF NotificationArrives, ReadsNotification
    <3>3. queued' > 0
      BY <1>0, <3>2
    <3> QED
      BY <3>3 DEF StreamCover
  <2> QED
    BY <2>1, <2>2
<1>3. CASE SinkTriggers
  BY <1>0, <1>3, StreamTriggersKept DEF SinkTriggers, StreamCover
<1>4. CASE StreamStep
  <2>1. UNCHANGED <<accountVars, triggers, excused, queued, ready>>
    BY <1>4 DEF StreamStep, workerVars, StreamDials, ServerServes, ServerAnswers
  <2>2. OnWire("changed") => OnWire("changed")'
    <3>1. CASE ServerAnswers
      <4>1. wire' = Append(wire, IF answered = 0 THEN "cod" ELSE "subscribe")
        BY <3>1 DEF ServerAnswers
      <4>2. (IF answered = 0 THEN "cod" ELSE "subscribe") \in {"cod", "subscribe", "changed"}
        OBVIOUS
      <4> QED
        BY <1>0, <4>1, <4>2, WireAdded
    <3>2. CASE UNCHANGED wire
      BY <3>2 DEF OnWire
    <3> QED
      BY <1>4, <3>1, <3>2 DEF StreamStep, StreamDials, ServerServes
  <2> QED
    BY <2>1, <2>2 DEF accountVars, StreamCover, UpToDate, Reading, Queued
<1>5. CASE StreamIsLost \/ Restart
  BY <1>5 DEF StreamIsLost, StreamBreaks, Lost, Restart, StreamRestart, StreamCover
<1>6. CASE VenueChanges
  <2>1. CASE ready
    <3>1. wire' = Append(wire, "changed")
      BY <1>6, <2>1 DEF VenueChanges, ServerNotifies, SubscribedInv
    <3>2. OnWire("changed")'
      BY <1>0, <3>1, WireAdded
    <3> QED
      BY <3>2 DEF StreamCover
  <2>2. CASE ~ready
    BY <1>6, <2>2 DEF VenueChanges, StreamCover
  <2> QED
    BY <2>1, <2>2
<1> QED
  BY <1>1, <1>2, <1>3, <1>4, <1>5, <1>6

(* The steps of the manager and of its callers keep the cover.             *)
LEMMA CoverByManager ==
  ASSUME TypeInv, ReadInv, StreamCover,
         \/ WorkerTakes \/ RefreshBegins \/ RefreshSucceeds \/ ReadFails
         \/ (\E c \in Refreshers : GivesUp(c)) \/ ManagerStep \/ Announce
         \/ PriceChanges \/ AnnounceValuation
  PROVE  StreamCover'
<1>0. /\ call \in [at: CallSteps, by: Refreshers, got: Nat] /\ WorkerTypes
      /\ snap \in Accounts \union {NoAccount} /\ NoAccount \notin Accounts
      /\ venueAccount \in Nat /\ inst \in Nat /\ revision \in Nat
  BY AccountLimits DEF TypeInv, AccountTypeOK, Accounts
<1>1. CASE WorkerTakes
  <2>1. UNCHANGED streamVars /\ excused' = (excused \/ call.at \notin {"none", "reading"})
    BY <1>1 DEF WorkerTakes
  <2>2. CASE call.at \in {"none", "reading"}
    <3>1. call'.at = "reading"
      BY <1>1, <2>2 DEF WorkerTakes, Refresh
    <3> QED
      BY <3>1 DEF StreamCover, Reading
  <2>3. CASE call.at \notin {"none", "reading"}
    BY <2>1, <2>3 DEF StreamCover
  <2> QED
    BY <2>2, <2>3
<1>2. CASE RefreshBegins
  <2>1. UNCHANGED <<ready, wire, queued, triggers, excused>>
    BY <1>2 DEF RefreshBegins, streamVars, workerVars
  <2>2. ManagerCovers => ManagerCovers'
    BY <1>2 DEF RefreshBegins, Refresh, ManagerCovers, UpToDate, Reading
  <2> QED
    BY <2>1, <2>2, CoverRests DEF Queued
<1>3. CASE RefreshSucceeds
  <2>1. call'.at = "read" /\ call'.got = venueAccount'
    BY <1>0, <1>3 DEF RefreshSucceeds, RefreshReads
  <2> QED
    BY <2>1 DEF StreamCover, Reading
<1>4. CASE ReadFails
  BY <1>4 DEF ReadFails, StreamCover
<1>5. CASE (\E c \in Refreshers : GivesUp(c)) \/ AnnounceValuation
  <2>1. UNCHANGED <<ready, wire, queued, triggers, excused>>
    BY <1>5 DEF GivesUp, AnnounceValuation, streamVars, workerVars
  <2>2. UNCHANGED <<venueAccount, snap, call>>
    BY <1>5 DEF GivesUp, WaitTimesOut, AnnounceValuation, PublishValuation
  <2> QED
    BY <2>1, <2>2, CoverRests DEF Queued, ManagerCovers, UpToDate, Reading
<1>6. CASE ManagerStep \/ Announce
  <2>1. UNCHANGED <<ready, wire, queued, triggers, excused, venueAccount>>
    BY <1>6
       DEF ManagerStep, Announce, RefreshStores, RefreshFails, RefreshEnds, RefreshAnnounces,
           streamVars, workerVars
  <2>2. CASE RefreshStores
    <3>1. snap' \in Accounts /\ snap'.bal = call.got /\ call.at = "read"
      BY <1>0, <2>2 DEF RefreshStores, Accounts
    <3>2. ManagerCovers => call.got = venueAccount
      <4>1. CASE UpToDate
        <5>1. call.got <= venueAccount /\ venueAccount <= call.got /\ call.got \in Nat
          BY <1>0, <3>1, <4>1 DEF ReadInv, UpToDate
        <5> QED
          BY <1>0, <5>1
      <4>2. CASE Reading
        BY <3>1, <4>2 DEF Reading
      <4> QED
        BY <4>1, <4>2 DEF ManagerCovers
    <3>3. ManagerCovers => UpToDate'
      BY <1>0, <2>1, <3>1, <3>2 DEF UpToDate
    <3> QED
      BY <2>1, <3>3, CoverRests DEF ManagerCovers, Queued
  <2>3. CASE ~RefreshStores
    <3>1. UNCHANGED snap /\ call.at \notin {"reading", "read"}
      BY <1>6, <2>3 DEF ManagerStep, Announce, RefreshFails, RefreshEnds, RefreshAnnounces
    <3>2. ManagerCovers => ManagerCovers'
      BY <2>1, <3>1 DEF ManagerCovers, UpToDate, Reading
    <3> QED
      BY <2>1, <3>2, CoverRests DEF Queued
  <2> QED
    BY <2>2, <2>3
<1>7. CASE PriceChanges
  <2>1. UNCHANGED <<ready, wire, queued, triggers, excused, venueAccount, call>>
    BY <1>7 DEF PriceChanges, Revalue, streamVars, workerVars
  <2>2. snap \in Accounts /\ snap' = [snap EXCEPT !.rev = revision + 1]
    BY <1>0, <1>7 DEF PriceChanges, Revalue
  <2>3. snap' \in Accounts /\ snap'.bal = snap.bal
    BY <1>0, <2>2 DEF Accounts
  <2>4. ManagerCovers => ManagerCovers'
    BY <1>0, <2>1, <2>2, <2>3 DEF ManagerCovers, UpToDate, Reading
  <2> QED
    BY <2>1, <2>4, CoverRests DEF Queued
<1> QED
  BY <1>1, <1>2, <1>3, <1>4, <1>5, <1>6, <1>7

(* Every step keeps the cover.                                             *)
LEMMA CoverKept ==
  ASSUME TypeInv, SubscribedInv, ReadInv, StreamCover, [Next]_vars
  PROVE  StreamCover'
<1>1. CASE OtherTriggers \/ WorkerTakesOther
  <2>1. UNCHANGED <<ready, wire, queued, excused, venueAccount, snap, call>>
    BY <1>1 DEF OtherTriggers, WorkerTakesOther, streamVars, accountVars
  <2>2. Queued("this") => Queued("this")'
    <3>1. CASE OtherTriggers
      BY <3>1, Triggers DEF OtherTriggers, TypeInv
    <3>2. CASE WorkerTakesOther
      BY <3>2, TriggerTaken DEF WorkerTakesOther, TypeInv
    <3> QED
      BY <1>1, <3>1, <3>2
  <2>3. ManagerCovers => ManagerCovers'
    BY <2>1 DEF ManagerCovers, UpToDate, Reading
  <2> QED
    BY <2>1, <2>2, <2>3, CoverRests
<1>2. CASE UNCHANGED <<accountVars, streamVars, triggers, excused>>
  BY <1>2 DEF accountVars, streamVars, StreamCover, UpToDate, Reading, OnWire, Queued
<1>3. CASE WorkerRechecks \/ WorkerReturns \/ SocketStep \/ SocketIsLost \/ PollStep
           \/ UNCHANGED vars
  BY <1>2, <1>3
     DEF WorkerRechecks, WorkerReturns, SocketStep, SocketIsLost, PollStep, vars, workerVars
<1> QED
  BY <1>1, <1>3, CoverByStream, CoverByManager DEF Next

(* The cover holds in every reachable state.                               *)
LEMMA StreamInvHolds == Spec => [](SubscribedInv /\ ReadInv /\ StreamCover)
<1>1. Init => SubscribedInv /\ ReadInv /\ StreamCover
  <2> SUFFICES ASSUME Init PROVE SubscribedInv /\ ReadInv /\ StreamCover
    OBVIOUS
  <2>1. /\ srv = 0 /\ answered = 0 /\ ~subscribed /\ ~ready /\ wire = <<>>
        /\ snap = NoAccount /\ call = NoCall
    BY DEF Init, AccountInit, StreamInit
  <2> QED
    BY <2>1 DEF SubscribedInv, OnWire, ReadInv, NoCall, StreamCover
<1>2. TypeInv /\ SubscribedInv /\ ReadInv /\ StreamCover /\ [Next]_vars
        => (SubscribedInv /\ ReadInv /\ StreamCover)'
  <2> SUFFICES ASSUME TypeInv, SubscribedInv, ReadInv, StreamCover, [Next]_vars
               PROVE  SubscribedInv' /\ ReadInv' /\ StreamCover'
    OBVIOUS
  <2>1. SubscribedInv'
    BY Moves, SubscribedKept DEF TypeInv
  <2>2. ReadInv'
    BY Moves, ReadKept DEF TypeInv
  <2> QED
    BY <2>1, <2>2, CoverKept
<1> QED
  BY <1>1, <1>2, TypesHold, PTL DEF Spec

(* A ready stream whose messages are worked off has brought the snapshot   *)
(* up to date, whenever the change came, for any sizes of its queues and   *)
(* of the triggers' channel and any number of changes and reconnections.   *)
(* ReadInv is what keeps a refresh that read the venue early from storing  *)
(* over a newer snapshot.                                                  *)
THEOREM StreamsKeepSnapshot == Spec => []StreamsKeepUp
<1>1. StreamCover => StreamsKeepUp
  BY DEF StreamCover, StreamsKeepUp, Settled, UpToDate, Reading, OnWire, Queued
<1> QED
  BY <1>1, StreamInvHolds, PTL
=============================================================================
