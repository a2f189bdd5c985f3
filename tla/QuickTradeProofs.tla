-------------------------- MODULE QuickTradeProofs --------------------------
(***************************************************************************)
(* Quick Trade sends every order at most once, for any number of request   *)
(* goroutines, intents, quotes, requests and crashes.                      *)
(***************************************************************************)
EXTENDS QuickTrade, IntentStoreProofs

(* The steps at which a confirmation owns an intent.                       *)
Holding == {"dispatch", "submit", "await", "record"}

(* A confirmation in progress has its locals: the quote once the cache     *)
(* returned it, and a stored intent once it created one.                   *)
CallsReady ==
  \A h \in Handlers :
    /\ pc[h] \in ConfirmSteps => call[h] \in Calls
    /\ pc[h] \in {"validate", "persist"} => call[h].quote \in Quotes
    /\ pc[h] \in Holding => call[h].intent \in Stored

(* So has a recheck in progress.                                           *)
RecheckReady ==
  /\ rpc # "idle" => rcall \in Rechecks /\ rcall.intent \in Stored
  /\ rpc \in {"write", "refresh"} => rcall.resolved \in Resolutions

(* Two confirmations never own the same intent.                            *)
OneOwner ==
  \A g, h \in Handlers :
    pc[g] \in Holding /\ pc[h] \in Holding /\ g # h
      => call[g].intent # call[h].intent

(* An owner that has not sent yet owns an intent that was never sent.      *)
UnsentUntilSubmit ==
  \A h \in Handlers :
    /\ pc[h] \in {"dispatch", "submit"} => sends[call[h].intent] = 0
    /\ pc[h] = "submit" => quickTrades[call[h].intent].sendAttempted

(* What was sent is stored and carries the write-ahead mark.               *)
WriteAhead ==
  \A i \in Intents :
    sends[i] # 0 => /\ sends[i] = 1
                    /\ i \in Stored
                    /\ quickTrades[i].sendAttempted

SubmissionInv ==
  /\ TypeOK
  /\ IndexesAgree
  /\ CallsReady
  /\ RecheckReady
  /\ OneOwner
  /\ UnsentUntilSubmit
  /\ WriteAhead

-----------------------------------------------------------------------------
(* Every write of the goroutines and of recovery is an operation of the    *)
(* store on arguments the store expects.                                   *)

(* The types of a confirmation's locals.                                   *)
LEMMA CallFields ==
  ASSUME NEW c \in Calls
  PROVE  /\ c.session \in Sessions /\ c.request \in Requests
         /\ c.quoteId \in QuoteIds /\ c.now \in Times
         /\ c.quote \in Quotes \union {None}
         /\ c.intent \in Intents \union {NoIntent}
         /\ c.outcome \in Outcomes \union {None}
  BY DEF Calls

(* Every update Confirm and RecheckTrade build is one the store is         *)
(* prepared for.                                                           *)
LEMMA UpdatesAreOffered ==
  /\ \A o : SubmissionUpdate(o) \in Updates
  /\ NotSubmitted \in Updates
  /\ \A r \in Rechecks :
       r.resolved \in Resolutions => RecheckUpdate(r) \in Updates
  /\ \A b \in {"SYNCED", "STALE"} :
       [status |-> Unset, resultStatus |-> Unset, balanceSync |-> b] \in Updates
<1>1. \A o : SubmissionUpdate(o) \in CallerUpdates
  BY DEF SubmissionUpdate, CallerUpdates, Results
<1>2. NotSubmitted \in CallerUpdates
  BY DEF NotSubmitted, CallerUpdates, Results
<1>3. ASSUME NEW r \in Rechecks, r.resolved \in Resolutions
      PROVE  RecheckUpdate(r) \in CallerUpdates
  BY <1>3 DEF RecheckUpdate, CallerUpdates, Resolutions
<1>4. \A b \in {"SYNCED", "STALE"} :
        [status |-> Unset, resultStatus |-> Unset, balanceSync |-> b]
          \in CallerUpdates
  BY DEF CallerUpdates
<1> QED
  BY <1>1, <1>2, <1>3, <1>4, QuickTradeAssumption

(* The locked part of a confirmation is an operation of the store or       *)
(* leaves it alone.                                                        *)
LEMMA PersistIsStoreStep ==
  ASSUME TypeOK, CallsReady, NEW h \in Handlers, ConfirmPersist(h)
  PROVE  [StoreNext]_storeVars
<1>1. /\ call[h] \in Calls /\ call[h].quote \in Quotes
      /\ call[h].session \in Sessions /\ call[h].request \in Requests
      /\ call[h].now \in Times
  BY CallFields DEF ConfirmPersist, CallsReady, ConfirmSteps
<1>2. \A i \in Intents : Confirmation(h, i) \in Confirmations
  BY <1>1, QuickTradeAssumption DEF Confirmation, Confirmations
<1>3. ASSUME NEW i \in Intents, CreateIntent(Confirmation(h, i), call[h].now)
      PROVE  StoreNext
  BY <1>1, <1>2, <1>3 DEF StoreNext
<1>4. ASSUME AliasRequest(Confirmation(h, NoIntent))
      PROVE  StoreNext
  <2>1. PICK i \in Intents : i = GetQuickTradeByQuote(call[h].quote.id)
    BY <1>4 DEF AliasRequest, CanAlias, Confirmation, Stored
  <2>2. AliasRequest(Confirmation(h, i))
    BY <1>4 DEF AliasRequest, CanAlias, Confirmation, validateConfirmation
  <2> QED
    BY <1>2, <2>2 DEF StoreNext
<1> QED
  BY <1>3, <1>4 DEF ConfirmPersist

(* Store steps of the composed system are steps of StoreNext.              *)
LEMMA NextIsStoreStep ==
  TypeOK /\ CallsReady /\ RecheckReady /\ [Next]_vars => [StoreNext]_storeVars
<1> SUFFICES ASSUME TypeOK, CallsReady, RecheckReady, [Next]_vars
             PROVE  [StoreNext]_storeVars
  OBVIOUS
<1>1. ASSUME NEW quote \in Quotes, CreateQuote(quote)
      PROVE  UNCHANGED storeVars
  BY <1>1 DEF CreateQuote
<1>2. ASSUME NEW h \in Handlers, Confirm(h)
      PROVE  [StoreNext]_storeVars
  <2>1. ASSUME NEW session \in Sessions, NEW request \in Requests,
               NEW quoteId \in QuoteIds,
               ConfirmByRequest(h, session, request, quoteId)
        PROVE  UNCHANGED storeVars
    BY <2>1 DEF ConfirmByRequest
  <2>2. ASSUME \/ ConfirmByQuote(h) \/ ConfirmGet(h) \/ ConfirmValidate(h)
               \/ ConfirmSubmit(h) \/ ConfirmAwait(h) \/ ConfirmStoreFailure(h)
        PROVE  UNCHANGED storeVars
    BY <2>2 DEF ConfirmByQuote, ConfirmGet, ConfirmValidate, ConfirmSubmit,
                ConfirmAwait, ConfirmStoreFailure
  <2>3. ASSUME ConfirmPersist(h)
        PROVE  [StoreNext]_storeVars
    BY <2>3, PersistIsStoreStep
  <2>4. ASSUME ConfirmDispatch(h)
        PROVE  [StoreNext]_storeVars
    <3>1. call[h].intent \in Intents
      BY <2>4 DEF ConfirmDispatch, CallsReady, Holding, Stored
    <3> QED
      BY <2>4, <3>1 DEF ConfirmDispatch, StoreNext
  <2>5. ASSUME ConfirmRecord(h)
        PROVE  [StoreNext]_storeVars
    <3>1. call[h].intent \in Intents
      BY <2>5 DEF ConfirmRecord, CallsReady, Holding, Stored
    <3> QED
      BY <2>5, <3>1, UpdatesAreOffered DEF ConfirmRecord, StoreNext
  <2> QED
    BY <1>2, <2>1, <2>2, <2>3, <2>4, <2>5 DEF Confirm
<1>3. ASSUME NEW i \in Intents, RecheckBegin(i)
      PROVE  UNCHANGED storeVars
  BY <1>3 DEF RecheckBegin
<1>4. ASSUME RecheckStep
      PROVE  [StoreNext]_storeVars
  <2>1. ASSUME RecheckFind \/ RecheckMiss \/ RecheckReadError \/ RecheckStoreFailure
        PROVE  UNCHANGED storeVars
    BY <2>1 DEF RecheckFind, RecheckMiss, Resolve, RecheckReadError,
                RecheckStoreFailure
  <2>2. ASSUME RecheckReject
        PROVE  [StoreNext]_storeVars
    <3>1. rcall.intent \in Intents
      BY <2>2 DEF RecheckReject, RecheckReady, Stored
    <3> QED
      BY <2>2, <3>1, UpdatesAreOffered DEF RecheckReject, StoreNext
  <2>3. ASSUME RecheckWrite
        PROVE  [StoreNext]_storeVars
    <3>1. rcall.intent \in Intents /\ RecheckUpdate(rcall) \in Updates
      BY <2>3, UpdatesAreOffered DEF RecheckWrite, RecheckReady, Stored
    <3> QED
      BY <2>3, <3>1 DEF RecheckWrite, StoreNext
  <2>4. ASSUME RecheckRefresh
        PROVE  [StoreNext]_storeVars
    <3>1. rcall.intent \in Intents
      BY <2>4 DEF RecheckRefresh, RecheckReady, Stored
    <3>2. PICK b \in {"SYNCED", "STALE"} :
            UpdateQuickTrade(rcall.intent,
              [status |-> Unset, resultStatus |-> Unset, balanceSync |-> b])
      BY <2>4 DEF RecheckRefresh
    <3> QED
      BY <3>1, <3>2, UpdatesAreOffered DEF StoreNext
  <2> QED
    BY <1>4, <2>1, <2>2, <2>3, <2>4 DEF RecheckStep
<1>5. ASSUME NEW i \in Intents, VenueStep(i)
      PROVE  UNCHANGED storeVars
  BY <1>5 DEF VenueStep
<1>6. ASSUME Tick \/ Crash \/ UNCHANGED vars
      PROVE  UNCHANGED storeVars
  BY <1>6 DEF Tick, Crash, vars, storeVars
<1> QED
  BY <1>1, <1>2, <1>3, <1>4, <1>5, <1>6 DEF Next

(* Therefore what is stored stays stored, and a send mark stays.           *)
LEMMA StoreKeeps ==
  ASSUME StoreTypeOK, [StoreNext]_storeVars
  PROVE  /\ Stored \subseteq Stored'
         /\ \A i \in Stored :
              quickTrades[i].sendAttempted => quickTrades'[i].sendAttempted
  BY PreservedStep DEF TradePreserved, Stored, storeVars

-----------------------------------------------------------------------------
(* What one step of a confirmation does to its goroutine: it moves to `at' *)
(* with the locals `c' and touches no other goroutine.                     *)
Moves(h, at, c) ==
  /\ pc' = [pc EXCEPT ![h] = at]
  /\ call' = [call EXCEPT ![h] = c]
  /\ at \in Finished \union ConfirmSteps
  /\ c \in Calls \union {None}
  /\ at \in ConfirmSteps => c \in Calls
  /\ at \in {"validate", "persist"} => c.quote \in Quotes

(* The step creates an intent that was not stored before.                  *)
Acquires(c) ==
  c.intent \in Intents /\ c.intent \notin Stored /\ c.intent \in Stored'

(* The kinds of step a confirmation can take.                              *)
Kinds(h, at, c) ==
  \/ at \notin Holding /\ sends' = sends
  \/ at = "dispatch" /\ Acquires(c) /\ sends' = sends
  \/ /\ pc[h] = "dispatch" /\ at = "submit" /\ c = call[h] /\ sends' = sends
     /\ quickTrades'[c.intent].sendAttempted
  \/ /\ pc[h] = "submit" /\ at = "await" /\ c = call[h]
     /\ sends' = [sends EXCEPT ![c.intent] = @ + 1]
  \/ /\ pc[h] = "await" /\ at = "record" /\ c.intent = call[h].intent
     /\ sends' = sends

(* A step to the next stage moves one goroutine and keeps its locals.      *)
LEMMA GotoMoves ==
  ASSUME TypeOK, NEW h \in Handlers, NEW at, Goto(h, at), call[h] \in Calls,
         at \in ConfirmSteps,
         at \in {"validate", "persist"} => call[h].quote \in Quotes
  PROVE  Moves(h, at, call[h])
  BY DEF TypeOK, Goto, Moves

(* An answer moves one goroutine out of every stage that holds an intent.  *)
LEMMA AnswerMoves ==
  ASSUME NEW h \in Handlers, NEW at \in Finished, Answer(h, at)
  PROVE  Moves(h, at, None) /\ at \notin Holding
  BY DEF Answer, Moves, Finished, Holding, ConfirmSteps

(* Every step of a confirmation moves one goroutine by one stage; the move *)
(* to the send is the only one that counts a send.                         *)
LEMMA ConfirmMoves ==
  ASSUME TypeOK, CallsReady, NEW h \in Handlers, Confirm(h)
  PROVE  \E at, c : Moves(h, at, c) /\ Kinds(h, at, c)
<1> USE DEF Finished
<1>0. pc[h] \in ConfirmSteps => call[h] \in Calls
  BY DEF CallsReady
<1>1. ASSUME NEW session \in Sessions, NEW request \in Requests,
             NEW quoteId \in QuoteIds,
             ConfirmByRequest(h, session, request, quoteId)
      PROVE  \E at, c : Moves(h, at, c) /\ Kinds(h, at, c)
  <2> DEFINE c == [session |-> session, request |-> request,
                   quoteId |-> quoteId, quote |-> None, now |-> 0,
                   intent |-> NoIntent, outcome |-> None]
  <2>1. sends' = sends
    BY <1>1 DEF ConfirmByRequest
  <2>2. c \in Calls
    BY QuickTradeAssumption DEF Calls
  <2>3. CASE Answer(h, "idle")
    BY <2>1, <2>3, AnswerMoves DEF Kinds
  <2>4. CASE pc' = [pc EXCEPT ![h] = "byQuote"] /\ call' = [call EXCEPT ![h] = c]
    <3>1. Moves(h, "byQuote", c)
      BY <2>2, <2>4 DEF Moves, ConfirmSteps
    <3> QED
      BY <3>1, <2>1 DEF Kinds, Holding
  <2> QED
    BY <1>1, <2>3, <2>4 DEF ConfirmByRequest
<1>2. ASSUME ConfirmByQuote(h)
      PROVE  \E at, c : Moves(h, at, c) /\ Kinds(h, at, c)
  <2>1. call[h] \in Calls /\ sends' = sends
    BY <1>2, <1>0 DEF ConfirmByQuote, ConfirmSteps
  <2>2. CASE Answer(h, "idle")
    BY <2>1, <2>2, AnswerMoves DEF Kinds
  <2>3. CASE Goto(h, "cache")
    <3>1. Moves(h, "cache", call[h])
      BY <2>1, <2>3, GotoMoves DEF ConfirmSteps
    <3> QED
      BY <3>1, <2>1 DEF Kinds, Holding
  <2> QED
    BY <1>2, <2>2, <2>3 DEF ConfirmByQuote
<1>3. ASSUME ConfirmGet(h)
      PROVE  \E at, c : Moves(h, at, c) /\ Kinds(h, at, c)
  <2>1. call[h] \in Calls /\ sends' = sends
    BY <1>3, <1>0 DEF ConfirmGet, ConfirmSteps
  <2>2. CASE Answer(h, "idle")
    BY <2>1, <2>2, AnswerMoves DEF Kinds
  <2>3. ASSUME NEW q \in cache',
               call' = [call EXCEPT ![h].quote = q, ![h].now = clock],
               pc' = [pc EXCEPT ![h] = "validate"]
        PROVE  \E at, c : Moves(h, at, c) /\ Kinds(h, at, c)
    <3> DEFINE c == [call[h] EXCEPT !.quote = q, !.now = clock]
    <3>1. q \in Quotes
      BY <1>3 DEF ConfirmGet, prune, TypeOK
    <3>2. c \in Calls /\ c.quote = q
      BY <2>1, <3>1 DEF Calls, TypeOK
    <3>3. call' = [call EXCEPT ![h] = c]
      BY <2>3 DEF TypeOK
    <3>4. Moves(h, "validate", c)
      BY <2>3, <3>1, <3>2, <3>3 DEF Moves, ConfirmSteps
    <3> QED
      BY <3>4, <2>1 DEF Kinds, Holding
  <2> QED
    BY <1>3, <2>2, <2>3 DEF ConfirmGet
<1>4. ASSUME ConfirmValidate(h)
      PROVE  \E at, c : Moves(h, at, c) /\ Kinds(h, at, c)
  <2>1. call[h] \in Calls /\ call[h].quote \in Quotes /\ sends' = sends
    BY <1>4, <1>0 DEF ConfirmValidate, ConfirmSteps, CallsReady
  <2>2. CASE Answer(h, "idle")
    BY <2>1, <2>2, AnswerMoves DEF Kinds
  <2>3. CASE Goto(h, "persist")
    <3>1. Moves(h, "persist", call[h])
      BY <2>1, <2>3, GotoMoves DEF ConfirmSteps
    <3> QED
      BY <3>1, <2>1 DEF Kinds, Holding
  <2> QED
    BY <1>4, <2>2, <2>3 DEF ConfirmValidate
<1>5. ASSUME ConfirmPersist(h)
      PROVE  \E at, c : Moves(h, at, c) /\ Kinds(h, at, c)
  <2>1. /\ call[h] \in Calls /\ call[h].quote \in Quotes /\ sends' = sends
        /\ call[h].session \in Sessions /\ call[h].request \in Requests
        /\ call[h].now \in Times
    BY <1>5, <1>0, CallFields DEF ConfirmPersist, ConfirmSteps, CallsReady
  <2>2. CASE Answer(h, "idle")
    BY <2>1, <2>2, AnswerMoves DEF Kinds
  <2>3. ASSUME NEW i \in Intents,
               CreateIntent(Confirmation(h, i), call[h].now),
               pc' = [pc EXCEPT ![h] = "dispatch"],
               call' = [call EXCEPT ![h].intent = i]
        PROVE  \E at, c : Moves(h, at, c) /\ Kinds(h, at, c)
    <3> DEFINE c == [call[h] EXCEPT !.intent = i]
    <3>1. c \in Calls /\ c.intent = i
      BY <2>1 DEF Calls
    <3>2. Confirmation(h, i) \in Confirmations /\ Confirmation(h, i).intent = i
      BY <2>1, QuickTradeAssumption DEF Confirmation, Confirmations
    <3>3. i \notin Stored /\ i \in Stored'
      BY <2>1, <2>3, <3>2, CreateAddsStored DEF TypeOK
    <3>4. call' = [call EXCEPT ![h] = c]
      BY <2>3 DEF TypeOK
    <3>5. Moves(h, "dispatch", c)
      BY <2>3, <3>1, <3>4 DEF Moves, ConfirmSteps
    <3> QED
      BY <2>1, <3>1, <3>3, <3>5 DEF Kinds, Acquires
  <2> QED
    BY <1>5, <2>2, <2>3 DEF ConfirmPersist
<1>6. ASSUME ConfirmDispatch(h)
      PROVE  \E at, c : Moves(h, at, c) /\ Kinds(h, at, c)
  <2>1. /\ call[h] \in Calls /\ sends' = sends /\ pc[h] = "dispatch"
        /\ call[h].intent \in Intents
    BY <1>6, <1>0 DEF ConfirmDispatch, ConfirmSteps, CallsReady, Holding, Stored
  <2>2. CASE Answer(h, "failed")
    BY <2>1, <2>2, AnswerMoves DEF Kinds
  <2>3. CASE MarkQuickTradeDispatching(call[h].intent) /\ Goto(h, "submit")
    <3>1. Moves(h, "submit", call[h])
      BY <2>1, <2>3, GotoMoves DEF ConfirmSteps
    <3>2. quickTrades'[call[h].intent].sendAttempted
      BY <2>1, <2>3, DispatchEffect DEF TypeOK
    <3> QED
      BY <3>1, <3>2, <2>1 DEF Kinds
  <2> QED
    BY <1>6, <2>2, <2>3 DEF ConfirmDispatch
<1>7. ASSUME ConfirmSubmit(h)
      PROVE  \E at, c : Moves(h, at, c) /\ Kinds(h, at, c)
  <2>1. Moves(h, "await", call[h])
    BY <1>7, <1>0, GotoMoves DEF ConfirmSubmit, ConfirmSteps
  <2> QED
    BY <1>7, <2>1 DEF ConfirmSubmit, Kinds
<1>8. ASSUME ConfirmAwait(h)
      PROVE  \E at, c : Moves(h, at, c) /\ Kinds(h, at, c)
  <2>1. PICK o \in SubmitOutcomes(call[h].intent) :
          call' = [call EXCEPT ![h].outcome = o]
    BY <1>8 DEF ConfirmAwait
  <2> DEFINE c == [call[h] EXCEPT !.outcome = o]
  <2>2. o \in Outcomes
    BY DEF SubmitOutcomes, Outcomes
  <2>3. call[h] \in Calls /\ sends' = sends /\ pc[h] = "await"
    BY <1>8, <1>0 DEF ConfirmAwait, ConfirmSteps
  <2>4. c \in Calls /\ c.intent = call[h].intent
    BY <2>2, <2>3 DEF Calls
  <2>5. call' = [call EXCEPT ![h] = c]
    BY <2>1 DEF TypeOK
  <2>6. Moves(h, "record", c)
    BY <1>8, <2>4, <2>5 DEF ConfirmAwait, Moves, ConfirmSteps
  <2> QED
    BY <2>3, <2>4, <2>6 DEF Kinds
<1>9. ASSUME ConfirmRecord(h) \/ ConfirmStoreFailure(h)
      PROVE  \E at, c : Moves(h, at, c) /\ Kinds(h, at, c)
  BY <1>9, AnswerMoves DEF ConfirmRecord, ConfirmStoreFailure, Kinds
<1> QED
  BY <1>1, <1>2, <1>3, <1>4, <1>5, <1>6, <1>7, <1>8, <1>9 DEF Confirm

-----------------------------------------------------------------------------
(* The variables beside the store and the goroutines keep their types, and *)
(* a recheck in progress keeps its locals.                                 *)
RestTypeOK ==
  /\ clock \in Times
  /\ cache \subseteq Quotes
  /\ issued \in Seq(QuoteIds)
  /\ rpc \in RecheckSteps
  /\ rcall \in Rechecks \union {None}
  /\ venue \in [Intents -> VenueStates]
  /\ crashes \in 0 .. MaxCrashes

(* A confirmation's step keeps the types of everything but its own locals. *)
LEMMA ConfirmRest ==
  ASSUME TypeOK, CallsReady, NEW h \in Handlers, Confirm(h)
  PROVE  RestTypeOK' /\ UNCHANGED recheckVars
<1>1. call[h].intent \in Intents => [venue EXCEPT ![call[h].intent] = "flight"]
                                      \in [Intents -> VenueStates]
  BY DEF TypeOK, VenueStates
<1>2. pc[h] = "submit" => call[h].intent \in Intents
  BY DEF CallsReady, Holding, Stored
<1>3. ASSUME NEW session \in Sessions, NEW request \in Requests,
             NEW quoteId \in QuoteIds,
             ConfirmByRequest(h, session, request, quoteId)
      PROVE  RestTypeOK' /\ UNCHANGED recheckVars
  BY <1>3 DEF ConfirmByRequest, TypeOK, RestTypeOK, recheckVars
<1>4. ASSUME ConfirmGet(h)
      PROVE  RestTypeOK' /\ UNCHANGED recheckVars
  BY <1>4 DEF ConfirmGet, prune, TypeOK, RestTypeOK, recheckVars
<1>5. ASSUME ConfirmSubmit(h)
      PROVE  RestTypeOK' /\ UNCHANGED recheckVars
  BY <1>1, <1>2, <1>5 DEF ConfirmSubmit, TypeOK, RestTypeOK, recheckVars
<1>6. ASSUME ConfirmByQuote(h) \/ ConfirmValidate(h) \/ ConfirmPersist(h)
      PROVE  RestTypeOK' /\ UNCHANGED recheckVars
  BY <1>6 DEF ConfirmByQuote, ConfirmValidate, ConfirmPersist, TypeOK,
              RestTypeOK, recheckVars
<1>7. ASSUME \/ ConfirmDispatch(h) \/ ConfirmAwait(h) \/ ConfirmRecord(h)
             \/ ConfirmStoreFailure(h)
      PROVE  RestTypeOK' /\ UNCHANGED recheckVars
  BY <1>7 DEF ConfirmDispatch, ConfirmAwait, ConfirmRecord, ConfirmStoreFailure,
              TypeOK, RestTypeOK, recheckVars
<1> QED
  BY <1>3, <1>4, <1>5, <1>6, <1>7 DEF Confirm

(* Every order state has a resolution.                                     *)
LEMMA ResolutionType == \A state : Resolution(state) \in Resolutions
  BY DEF Resolution, Inconclusive, Resolutions, Results

(* The steps of everything but the confirmations, crashes aside.           *)
LEMMA OthersRest ==
  ASSUME TypeOK, RecheckReady,
         \/ \E quote \in Quotes : CreateQuote(quote)
         \/ \E i \in Intents : RecheckBegin(i)
         \/ RecheckStep
         \/ \E i \in Intents : VenueStep(i)
         \/ Tick
         \/ UNCHANGED vars,
         Stored \subseteq Stored'
  PROVE  RestTypeOK' /\ RecheckReady' /\ UNCHANGED <<confirmVars, sends>>
<1> DEFINE Goal == RestTypeOK' /\ RecheckReady' /\ UNCHANGED <<confirmVars, sends>>
<1>1. ASSUME NEW quote \in Quotes, CreateQuote(quote)
      PROVE  Goal
  <2>1. quote.id \in QuoteIds
    BY QuotesAssumption DEF QuoteRecords
  <2>2. cache' \subseteq Quotes
    BY <1>1 DEF CreateQuote, Put, prune, TypeOK
  <2>3. issued' \in Seq(QuoteIds)
    BY <1>1, <2>1 DEF CreateQuote, TypeOK
  <2> QED
    BY <1>1, <2>2, <2>3 DEF CreateQuote, TypeOK, RestTypeOK, RecheckReady,
       recheckVars, confirmVars
<1>2. ASSUME NEW i \in Intents, RecheckBegin(i)
      PROVE  Goal
  <2>1. quickTrades[i] \in Trades
    BY <1>2 DEF RecheckBegin, Stored, TypeOK, StoreTypeOK
  <2>2. rcall' \in Rechecks /\ rcall'.intent = i
    BY <1>2, <2>1 DEF RecheckBegin, Rechecks, Trades
  <2>3. rpc' \in {"reject", "read"}
    BY <1>2 DEF RecheckBegin
  <2> QED
    BY <1>2, <2>2, <2>3 DEF RecheckBegin, TypeOK, RestTypeOK, RecheckReady,
       RecheckSteps, confirmVars
<1>3. ASSUME NEW resolved \in Resolutions, Resolve(resolved)
      PROVE  Goal
  <2>1. rcall \in Rechecks /\ rcall.intent \in Stored
    BY <1>3 DEF Resolve, RecheckReady
  <2>2. /\ rcall' \in Rechecks /\ rcall'.intent = rcall.intent
        /\ rcall'.resolved = resolved
    BY <1>3, <2>1 DEF Resolve, Rechecks
  <2> QED
    BY <1>3, <2>1, <2>2 DEF Resolve, TypeOK, RestTypeOK, RecheckReady,
       RecheckSteps, confirmVars
<1>4. ASSUME RecheckFind \/ RecheckMiss
      PROVE  Goal
  BY <1>3, <1>4, ResolutionType
     DEF RecheckFind, RecheckMiss, Inconclusive, Resolutions, Results
<1>5. ASSUME RecheckReject \/ RecheckReadError \/ RecheckRefresh \/ RecheckStoreFailure
      PROVE  Goal
  BY <1>5 DEF RecheckReject, RecheckReadError, RecheckRefresh,
     RecheckStoreFailure, RecheckEnd, TypeOK, RestTypeOK, RecheckReady,
     RecheckSteps, confirmVars
<1>6. ASSUME RecheckWrite
      PROVE  Goal
  BY <1>6 DEF RecheckWrite, RecheckEnd, TypeOK, RestTypeOK, RecheckReady,
     RecheckSteps, confirmVars
<1>7. ASSUME NEW i \in Intents, VenueStep(i)
      PROVE  Goal
  <2>1. \A state : VenueSteps(state) \subseteq VenueStates
    BY DEF VenueSteps, VenueStates, OrderStates
  <2>2. venue' \in [Intents -> VenueStates]
    BY <1>7, <2>1 DEF VenueStep, TypeOK
  <2> QED
    BY <1>7, <2>2 DEF VenueStep, TypeOK, RestTypeOK, RecheckReady, recheckVars,
       confirmVars
<1>8. ASSUME Tick
      PROVE  Goal
  BY <1>8, QuickTradeAssumption
     DEF Tick, TypeOK, RestTypeOK, RecheckReady, recheckVars, confirmVars
<1>9. ASSUME UNCHANGED vars
      PROVE  Goal
  BY <1>9 DEF vars, TypeOK, RestTypeOK, RecheckReady, confirmVars
<1> QED
  BY <1>1, <1>2, <1>4, <1>5, <1>6, <1>7, <1>8, <1>9 DEF RecheckStep

-----------------------------------------------------------------------------
(* The invariant of the goroutines, one lemma per kind of step.            *)
GoroutineInv ==
  /\ pc \in [Handlers -> Finished \union ConfirmSteps]
  /\ call \in [Handlers -> Calls \union {None}]
  /\ sends \in [Intents -> Nat]
  /\ CallsReady
  /\ OneOwner
  /\ UnsentUntilSubmit
  /\ WriteAhead

(* A confirmation's step keeps what is known of the goroutines, the        *)
(* intents they hold and the sends counted so far.                         *)
LEMMA ConfirmStepInv ==
  ASSUME SubmissionInv, NEW h \in Handlers, Confirm(h), [StoreNext]_storeVars
  PROVE  GoroutineInv'
<1>1. PICK at, c : Moves(h, at, c) /\ Kinds(h, at, c)
  BY ConfirmMoves DEF SubmissionInv
<1>2. /\ Stored \subseteq Stored'
      /\ \A i \in Stored :
           quickTrades[i].sendAttempted => quickTrades'[i].sendAttempted
  BY StoreKeeps DEF SubmissionInv, TypeOK
<1>3. /\ pc' \in [Handlers -> Finished \union ConfirmSteps]
      /\ call' \in [Handlers -> Calls \union {None}]
  BY <1>1 DEF Moves, SubmissionInv, TypeOK
<1>4. /\ pc'[h] = at /\ call'[h] = c
      /\ \A g \in Handlers : g # h => pc'[g] = pc[g] /\ call'[g] = call[g]
  BY <1>1 DEF Moves, SubmissionInv, TypeOK
<1>5. /\ \A g \in Handlers : pc[g] \in Holding => call[g].intent \in Stored
      /\ Stored \subseteq Intents
  BY DEF SubmissionInv, CallsReady, Stored
<1>6. at \in Holding => \/ Acquires(c)
                        \/ pc[h] \in Holding /\ c.intent = call[h].intent
  BY <1>1 DEF Kinds, Holding
<1>7. at \in Holding => c.intent \in Stored'
  BY <1>2, <1>5, <1>6 DEF Acquires
<1>8. CallsReady'
  <2> SUFFICES ASSUME NEW g \in Handlers
               PROVE  /\ pc'[g] \in ConfirmSteps => call'[g] \in Calls
                      /\ pc'[g] \in {"validate", "persist"} => call'[g].quote \in Quotes
                      /\ pc'[g] \in Holding => call'[g].intent \in Stored'
    BY DEF CallsReady
  <2>1. CASE g = h
    BY <1>1, <1>4, <1>7, <2>1 DEF Moves
  <2>2. CASE g # h
    BY <1>2, <1>4, <2>2 DEF SubmissionInv, CallsReady
  <2> QED
    BY <2>1, <2>2
<1>9. OneOwner'
  <2> SUFFICES ASSUME NEW f \in Handlers, NEW g \in Handlers,
                      pc'[f] \in Holding, pc'[g] \in Holding, f # g
               PROVE  call'[f].intent # call'[g].intent
    BY DEF OneOwner
  <2>1. ASSUME NEW g2 \in Handlers, g2 # h, pc[g2] \in Holding, at \in Holding
        PROVE  c.intent # call[g2].intent
    BY <1>5, <1>6, <2>1 DEF Acquires, SubmissionInv, OneOwner
  <2>2. CASE f = h
    BY <1>4, <2>1, <2>2
  <2>3. CASE g = h
    BY <1>4, <2>1, <2>3
  <2>4. CASE f # h /\ g # h
    BY <1>4, <2>4 DEF SubmissionInv, OneOwner
  <2> QED
    BY <2>2, <2>3, <2>4
<1>10. CASE sends' = sends
  <2>1. sends' \in [Intents -> Nat]
    BY <1>10 DEF SubmissionInv, TypeOK
  <2>2. WriteAhead'
    BY <1>2, <1>10 DEF SubmissionInv, WriteAhead
  <2>3. UnsentUntilSubmit'
    <3> SUFFICES ASSUME NEW g \in Handlers
                 PROVE  /\ pc'[g] \in {"dispatch", "submit"}
                             => sends[call'[g].intent] = 0
                        /\ pc'[g] = "submit"
                             => quickTrades'[call'[g].intent].sendAttempted
      BY <1>10 DEF UnsentUntilSubmit
    <3>1. CASE g # h
      BY <1>2, <1>4, <1>5, <3>1 DEF SubmissionInv, UnsentUntilSubmit, Holding
    <3>2. CASE g = h /\ at = "dispatch"
      <4>1. Acquires(c)
        BY <1>1, <3>2 DEF Kinds, Holding
      <4> QED
        BY <1>4, <3>2, <4>1 DEF Acquires, SubmissionInv, WriteAhead
    <3>3. CASE g = h /\ at = "submit"
      <4>1. /\ pc[h] = "dispatch" /\ c = call[h]
            /\ quickTrades'[c.intent].sendAttempted
        BY <1>1, <3>3 DEF Kinds, Holding
      <4> QED
        BY <1>4, <3>3, <4>1 DEF SubmissionInv, UnsentUntilSubmit
    <3>4. CASE g = h /\ at \notin {"dispatch", "submit"}
      BY <1>4, <3>4
    <3> QED
      BY <3>1, <3>2, <3>3, <3>4
  <2> QED
    BY <1>3, <1>8, <1>9, <2>1, <2>2, <2>3 DEF GoroutineInv
<1>11. CASE /\ pc[h] = "submit" /\ at = "await" /\ c = call[h]
            /\ sends' = [sends EXCEPT ![c.intent] = @ + 1]
  <2> DEFINE i == c.intent
  <2>1. i \in Stored /\ i \in Intents /\ sends[i] = 0 /\ quickTrades[i].sendAttempted
    BY <1>5, <1>11 DEF Holding, SubmissionInv, UnsentUntilSubmit
  <2>2. /\ sends' \in [Intents -> Nat] /\ sends'[i] = 1
        /\ \A j \in Intents : j # i => sends'[j] = sends[j]
    BY <1>11, <2>1 DEF SubmissionInv, TypeOK
  <2>3. WriteAhead'
    BY <1>2, <2>1, <2>2 DEF SubmissionInv, WriteAhead
  <2>4. ASSUME NEW g \in Handlers, pc'[g] \in {"dispatch", "submit"}
        PROVE  /\ g # h /\ pc[g] = pc'[g] /\ call'[g] = call[g]
               /\ call[g].intent # i /\ call[g].intent \in Stored
    BY <1>4, <1>5, <1>11, <2>4 DEF SubmissionInv, OneOwner, Holding
  <2>5. UnsentUntilSubmit'
    BY <1>2, <1>5, <2>2, <2>4 DEF SubmissionInv, UnsentUntilSubmit
  <2> QED
    BY <1>3, <1>8, <1>9, <2>2, <2>3, <2>5 DEF GoroutineInv
<1> QED
  BY <1>1, <1>10, <1>11 DEF Kinds

(* A step that leaves the goroutines and the sends alone keeps what is     *)
(* known of them, since the store keeps its trades and their marks.        *)
LEMMA FrameInv ==
  ASSUME SubmissionInv, [StoreNext]_storeVars, UNCHANGED <<confirmVars, sends>>
  PROVE  GoroutineInv'
<1>1. /\ Stored \subseteq Stored'
      /\ \A i \in Stored :
           quickTrades[i].sendAttempted => quickTrades'[i].sendAttempted
  BY StoreKeeps DEF SubmissionInv, TypeOK
<1>2. pc' = pc /\ call' = call /\ sends' = sends
  BY DEF confirmVars
<1>3. CallsReady' /\ OneOwner'
  BY <1>1, <1>2 DEF SubmissionInv, CallsReady, OneOwner
<1>4. UnsentUntilSubmit'
  BY <1>1, <1>2 DEF SubmissionInv, CallsReady, UnsentUntilSubmit, Holding
<1>5. WriteAhead'
  BY <1>1, <1>2 DEF SubmissionInv, WriteAhead
<1> QED
  BY <1>2, <1>3, <1>4, <1>5 DEF GoroutineInv, SubmissionInv, TypeOK

(* A crash takes every goroutine and with it every held intent; what was   *)
(* marked and sent is still stored.                                        *)
LEMMA CrashInv ==
  ASSUME SubmissionInv, Crash
  PROVE  GoroutineInv' /\ RestTypeOK' /\ RecheckReady'
<1>1. \A h \in Handlers : pc'[h] = "idle"
  BY DEF Crash
<1>2. /\ pc' \in [Handlers -> Finished \union ConfirmSteps]
      /\ call' \in [Handlers -> Calls \union {None}]
  BY DEF Crash, Finished
<1>3. CallsReady' /\ OneOwner' /\ UnsentUntilSubmit'
  BY <1>1 DEF CallsReady, OneOwner, UnsentUntilSubmit, Holding, ConfirmSteps
<1>4. WriteAhead' /\ sends' \in [Intents -> Nat]
  BY DEF Crash, SubmissionInv, WriteAhead, TypeOK, storeVars, Stored
<1>5. RestTypeOK' /\ RecheckReady'
  <2>1. crashes' \in 0 .. MaxCrashes
    BY QuickTradeAssumption DEF Crash, SubmissionInv, TypeOK
  <2> QED
    BY <2>1 DEF Crash, RecheckEnd, SubmissionInv, TypeOK, RestTypeOK,
                RecheckReady, RecheckSteps
<1> QED
  BY <1>2, <1>3, <1>4, <1>5 DEF GoroutineInv

(* Every step of the composed system keeps the inductive invariant.        *)
LEMMA SubmissionStep == SubmissionInv /\ [Next]_vars => SubmissionInv'
<1> SUFFICES ASSUME SubmissionInv, [Next]_vars PROVE SubmissionInv'
  OBVIOUS
<1>1. [StoreNext]_storeVars
  BY NextIsStoreStep DEF SubmissionInv
<1>2. StoreTypeOK' /\ IndexesAgree' /\ Stored \subseteq Stored'
  BY <1>1, StoreTypeStep, IndexesStep, StoreKeeps DEF SubmissionInv, TypeOK
<1>3. ASSUME GoroutineInv', RestTypeOK', RecheckReady'
      PROVE  SubmissionInv'
  BY <1>2, <1>3 DEF SubmissionInv, TypeOK, GoroutineInv, RestTypeOK
<1>4. ASSUME NEW h \in Handlers, Confirm(h)
      PROVE  SubmissionInv'
  <2>1. GoroutineInv'
    BY <1>1, <1>4, ConfirmStepInv
  <2>2. RestTypeOK' /\ UNCHANGED recheckVars
    BY <1>4, ConfirmRest DEF SubmissionInv
  <2>3. RecheckReady'
    BY <1>2, <2>2 DEF SubmissionInv, RecheckReady, recheckVars
  <2> QED
    BY <1>3, <2>1, <2>2, <2>3
<1>5. CASE Crash
  BY <1>3, <1>5, CrashInv
<1>6. CASE \/ \E quote \in Quotes : CreateQuote(quote)
           \/ \E i \in Intents : RecheckBegin(i)
           \/ RecheckStep
           \/ \E i \in Intents : VenueStep(i)
           \/ Tick
           \/ UNCHANGED vars
  <2>1. RestTypeOK' /\ RecheckReady' /\ UNCHANGED <<confirmVars, sends>>
    BY <1>2, <1>6, OthersRest DEF SubmissionInv
  <2>2. GoroutineInv'
    BY <1>1, <2>1, FrameInv
  <2> QED
    BY <1>3, <2>1, <2>2
<1> QED
  BY <1>4, <1>5, <1>6 DEF Next

(* The inductive invariant holds of a fresh store and no goroutine.        *)
LEMMA SubmissionInit == Init => SubmissionInv
<1> SUFFICES ASSUME Init PROVE SubmissionInv
  OBVIOUS
<1>1. StoreTypeOK /\ IndexesAgree
  BY DEF Init, StoreInit, StoreTypeOK, IndexesAgree, Stored
<1>2. TypeOK
  BY <1>1, QuickTradeAssumption
     DEF Init, TypeOK, Finished, RecheckSteps, VenueStates
<1>3. CallsReady /\ OneOwner /\ UnsentUntilSubmit /\ RecheckReady /\ WriteAhead
  BY DEF Init, CallsReady, OneOwner, UnsentUntilSubmit, RecheckReady, WriteAhead,
         Holding, ConfirmSteps
<1> QED
  BY <1>1, <1>2, <1>3 DEF SubmissionInv

(* The inductive invariant behind at-most-once submission: each intent is  *)
(* held by one goroutine, is unsent until that goroutine's send, and       *)
(* carries the write-ahead mark from then on.                              *)
THEOREM SubmissionInvariant == Spec => []SubmissionInv
  BY SubmissionInit, SubmissionStep, PTL DEF Spec

(* Every variable of the composed system keeps its type.                   *)
THEOREM TypeCorrect == Spec => []TypeOK
<1>1. SubmissionInv => TypeOK
  BY DEF SubmissionInv
<1> QED
  BY <1>1, SubmissionInvariant, PTL

(* Confirm sends an intent's order at most once and a quote's order at     *)
(* most once, for any number of goroutines, retries and crashes.           *)
THEOREM SubmittedAtMostOnce == Spec => []AtMostOneSubmission
<1>1. SubmissionInv => AtMostOneSubmission
  <2> SUFFICES ASSUME SubmissionInv PROVE AtMostOneSubmission
    OBVIOUS
  <2>1. \A i \in Intents : sends[i] <= 1
    BY DEF SubmissionInv, WriteAhead, TypeOK
  <2>2. ASSUME NEW i \in Intents, NEW j \in Intents,
               sends[i] > 0, sends[j] > 0, i # j
        PROVE  quickTrades[i].quote.id # quickTrades[j].quote.id
    <3>1. i \in Stored /\ j \in Stored
      BY <2>2 DEF SubmissionInv, WriteAhead, TypeOK
    <3> QED
      BY <2>2, <3>1 DEF SubmissionInv, IndexesAgree
  <2> QED
    BY <2>1, <2>2 DEF AtMostOneSubmission
<1> QED
  BY <1>1, SubmissionInvariant, PTL

(* The composed system uses the store only through its operations, so the  *)
(* store's theorems hold of it: the quotas, the indexes, the preservation  *)
(* of trades.                                                              *)
THEOREM QuickTradeUsesStore == Spec => StoreSpec
<1>1. Init => StoreInit
  BY DEF Init
<1>2. SubmissionInv /\ [Next]_vars => [StoreNext]_storeVars
  BY NextIsStoreStep DEF SubmissionInv
<1> QED
  BY <1>1, <1>2, SubmissionInvariant, PTL DEF Spec, StoreSpec
-----------------------------------------------------------------------------
(* A final status is true of the venue.                                    *)

(* What FinalStatusIsTrue asks of one trade and its order.                 *)
TrueOf(t, order) ==
  /\ t.status = "Filled" => order = "filled" /\ t.resultStatus = "FILLED"
  /\ t.status = "Cancelled" =>
       /\ order \in {"cancelled", "partialCancelled", "filled"}
       /\ t.resultStatus \in {"CANCELLED_NO_FILL", "PARTIALLY_FILLED_CANCELLED"}
  /\ t.status = "Rejected" =>
       order = "rejected" \/ t.resultStatus = "NOT_SUBMITTED_AFTER_RESTART"

(* The venue knows nothing of an order before it is sent.                  *)
UnsentUnknown == \A i \in Intents : sends[i] = 0 => venue[i] = "none"

(* A rejection that Submit returned is still true when it is recorded.     *)
AnswersTrue ==
  \A h \in Handlers :
    pc[h] = "record" /\ call[h].outcome = "reject" => venue[call[h].intent] = "rejected"

(* While a recheck reads and writes, only a rejection by the venue can     *)
(* have closed its trade since it began; and what it has read is still     *)
(* true when it writes.                                                    *)
RecheckTrue ==
  /\ rpc \in {"read", "write"} =>
       LET t == quickTrades[rcall.intent]
       IN  t.status \in Terminal =>
             \/ rcall.status = t.status
             \/ t.status = "Rejected" /\ venue[rcall.intent] = "rejected"
  /\ rpc = "write" =>
       /\ rcall.resolved.resultStatus # "NOT_SUBMITTED_AFTER_RESTART"
       /\ TrueOf(rcall.resolved, venue[rcall.intent])

TruthInv == UnsentUnknown /\ AnswersTrue /\ RecheckTrue /\ FinalStatusIsTrue

(* What an update writes.                                                  *)
LEMMA UpdateWrites ==
  ASSUME StoreTypeOK, NEW i \in Intents, NEW u, UpdateQuickTrade(i, u)
  PROVE  /\ i \in Stored
         /\ quickTrades'[i].status = copyIfSet(quickTrades[i].status, u.status)
         /\ quickTrades'[i].resultStatus = copyIfSet(quickTrades[i].resultStatus,
                                                     u.resultStatus)
         /\ \A j \in Intents : j # i => quickTrades'[j] = quickTrades[j]
         /\ u.status # Unset => StatusAdmitted(quickTrades[i].status, u.status)
<1>1. i \in Stored /\ quickTrades[i] \in Trades
  BY DEF UpdateQuickTrade, CanUpdate, Stored, StoreTypeOK
<1> QED
  BY <1>1 DEF UpdateQuickTrade, CanUpdate, StoreTypeOK, Trades

(* An order only goes forward.                                             *)
Forward(old, new) ==
  new = old \/ (old = "none" /\ new = "flight") \/ new \in VenueSteps(old)

(* What a final status says of an order stays true when the order goes on. *)
LEMMA TruthLasts ==
  ASSUME NEW old, NEW new, Forward(old, new), NEW t
  PROVE  /\ TrueOf(t, old) => TrueOf(t, new)
         /\ old = "rejected" => new = "rejected"
BY DEF Forward, VenueSteps, TrueOf

(* The venue never takes back what it did with an order.                   *)
LEMMA OrdersGoForward ==
  ASSUME SubmissionInv, UnsentUnknown, [Next]_vars
  PROVE  UnsentUnknown' /\ \A i \in Intents : Forward(venue[i], venue'[i])
<1>1. CASE UNCHANGED <<venue, sends>>
  BY <1>1 DEF UnsentUnknown, Forward
<1>2. ASSUME NEW i \in Intents, VenueStep(i)
      PROVE  UnsentUnknown' /\ \A j \in Intents : Forward(venue[j], venue'[j])
  <2>1. PICK new \in VenueSteps(venue[i]) : venue' = [venue EXCEPT ![i] = new]
    BY <1>2 DEF VenueStep
  <2>2. venue[i] # "none" /\ sends' = sends
    BY <1>2, <2>1 DEF VenueSteps, VenueStep
  <2> QED
    BY <2>1, <2>2 DEF SubmissionInv, TypeOK, UnsentUnknown, Forward
<1>3. ASSUME NEW h \in Handlers, ConfirmSubmit(h)
      PROVE  UnsentUnknown' /\ \A j \in Intents : Forward(venue[j], venue'[j])
  <2>1. call[h].intent \in Intents /\ sends[call[h].intent] = 0
    BY <1>3 DEF ConfirmSubmit, SubmissionInv, CallsReady, UnsentUntilSubmit, Holding, Stored
  <2>2. sends'[call[h].intent] = 1
    BY <1>3, <2>1 DEF ConfirmSubmit, SubmissionInv, TypeOK
  <2>3. venue[call[h].intent] = "none"
    BY <2>1 DEF UnsentUnknown
  <2> QED
    BY <1>3, <2>1, <2>2, <2>3 DEF ConfirmSubmit, SubmissionInv, TypeOK, UnsentUnknown, Forward
<1>4. ASSUME NEW h \in Handlers, Confirm(h), ~ConfirmSubmit(h)
      PROVE  UNCHANGED <<venue, sends>>
  BY <1>4 DEF Confirm, ConfirmByRequest, ConfirmByQuote, ConfirmGet, ConfirmValidate,
     ConfirmPersist, ConfirmDispatch, ConfirmAwait, ConfirmRecord, ConfirmStoreFailure
<1>5. ASSUME \/ \E quote \in Quotes : CreateQuote(quote)
             \/ \E i \in Intents : RecheckBegin(i)
             \/ RecheckStep \/ Tick \/ Crash \/ UNCHANGED vars
      PROVE  UNCHANGED <<venue, sends>>
  BY <1>5 DEF CreateQuote, RecheckBegin, RecheckStep, RecheckReject, RecheckFind, RecheckMiss,
     Resolve, RecheckReadError, RecheckWrite, RecheckRefresh, RecheckStoreFailure, Tick, Crash,
     vars
<1> QED
  BY <1>1, <1>2, <1>3, <1>4, <1>5 DEF Next

(* What a step can make of the status and the result of a trade.           *)
SameVerdict(i) ==
  /\ i \in Stored
  /\ quickTrades'[i].status = quickTrades[i].status
  /\ quickTrades'[i].resultStatus = quickTrades[i].resultStatus

(* A confirmation closes a trade only as one the venue rejected.           *)
LEMMA ConfirmVerdicts ==
  ASSUME SubmissionInv, AnswersTrue, NEW h \in Handlers, Confirm(h), NEW i \in Stored'
  PROVE  \/ SameVerdict(i)
         \/ quickTrades'[i].status \notin Terminal
         \/ quickTrades'[i].status = "Rejected" /\ venue[i] = "rejected"
<1> USE DEF SameVerdict
<1>1. i \in Intents  BY DEF Stored
<1>2. CASE UNCHANGED storeVars
  BY <1>2 DEF storeVars, Stored
<1>3. CASE ConfirmPersist(h)
  <2>1. /\ call[h] \in Calls /\ call[h].quote \in Quotes
        /\ call[h].session \in Sessions /\ call[h].request \in Requests
        /\ call[h].now \in Times
    BY <1>3, CallFields DEF ConfirmPersist, SubmissionInv, CallsReady, ConfirmSteps
  <2>2. ASSUME NEW n \in Intents, CreateIntent(Confirmation(h, n), call[h].now)
        PROVE  SameVerdict(i) \/ quickTrades'[i].status \notin Terminal
    <3>1. Confirmation(h, n) \in Confirmations /\ Confirmation(h, n).intent = n
      BY <2>1, QuickTradeAssumption DEF Confirmation, Confirmations
    <3>2. /\ Stored' = Stored \union {n}
          /\ quickTrades'[n] = NewTrade(Confirmation(h, n), call[h].now)
          /\ \A j \in Stored : quickTrades'[j] = quickTrades[j]
      BY <2>1, <2>2, <3>1, CreateAddsStored DEF SubmissionInv, TypeOK
    <3> QED
      BY <3>2 DEF NewTrade, Terminal
  <2>3. ASSUME AliasRequest(Confirmation(h, NoIntent))
        PROVE  SameVerdict(i)
    BY <2>3 DEF AliasRequest, Stored
  <2> QED
    BY <1>2, <1>3, <2>2, <2>3 DEF ConfirmPersist
<1>4. CASE ConfirmDispatch(h)
  <2>1. CASE UNCHANGED storeVars  BY <1>2, <2>1
  <2>2. CASE MarkQuickTradeDispatching(call[h].intent)
    <3>1. quickTrades' = quickTrades
          \/ quickTrades' = [quickTrades EXCEPT ![call[h].intent].sendAttempted = TRUE,
                                   ![call[h].intent].status = "PendingSubmit"]
      BY <2>2 DEF MarkQuickTradeDispatching
    <3>2. call[h].intent \in Stored /\ quickTrades[call[h].intent] \in Trades
      BY <2>2 DEF MarkQuickTradeDispatching, CanDispatch, SubmissionInv, TypeOK, StoreTypeOK,
                  Stored
    <3> QED
      BY <1>1, <3>1, <3>2 DEF Stored, Terminal, SubmissionInv, TypeOK, StoreTypeOK, Trades
  <2> QED  BY <1>4, <2>1, <2>2 DEF ConfirmDispatch
<1>5. CASE ConfirmRecord(h)
  <2> DEFINE u == SubmissionUpdate(call[h].outcome)
             n == call[h].intent
  <2>1. CASE UNCHANGED storeVars  BY <1>2, <2>1
  <2>2. CASE UpdateQuickTrade(n, u)
    <3>1. n \in Intents
      BY <1>5 DEF ConfirmRecord, SubmissionInv, CallsReady, Holding, Stored
    <3>2. /\ quickTrades'[n].status = copyIfSet(quickTrades[n].status, u.status)
          /\ \A j \in Intents : j # n => quickTrades'[j] = quickTrades[j]
      BY <2>2, <3>1, UpdateWrites DEF SubmissionInv, TypeOK
    <3>3. quickTrades'[n].status \in {"Accepted", "Rejected", "Unknown"}
          /\ (quickTrades'[n].status = "Rejected" => call[h].outcome = "reject")
      BY <3>2 DEF SubmissionUpdate, copyIfSet, Unset
    <3>4. pc[h] = "record"  BY <1>5 DEF ConfirmRecord
    <3>5. quickTrades'[n].status = "Rejected" => venue[n] = "rejected"
      BY <3>3, <3>4 DEF AnswersTrue
    <3>6. CASE i = n  BY <3>3, <3>5, <3>6 DEF Terminal
    <3>7. CASE i # n  BY <1>1, <3>2, <3>7 DEF Stored
    <3> QED  BY <3>6, <3>7
  <2> QED  BY <1>5, <2>1, <2>2 DEF ConfirmRecord
<1>6. ASSUME ~ConfirmPersist(h), ~ConfirmDispatch(h), ~ConfirmRecord(h)
      PROVE  UNCHANGED storeVars
  BY <1>6 DEF Confirm, ConfirmByRequest, ConfirmByQuote, ConfirmGet, ConfirmValidate,
     ConfirmSubmit, ConfirmAwait, ConfirmStoreFailure
<1> QED  BY <1>2, <1>3, <1>4, <1>5, <1>6

(* A recheck writes only what it has seen, or its own verdict.             *)
LEMMA RecheckVerdicts ==
  ASSUME SubmissionInv, TruthInv, RecheckStep, NEW i \in Stored'
  PROVE  /\ i \in Stored
         /\ SameVerdict(i) \/ TrueOf(quickTrades'[i], venue[i])
<1> USE DEF SameVerdict
<1>1. i \in Intents  BY DEF Stored
<1>2. CASE UNCHANGED storeVars
  BY <1>2 DEF storeVars, Stored
<1>3. ASSUME NEW n \in Stored, NEW u, UpdateQuickTrade(n, u)
      PROVE  /\ i \in Stored /\ (i # n => SameVerdict(i))
             /\ quickTrades'[n].status = copyIfSet(quickTrades[n].status, u.status)
             /\ quickTrades'[n].resultStatus = copyIfSet(quickTrades[n].resultStatus,
                                                         u.resultStatus)
  <2>1. n \in Intents  BY DEF Stored
  <2> QED  BY <1>1, <1>3, <2>1, UpdateWrites DEF SubmissionInv, TypeOK, Stored
<1>4. CASE RecheckReject
  <2>1. rcall.intent \in Stored  BY <1>4 DEF RecheckReject, SubmissionInv, RecheckReady
  <2>2. CASE UNCHANGED storeVars  BY <1>2, <2>2
  <2>3. CASE UpdateQuickTrade(rcall.intent, NotSubmitted)
    BY <1>3, <2>1, <2>3 DEF NotSubmitted, copyIfSet, Unset, TrueOf
  <2> QED  BY <1>4, <2>2, <2>3 DEF RecheckReject
<1>5. CASE RecheckWrite
  <2> DEFINE n == rcall.intent
             u == RecheckUpdate(rcall)
             r == rcall.resolved
  <2>1. n \in Stored /\ r \in Resolutions
    BY <1>5 DEF RecheckWrite, SubmissionInv, RecheckReady
  <2>2. CASE UNCHANGED storeVars  BY <1>2, <2>2
  <2>3. CASE UpdateQuickTrade(n, u)
    <3>1. /\ i \in Stored /\ (i # n => SameVerdict(i))
          /\ quickTrades'[n].status = copyIfSet(quickTrades[n].status, u.status)
          /\ quickTrades'[n].resultStatus = copyIfSet(quickTrades[n].resultStatus,
                                                      u.resultStatus)
      BY <1>3, <2>1, <2>3
    <3>2. quickTrades'[n].resultStatus = r.resultStatus
      BY <2>1, <3>1 DEF RecheckUpdate, copyIfSet, Resolutions, Results, Unset
    <3>3. /\ r.resultStatus # "NOT_SUBMITTED_AFTER_RESTART"
          /\ TrueOf(r, venue[n])
          /\ quickTrades[n].status \in Terminal =>
               \/ rcall.status = quickTrades[n].status
               \/ quickTrades[n].status = "Rejected" /\ venue[n] = "rejected"
      BY <1>5 DEF RecheckWrite, TruthInv, RecheckTrue
    <3>4. CASE r.status # rcall.status
      <4>1. quickTrades'[n].status = r.status
        BY <2>1, <3>1, <3>4 DEF RecheckUpdate, copyIfSet, Resolutions, Unset
      <4> QED  BY <3>1, <3>2, <3>3, <4>1 DEF TrueOf
    <3>5. CASE r.status = rcall.status
      <4>1. quickTrades'[n].status = quickTrades[n].status
        BY <3>1, <3>5 DEF RecheckUpdate, copyIfSet
      <4> QED  BY <3>1, <3>2, <3>3, <3>5, <4>1 DEF TrueOf, Terminal
    <3> QED  BY <3>4, <3>5
  <2> QED  BY <1>5, <2>2, <2>3 DEF RecheckWrite
<1>6. CASE RecheckRefresh
  <2>1. rcall.intent \in Stored  BY <1>6 DEF RecheckRefresh, SubmissionInv, RecheckReady
  <2>2. PICK b \in {"SYNCED", "STALE"} :
          UpdateQuickTrade(rcall.intent, [status |-> Unset, resultStatus |-> Unset,
                                          balanceSync |-> b])
    BY <1>6 DEF RecheckRefresh
  <2> QED  BY <1>3, <2>1, <2>2 DEF copyIfSet
<1>7. ASSUME RecheckFind \/ RecheckMiss \/ RecheckReadError \/ RecheckStoreFailure
      PROVE  UNCHANGED storeVars
  BY <1>7 DEF RecheckFind, RecheckMiss, Resolve, RecheckReadError, RecheckStoreFailure
<1> QED  BY <1>2, <1>4, <1>5, <1>6, <1>7 DEF RecheckStep

(* No other step writes.                                                   *)
LEMMA OthersKeepStore ==
  ASSUME [Next]_vars, \A h \in Handlers : ~Confirm(h), ~RecheckStep
  PROVE  UNCHANGED storeVars
BY DEF Next, CreateQuote, RecheckBegin, VenueStep, Tick, Crash, vars, storeVars

(* Every step keeps what final statuses say true.                          *)
LEMMA FinalStatusStep ==
  ASSUME SubmissionInv, TruthInv, [Next]_vars
  PROVE  FinalStatusIsTrue'
<1> SUFFICES ASSUME NEW i \in Stored' PROVE TrueOf(quickTrades'[i], venue'[i])
  BY DEF FinalStatusIsTrue, TrueOf
<1>1. i \in Intents /\ Forward(venue[i], venue'[i])
  BY OrdersGoForward DEF Stored, TruthInv
<1>2. \A t : TrueOf(t, venue[i]) => TrueOf(t, venue'[i])
  BY <1>1, TruthLasts
<1>3. i \in Stored => TrueOf(quickTrades[i], venue[i])
  BY DEF TruthInv, FinalStatusIsTrue, TrueOf
<1>4. SameVerdict(i) => TrueOf(quickTrades'[i], venue[i])
  BY <1>3 DEF SameVerdict, TrueOf
<1>5. ASSUME NEW h \in Handlers, Confirm(h)
      PROVE  TrueOf(quickTrades'[i], venue[i])
  <2>1. \/ SameVerdict(i)
        \/ quickTrades'[i].status \notin Terminal
        \/ quickTrades'[i].status = "Rejected" /\ venue[i] = "rejected"
    BY <1>5, ConfirmVerdicts DEF TruthInv
  <2> QED  BY <1>4, <2>1 DEF TrueOf, Terminal
<1>6. ASSUME RecheckStep PROVE TrueOf(quickTrades'[i], venue[i])
  BY <1>4, <1>6, RecheckVerdicts
<1>7. ASSUME UNCHANGED storeVars PROVE TrueOf(quickTrades'[i], venue[i])
  BY <1>3, <1>7 DEF storeVars, Stored
<1> QED  BY <1>2, <1>5, <1>6, <1>7, OthersKeepStore

(* A rejection a goroutine has in its hands stays true.                    *)
LEMMA AnswersStep ==
  ASSUME SubmissionInv, TruthInv, [Next]_vars
  PROVE  AnswersTrue'
<1> SUFFICES ASSUME NEW g \in Handlers, pc'[g] = "record", call'[g].outcome = "reject"
             PROVE  venue'[call'[g].intent] = "rejected"
  BY DEF AnswersTrue
<1>1. ASSUME pc[g] = "record", call'[g] = call[g]
      PROVE  venue'[call'[g].intent] = "rejected"
  <2>1. venue[call[g].intent] = "rejected"
    BY <1>1 DEF TruthInv, AnswersTrue
  <2>2. call[g].intent \in Intents
    BY <1>1 DEF SubmissionInv, CallsReady, Holding, Stored
  <2>3. Forward(venue[call[g].intent], venue'[call[g].intent])
    BY <2>2, OrdersGoForward DEF TruthInv
  <2> QED  BY <1>1, <2>1, <2>3, TruthLasts
<1>2. ASSUME NEW h \in Handlers, Confirm(h)
      PROVE  venue'[call'[g].intent] = "rejected"
  <2>1. PICK at, c : Moves(h, at, c) /\ Kinds(h, at, c)
    BY <1>2, ConfirmMoves DEF SubmissionInv
  <2>2. CASE g # h
    BY <1>1, <2>1, <2>2 DEF Moves, SubmissionInv, TypeOK
  <2>3. CASE g = h
    <3>1. at = "record" /\ pc[h] = "await"
      BY <2>1, <2>3 DEF Moves, Kinds, Holding, SubmissionInv, TypeOK
    <3>2. ConfirmAwait(h)
      BY <1>2, <3>1 DEF Confirm, ConfirmByRequest, ConfirmByQuote, ConfirmGet,
         ConfirmValidate, ConfirmPersist, ConfirmDispatch, ConfirmSubmit, ConfirmRecord,
         ConfirmStoreFailure, Finished
    <3>3. call[h] \in Calls
      BY <3>1 DEF SubmissionInv, CallsReady, ConfirmSteps
    <3>4. /\ call'[h].outcome \in SubmitOutcomes(call[h].intent)
          /\ call'[h].intent = call[h].intent /\ venue' = venue
      BY <3>2, <3>3 DEF ConfirmAwait, SubmissionInv, TypeOK, Calls
    <3> QED  BY <2>3, <3>4 DEF SubmitOutcomes
  <2> QED  BY <2>2, <2>3
<1>3. ASSUME Crash PROVE FALSE
  BY <1>3 DEF Crash
<1>4. ASSUME \/ \E quote \in Quotes : CreateQuote(quote)
             \/ \E i \in Intents : RecheckBegin(i)
             \/ RecheckStep \/ (\E i \in Intents : VenueStep(i)) \/ Tick \/ UNCHANGED vars
      PROVE  UNCHANGED <<pc, call>>
  BY <1>4 DEF CreateQuote, RecheckBegin, RecheckStep, RecheckReject, RecheckFind, RecheckMiss,
     Resolve, RecheckReadError, RecheckWrite, RecheckRefresh, RecheckStoreFailure, VenueStep,
     Tick, vars, confirmVars
<1> QED  BY <1>1, <1>2, <1>3, <1>4 DEF Next

(* What a state stands for is true of an order in that state.              *)
LEMMA ResolutionIsTrue ==
  \A state : /\ TrueOf(Resolution(state), state) /\ TrueOf(Inconclusive, state)
             /\ Resolution(state).resultStatus # "NOT_SUBMITTED_AFTER_RESTART"
             /\ Inconclusive.resultStatus # "NOT_SUBMITTED_AFTER_RESTART"
BY DEF Resolution, Inconclusive, TrueOf

(* Every step keeps what a recheck knows true.                             *)
LEMMA RecheckTrueStep ==
  ASSUME SubmissionInv, TruthInv, [Next]_vars
  PROVE  RecheckTrue'
<1> DEFINE Steady == rpc \in {"read", "write"} =>
                       (quickTrades[rcall.intent].status \in Terminal =>
                          \/ rcall.status = quickTrades[rcall.intent].status
                          \/ /\ quickTrades[rcall.intent].status = "Rejected"
                             /\ venue[rcall.intent] = "rejected")
           Seen == rpc = "write" =>
                     /\ rcall.resolved.resultStatus # "NOT_SUBMITTED_AFTER_RESTART"
                     /\ TrueOf(rcall.resolved, venue[rcall.intent])
<1>1. RecheckTrue' <=> Steady' /\ Seen'  BY DEF RecheckTrue
<1>2. Steady /\ Seen  BY DEF TruthInv, RecheckTrue
<1> HIDE DEF Steady, Seen
<1>3. rpc # "idle" => rcall.intent \in Stored /\ rcall.intent \in Intents
                      /\ rcall.intent \in Stored'
  <2>1. [StoreNext]_storeVars  BY NextIsStoreStep DEF SubmissionInv
  <2>2. Stored \subseteq Stored'  BY <2>1, StoreKeeps DEF SubmissionInv, TypeOK
  <2> QED  BY <2>2 DEF SubmissionInv, RecheckReady, Stored
<1>4. rpc # "idle" => /\ \A t : TrueOf(t, venue[rcall.intent]) => TrueOf(t, venue'[rcall.intent])
                      /\ venue[rcall.intent] = "rejected" => venue'[rcall.intent] = "rejected"
  BY <1>3, OrdersGoForward, TruthLasts DEF TruthInv
<1>5. ASSUME UNCHANGED recheckVars
      PROVE  Seen'
  BY <1>2, <1>4, <1>5 DEF Seen, recheckVars
<1>6. ASSUME UNCHANGED recheckVars, UNCHANGED storeVars
      PROVE  Steady'
  BY <1>2, <1>4, <1>6 DEF Steady, recheckVars, storeVars
<1>7. ASSUME NEW h \in Handlers, Confirm(h)
      PROVE  RecheckTrue'
  <2>1. UNCHANGED recheckVars  BY <1>7, ConfirmRest DEF SubmissionInv
  <2>2. rpc # "idle" =>
          \/ SameVerdict(rcall.intent)
          \/ quickTrades'[rcall.intent].status \notin Terminal
          \/ quickTrades'[rcall.intent].status = "Rejected" /\ venue[rcall.intent] = "rejected"
    BY <1>3, <1>7, ConfirmVerdicts DEF TruthInv
  <2>3. Steady'
    BY <1>2, <1>4, <2>1, <2>2 DEF Steady, recheckVars, SameVerdict
  <2> QED  BY <1>1, <1>5, <2>1, <2>3
<1>8. ASSUME NEW i \in Intents, RecheckBegin(i)
      PROVE  RecheckTrue'
  <2>1. /\ rpc' \in {"reject", "read"} /\ rcall'.intent = i
        /\ rcall'.status = quickTrades[i].status /\ quickTrades' = quickTrades
    BY <1>8 DEF RecheckBegin, storeVars
  <2> QED  BY <1>1, <2>1 DEF Steady, Seen
<1>9. ASSUME NEW resolved \in Resolutions, Resolve(resolved),
             TrueOf(resolved, venue[rcall.intent]),
             resolved.resultStatus # "NOT_SUBMITTED_AFTER_RESTART"
      PROVE  RecheckTrue'
  <2>1. rcall \in Rechecks  BY <1>9 DEF Resolve, SubmissionInv, RecheckReady
  <2>2. /\ rpc = "read" /\ rpc' = "write" /\ rcall'.intent = rcall.intent
        /\ rcall'.status = rcall.status /\ rcall'.resolved = resolved
        /\ quickTrades' = quickTrades /\ venue' = venue
    BY <1>9, <2>1 DEF Resolve, Rechecks, storeVars
  <2> QED  BY <1>1, <1>2, <1>9, <2>2 DEF Steady, Seen
<1>10. ASSUME RecheckFind \/ RecheckMiss
       PROVE  RecheckTrue'
  <2>1. Inconclusive \in Resolutions  BY DEF Inconclusive, Resolutions, Results
  <2> QED  BY <1>9, <1>10, <2>1, ResolutionType, ResolutionIsTrue DEF RecheckFind, RecheckMiss
<1>11. ASSUME RecheckEnd \/ rpc' = "refresh"
       PROVE  RecheckTrue'
  BY <1>1, <1>11 DEF RecheckEnd, Steady, Seen
<1>12. ASSUME \/ RecheckReject \/ RecheckReadError \/ RecheckWrite \/ RecheckRefresh
              \/ RecheckStoreFailure \/ Crash
       PROVE  RecheckTrue'
  BY <1>11, <1>12 DEF RecheckReject, RecheckReadError, RecheckWrite, RecheckRefresh,
     RecheckStoreFailure, Crash
<1>13. ASSUME \/ \E quote \in Quotes : CreateQuote(quote)
              \/ (\E i \in Intents : VenueStep(i)) \/ Tick \/ UNCHANGED vars
       PROVE  UNCHANGED recheckVars /\ UNCHANGED storeVars
  BY <1>13 DEF CreateQuote, VenueStep, Tick, vars, recheckVars, storeVars
<1> QED
  BY <1>1, <1>5, <1>6, <1>7, <1>8, <1>10, <1>12, <1>13 DEF Next, RecheckStep

(* Every step keeps the statuses and the evidence for them true.           *)
LEMMA TruthStep == SubmissionInv /\ TruthInv /\ [Next]_vars => TruthInv'
BY OrdersGoForward, FinalStatusStep, AnswersStep, RecheckTrueStep DEF TruthInv

(* Nothing is stored at first, and nothing claimed.                        *)
LEMMA TruthInit == Init => TruthInv
<1> SUFFICES ASSUME Init PROVE TruthInv
  OBVIOUS
<1>1. Stored = {}  BY DEF Init, StoreInit, Stored
<1> QED
  BY <1>1 DEF Init, TruthInv, UnsentUnknown, AnswersTrue, RecheckTrue, FinalStatusIsTrue

(* A final status is true of the venue, however old the evidence was when  *)
(* RecheckTrade or Confirm wrote it, for any number of goroutines, trades  *)
(* and crashes.                                                            *)
THEOREM FinalStatusesAreTrue == Spec => []FinalStatusIsTrue
<1>1. Spec => [](SubmissionInv /\ TruthInv)
  BY SubmissionInit, SubmissionStep, TruthInit, TruthStep, PTL DEF Spec
<1>2. TruthInv => FinalStatusIsTrue
  BY DEF TruthInv
<1> QED  BY <1>1, <1>2, PTL

-----------------------------------------------------------------------------
(* Quick Trade implements TradeOnce.                                       *)

(* A step that changes neither the trades, the consumed quotes nor the     *)
(* sends leaves every quote where it was.                                  *)
LEMMA OnceStutters ==
  ASSUME UNCHANGED <<quickTrades, consumedQuotes, sends>>
  PROVE  UNCHANGED Once!onceVars
BY DEF Once!onceVars, Phase, Verdict

(* A quote and the intent that consumed it.                                *)
LEMMA OwnQuote ==
  ASSUME SubmissionInv, NEW i \in Stored
  PROVE  /\ i \in Intents /\ quickTrades[i] \in Trades
         /\ quickTrades[i].quote.id \in QuoteIds
         /\ consumedQuotes[quickTrades[i].quote.id] = i /\ i # NoIntent
         /\ \A q \in QuoteIds : consumedQuotes[q] = i => q = quickTrades[i].quote.id
<1>1. i \in Intents /\ quickTrades[i] \in Trades /\ i # NoIntent
  BY SentinelAssumption DEF SubmissionInv, TypeOK, StoreTypeOK, Stored
<1>2. quickTrades[i].quote \in Quotes  BY <1>1 DEF Trades
<1>3. quickTrades[i].quote.id \in QuoteIds  BY <1>2, QuotesAssumption DEF QuoteRecords
<1> QED  BY <1>1, <1>3 DEF SubmissionInv, IndexesAgree

(* The send is the step from marked to sent of the intent's quote.         *)
LEMMA SubmitIsSend ==
  ASSUME SubmissionInv, NEW h \in Handlers, ConfirmSubmit(h)
  PROVE  Once!OnceNext
<1>1. PICK i : i = call[h].intent /\ i \in Stored /\ sends[i] = 0
               /\ quickTrades[i].sendAttempted
  BY DEF ConfirmSubmit, SubmissionInv, CallsReady, UnsentUntilSubmit, Holding
<1>2. PICK q \in QuoteIds : /\ i \in Intents /\ consumedQuotes[q] = i /\ i # NoIntent
                           /\ \A p \in QuoteIds : consumedQuotes[p] = i => p = q
  BY <1>1, OwnQuote
<1>3. /\ quickTrades' = quickTrades /\ consumedQuotes' = consumedQuotes
      /\ sends' = [sends EXCEPT ![i] = @ + 1]
  BY <1>1 DEF ConfirmSubmit, storeVars
<1>4. sends'[i] = 1 /\ \A j : j # i => sends'[j] = sends[j]
  BY <1>1, <1>2, <1>3 DEF SubmissionInv, TypeOK
<1>5. Phase(q) = "marked" /\ Phase(q)' = "sent"
  BY <1>1, <1>2, <1>3, <1>4 DEF Phase
<1>6. \A p \in QuoteIds : p # q => Phase(p)' = Phase(p)
  BY <1>2, <1>3, <1>4 DEF Phase
<1>7. \A p \in QuoteIds : Verdict(p)' = Verdict(p)
  BY <1>3 DEF Verdict
<1>8. Once!Send(q)
  BY <1>2, <1>5, <1>6, <1>7 DEF Once!Send, Once!Advance
<1> QED  BY <1>2, <1>8 DEF Once!OnceNext

(* The write-ahead mark.                                                   *)
LEMMA DispatchIsMark ==
  ASSUME SubmissionInv, NEW h \in Handlers, ConfirmDispatch(h)
  PROVE  Once!OnceNext \/ UNCHANGED Once!onceVars
<1>0. PICK i : i = call[h].intent /\ sends' = sends  BY DEF ConfirmDispatch
<1>1. CASE UNCHANGED <<quickTrades, consumedQuotes>>
  BY <1>0, <1>1, OnceStutters
<1>2. CASE MarkQuickTradeDispatching(i) /\ quickTrades' # quickTrades
  <2>1. /\ i \in Stored /\ ~quickTrades[i].sendAttempted /\ quickTrades[i].status = "Created"
        /\ quickTrades' = [quickTrades EXCEPT ![i].sendAttempted = TRUE,
                                              ![i].status = "PendingSubmit"]
        /\ consumedQuotes' = consumedQuotes
    BY <1>2 DEF MarkQuickTradeDispatching, CanDispatch
  <2>2. PICK q \in QuoteIds : /\ i \in Intents /\ consumedQuotes[q] = i /\ i # NoIntent
                             /\ quickTrades[i] \in Trades
                             /\ \A p \in QuoteIds : consumedQuotes[p] = i => p = q
    BY <2>1, OwnQuote
  <2>3. /\ quickTrades'[i].sendAttempted = TRUE /\ quickTrades'[i].status = "PendingSubmit"
        /\ \A j \in Intents : j # i => quickTrades'[j] = quickTrades[j]
    BY <2>1, <2>2 DEF SubmissionInv, TypeOK, StoreTypeOK, Trades
  <2>4. sends[i] = 0
    BY <2>1, <2>2 DEF SubmissionInv, WriteAhead
  <2>5. Phase(q) = "reserved" /\ Phase(q)' = "marked"
    BY <1>0, <2>1, <2>2, <2>3, <2>4 DEF Phase
  <2>6. Verdict(q) = "none" /\ Verdict(q)' = "none"
    BY <2>1, <2>2, <2>3 DEF Verdict
  <2>7. \A p \in QuoteIds : consumedQuotes[p] \in Intents \union {NoIntent}
    BY DEF SubmissionInv, TypeOK, StoreTypeOK
  <2>8. ASSUME NEW p \in QuoteIds, p # q
        PROVE  Phase(p)' = Phase(p) /\ Verdict(p)' = Verdict(p)
    <3>1. /\ consumedQuotes'[p] = consumedQuotes[p]
          /\ consumedQuotes[p] = NoIntent
             \/ quickTrades'[consumedQuotes[p]] = quickTrades[consumedQuotes[p]]
      BY <2>1, <2>2, <2>3, <2>7, <2>8
    <3>2. Phase(p)' = Phase(p)  BY <1>0, <3>1 DEF Phase
    <3>3. Verdict(p)' = Verdict(p)  BY <3>1 DEF Verdict
    <3> QED  BY <3>2, <3>3
  <2>9. Once!Mark(q)
    BY <2>2, <2>5, <2>6, <2>8 DEF Once!Mark, Once!Advance
  <2> QED  BY <2>2, <2>9 DEF Once!OnceNext
<1> QED  BY <1>0, <1>1, <1>2 DEF ConfirmDispatch, storeVars, MarkQuickTradeDispatching

(* Creation reserves the quote; an alias changes nothing of it.            *)
LEMMA PersistIsReserve ==
  ASSUME SubmissionInv, NEW h \in Handlers, ConfirmPersist(h)
  PROVE  Once!OnceNext \/ UNCHANGED Once!onceVars
<1>0. sends' = sends  BY DEF ConfirmPersist
<1>1. CASE UNCHANGED <<quickTrades, consumedQuotes>>
  BY <1>0, <1>1, OnceStutters
<1>2. /\ call[h] \in Calls /\ call[h].quote \in Quotes
      /\ call[h].session \in Sessions /\ call[h].request \in Requests
      /\ call[h].now \in Times
  BY CallFields DEF ConfirmPersist, SubmissionInv, CallsReady, ConfirmSteps
<1>3. ASSUME NEW i \in Intents, CreateIntent(Confirmation(h, i), call[h].now)
      PROVE  Once!OnceNext
  <2> DEFINE c == Confirmation(h, i)
  <2>1. c \in Confirmations /\ c.intent = i
    BY <1>2, QuickTradeAssumption DEF Confirmation, Confirmations
  <2>2. /\ i \notin Stored /\ quickTrades'[i] = NewTrade(c, call[h].now)
        /\ \A j \in Stored : quickTrades'[j] = quickTrades[j]
    BY <1>2, <1>3, <2>1, CreateAddsStored DEF SubmissionInv, TypeOK
  <2>3. PICK q \in QuoteIds : q = c.quote.id
    BY <1>2, <1>3, <2>1, CreateEffect DEF SubmissionInv, TypeOK
  <2>4. /\ consumedQuotes[q] = NoIntent
        /\ consumedQuotes' = [consumedQuotes EXCEPT ![q] = i]
    BY <1>3, <2>1, <2>3 DEF CreateIntent, CanCreate, FirstUse, GetQuickTradeByQuote
  <2>5. consumedQuotes'[q] = i /\ \A p \in QuoteIds : p # q => consumedQuotes'[p] = consumedQuotes[p]
    BY <2>3, <2>4 DEF SubmissionInv, TypeOK, StoreTypeOK
  <2>6. sends[i] = 0 /\ i # NoIntent
    BY <2>2, SentinelAssumption DEF SubmissionInv, WriteAhead
  <2>7. ~quickTrades'[i].sendAttempted /\ quickTrades'[i].status = "Created"
    BY <2>2 DEF NewTrade
  <2>8. Phase(q) = "open" /\ Phase(q)' = "reserved"
    BY <1>0, <2>4, <2>5, <2>6, <2>7 DEF Phase
  <2>9. Verdict(q) = "none" /\ Verdict(q)' = "none"
    BY <2>4, <2>5, <2>6, <2>7 DEF Verdict
  <2>10. \A p \in QuoteIds : consumedQuotes[p] \in Stored \union {NoIntent}
    BY DEF SubmissionInv, IndexesAgree
  <2>11. \A p \in QuoteIds : p # q => Phase(p)' = Phase(p) /\ Verdict(p)' = Verdict(p)
    BY <1>0, <2>2, <2>5, <2>10 DEF Phase, Verdict
  <2>12. Once!Reserve(q)
    BY <2>3, <2>8, <2>9, <2>11 DEF Once!Reserve, Once!Advance
  <2> QED  BY <2>3, <2>12 DEF Once!OnceNext
<1> QED  BY <1>1, <1>3 DEF ConfirmPersist, AliasRequest, storeVars

(* An update concludes the trade or changes nothing of its quote.          *)
LEMMA UpdateConcludes ==
  ASSUME SubmissionInv, NEW i \in Intents, NEW u \in Updates, UpdateQuickTrade(i, u),
         sends' = sends,
         quickTrades'[i].status \in {"Filled", "Cancelled"} => sends[i] # 0
  PROVE  Once!OnceNext \/ UNCHANGED Once!onceVars
<1>1. i \in Stored  BY DEF UpdateQuickTrade, CanUpdate
<1>2. PICK q \in QuoteIds : /\ consumedQuotes[q] = i /\ i # NoIntent
                           /\ quickTrades[i] \in Trades
                           /\ \A p \in QuoteIds : consumedQuotes[p] = i => p = q
  BY <1>1, OwnQuote
<1>3. /\ \A j \in Intents : j # i => quickTrades'[j] = quickTrades[j]
      /\ quickTrades'[i].sendAttempted = quickTrades[i].sendAttempted
      /\ StatusAdmitted(quickTrades[i].status, quickTrades'[i].status)
      /\ consumedQuotes' = consumedQuotes
  BY UpdateEffect DEF SubmissionInv, TypeOK
<1>4. \A p \in QuoteIds : consumedQuotes[p] \in Intents \union {NoIntent}
  BY DEF SubmissionInv, TypeOK, StoreTypeOK
<1>5. \A p \in QuoteIds : Phase(p)' = Phase(p)
  BY <1>2, <1>3, <1>4 DEF Phase
<1>6. \A p \in QuoteIds : p # q => Verdict(p)' = Verdict(p)
  BY <1>2, <1>3, <1>4 DEF Verdict
<1>7. CASE Verdict(q)' = Verdict(q)
  BY <1>5, <1>6, <1>7 DEF Once!onceVars
<1>8. CASE Verdict(q)' # Verdict(q)
  <2> DEFINE v == Verdict(q)'
  <2>1. quickTrades[i].status \in Statuses  BY <1>2 DEF Trades
  <2>2. Settled(quickTrades[i].status, quickTrades'[i].status)
    BY <1>3, <2>1, FinalIsSettled
  <2>3. /\ Verdict(q) = "none" \/ (Verdict(q) = "cancelled" /\ v = "filled")
        /\ v \in {"filled", "cancelled", "rejected"}
        /\ v = "filled" => quickTrades'[i].status = "Filled"
        /\ v = "cancelled" => quickTrades'[i].status = "Cancelled"
    BY <1>2, <1>3, <1>8, <2>2 DEF Verdict, Settled, Terminal
  <2>4. v # "rejected" => Phase(q) = "sent"
    BY <1>2, <2>3 DEF Phase, SubmissionInv, TypeOK
  <2>5. Phase(q) # "open"
    BY <1>2 DEF Phase
  <2>6. Once!Conclude(q, v)
    BY <1>2, <1>5, <1>6, <2>3, <2>4, <2>5 DEF Once!Conclude
  <2> QED  BY <1>2, <2>3, <2>6 DEF Once!OnceNext, Once!Verdicts
<1> QED  BY <1>7, <1>8

(* Every step of the application is a step of the trade that happens       *)
(* once, or none.                                                          *)
LEMMA OnceStep ==
  ASSUME SubmissionInv, TruthInv, [Next]_vars
  PROVE  [Once!OnceNext]_(Once!onceVars)
<1>1. ASSUME NEW i \in Intents, NEW u \in Updates, UpdateQuickTrade(i, u), UNCHANGED sends
      PROVE  Once!OnceNext \/ UNCHANGED Once!onceVars
  <2>1. FinalStatusIsTrue' /\ UnsentUnknown'
    BY FinalStatusStep, OrdersGoForward DEF TruthInv
  <2>2. i \in Stored'
    <3>1. quickTrades'[i] \in Trades  BY <1>1, UpdateEffect DEF SubmissionInv, TypeOK
    <3> QED  BY <3>1, SentinelAssumption DEF Stored
  <2>3. quickTrades'[i].status \in {"Filled", "Cancelled"} => venue'[i] # "none"
    BY <2>1, <2>2 DEF FinalStatusIsTrue
  <2>4. quickTrades'[i].status \in {"Filled", "Cancelled"} => sends[i] # 0
    BY <1>1, <2>1, <2>3 DEF UnsentUnknown
  <2> QED  BY <1>1, <2>4, UpdateConcludes
<1>2. ASSUME NEW h \in Handlers, Confirm(h)
      PROVE  Once!OnceNext \/ UNCHANGED Once!onceVars
  <2>1. CASE ConfirmSubmit(h)  BY <2>1, SubmitIsSend
  <2>2. CASE ConfirmDispatch(h)  BY <2>2, DispatchIsMark
  <2>3. CASE ConfirmPersist(h)  BY <2>3, PersistIsReserve
  <2>4. CASE ConfirmRecord(h)
    <3>1. call[h].intent \in Intents /\ sends' = sends
      BY <2>4 DEF ConfirmRecord, SubmissionInv, CallsReady, Holding, Stored
    <3>2. CASE UNCHANGED storeVars  BY <3>1, <3>2, OnceStutters DEF storeVars
    <3> QED  BY <1>1, <2>4, <3>1, <3>2, UpdatesAreOffered DEF ConfirmRecord
  <2>5. ASSUME ~ConfirmSubmit(h), ~ConfirmDispatch(h), ~ConfirmPersist(h), ~ConfirmRecord(h)
        PROVE  UNCHANGED <<quickTrades, consumedQuotes, sends>>
    BY <1>2, <2>5 DEF Confirm, ConfirmByRequest, ConfirmByQuote, ConfirmGet, ConfirmValidate,
       ConfirmAwait, ConfirmStoreFailure, storeVars
  <2> QED  BY <2>1, <2>2, <2>3, <2>4, <2>5, OnceStutters
<1>3. ASSUME RecheckStep
      PROVE  Once!OnceNext \/ UNCHANGED Once!onceVars
  <2>1. sends' = sends
    BY <1>3 DEF RecheckStep, RecheckReject, RecheckFind, RecheckMiss, Resolve,
       RecheckReadError, RecheckWrite, RecheckRefresh, RecheckStoreFailure
  <2>2. CASE UNCHANGED storeVars  BY <2>1, <2>2, OnceStutters DEF storeVars
  <2>3. rpc # "idle" => rcall.intent \in Intents /\ rcall \in Rechecks
    BY DEF SubmissionInv, RecheckReady, Stored
  <2>4. CASE RecheckReject
    BY <1>1, <2>1, <2>2, <2>3, <2>4, UpdatesAreOffered DEF RecheckReject
  <2>5. CASE RecheckWrite
    <3>1. RecheckUpdate(rcall) \in Updates
      BY <2>3, <2>5, UpdatesAreOffered DEF RecheckWrite, SubmissionInv, RecheckReady
    <3> QED  BY <1>1, <2>1, <2>2, <2>3, <2>5, <3>1 DEF RecheckWrite
  <2>6. CASE RecheckRefresh
    <3>1. PICK b \in {"SYNCED", "STALE"} :
            UpdateQuickTrade(rcall.intent, [status |-> Unset, resultStatus |-> Unset,
                                            balanceSync |-> b])
      BY <2>6 DEF RecheckRefresh
    <3>2. rcall.intent \in Intents  BY <2>3, <2>6 DEF RecheckRefresh
    <3> QED  BY <1>1, <2>1, <3>1, <3>2, UpdatesAreOffered
  <2>7. ASSUME RecheckFind \/ RecheckMiss \/ RecheckReadError \/ RecheckStoreFailure
        PROVE  UNCHANGED storeVars
    BY <2>7 DEF RecheckFind, RecheckMiss, Resolve, RecheckReadError, RecheckStoreFailure
  <2> QED  BY <1>3, <2>2, <2>4, <2>5, <2>6, <2>7 DEF RecheckStep
<1>4. ASSUME \/ \E quote \in Quotes : CreateQuote(quote)
             \/ \E i \in Intents : RecheckBegin(i)
             \/ (\E i \in Intents : VenueStep(i)) \/ Tick \/ Crash \/ UNCHANGED vars
      PROVE  UNCHANGED <<quickTrades, consumedQuotes, sends>>
  BY <1>4 DEF CreateQuote, RecheckBegin, VenueStep, Tick, Crash, vars, storeVars
<1> QED  BY <1>2, <1>3, <1>4, OnceStutters DEF Next

(* Every step of the composed system is a step of TradeOnce or leaves      *)
(* every quote where it was: a quote is reserved, marked and sent once     *)
(* each and in this order, and no verdict is withdrawn.                    *)
THEOREM QuickTradeImplementsTradeOnce == Spec => ImplementsTradeOnce
<1>1. Init => Once!OnceInit
  BY DEF Init, StoreInit, Once!OnceInit, Phase, Verdict
<1>2. SubmissionInv /\ TruthInv /\ [Next]_vars => [Once!OnceNext]_(Once!onceVars)
  BY OnceStep
<1>3. Spec => [](SubmissionInv /\ TruthInv)
  BY SubmissionInit, SubmissionStep, TruthInit, TruthStep, PTL DEF Spec
<1> QED  BY <1>1, <1>2, <1>3, PTL DEF Spec, ImplementsTradeOnce, Once!OnceSpec
=============================================================================
