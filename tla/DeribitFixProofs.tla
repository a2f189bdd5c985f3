-------------------------- MODULE DeribitFixProofs ---------------------------
(***************************************************************************)
(* The Deribit FIX session delivers every answer once, in order, and none  *)
(* is passed over unseen; the write it carries reaches the venue once, and *)
(* what the command returns is true of the venue: for any limits of the    *)
(* buffer and the journal, and any number of messages and faults.          *)
(***************************************************************************)
EXTENDS DeribitFixWrite, FiniteSetTheorems, SequenceTheorems, WellFoundedInduction,
        TLAPS

(* What the client writes: a resend asks for a number.                     *)
Sent ==
  {m \in [type: {"A", "0", "2", "5"} \union Requests, seq: Nat \ {0}, dup: BOOLEAN, n: Nat,
          body: {NoBody}] : m.type = "2" => m.n > 0}

(* What the server keeps in its log.                                       *)
Kept == {m \in Messages : m.type \in {"A", "1", "2", "3", "5"} \union Answers}

(* m is a copy of a message of the log, or a reset within it.              *)
Agrees(m, log) ==
  /\ m \in Messages
  /\ m.type = "4" => m.n <= Len(log) + 1
  /\ m.type # "4" => /\ m.seq \in DOMAIN log
                     /\ m.type = log[m.seq].type /\ m.body = log[m.seq].body

LogOK ==
  /\ srvLog \in Seq(Kept)
  /\ \A k \in DOMAIN srvLog :
       srvLog[k].seq = k /\ (srvLog[k].type = "8" => srvLog[k].body \in Reports)

JournalOK ==
  /\ DOMAIN journal \subseteq 2 .. nextOut - 1
  /\ Cardinality(DOMAIN journal) <= MaxOutboundJournal
  /\ \A k \in DOMAIN journal : journal[k] \in Sent /\ journal[k].seq = k

OutOK == toServer \in Seq(Sent) /\ nextOut \in Nat \ {0} /\ (run = "up" => nextOut > 1)

InOK ==
  /\ toClient \in Seq(Messages)
  /\ \A i \in DOMAIN toClient : Agrees(toClient[i], srvLog)

BufferOK ==
  /\ IsFiniteSet(pending) /\ Cardinality(pending) <= MaxRecoveryBuffer
  /\ \A p \in pending : p.type # "4" /\ Agrees(p, srvLog)
  /\ cur # NoMessage => cur.type \in Answers /\ Agrees(cur, srvLog)

FlagsOK ==
  /\ run \in {"dial", "up", "ended"} /\ loggedOn \in BOOLEAN /\ recovering \in BOOLEAN
  /\ loggedOn => run = "up"
  /\ phase \in {"idle", "message", "drain", "recovery"}
  /\ phase = "message" <=> cur # NoMessage
  /\ phase = "recovery" => pending = {}
  /\ phase # "idle" => run = "up"
  /\ pending # {} \/ skipped # {} => recovering

CountsOK ==
  /\ expectedIn \in Nat \ {0} /\ expectedIn <= Len(srvLog) + 1
  /\ run = "dial" => expectedIn = 1
  /\ srvIn \in Nat \ {0} /\ srvGap \in Nat /\ faults \in Nat
  /\ link \in {"up", "broken"}

SessionOK == LogOK /\ JournalOK /\ OutOK /\ InOK /\ BufferOK /\ FlagsOK /\ CountsOK

CommandOK ==
  /\ write \in Writes
  /\ at \in {"logon", "request", "security", "write", "wait", "verify", "done"}
  /\ result \in {"none", "notsent", "unknown", "rejected", "accepted", "verified", "unverified"}
  /\ at = "done" <=> result # "none"
  /\ reports \in Seq(Reports) /\ rejects \in {0, 1}
  /\ quantity \in BOOLEAN /\ amended \in BOOLEAN

-----------------------------------------------------------------------------
(* Sequences, sets of numbers, and the log.                                *)

(* A set of numbers has a least one: the journal's oldest message, the     *)
(* first one it lost.                                                      *)
LEMMA MinOf ==
  ASSUME NEW S \in SUBSET Nat, S # {}
  PROVE  Min(S) \in S /\ \A y \in S : Min(S) <= y
<1>1. PICK x \in S : \A y \in S : ~(<<y, x>> \in OpToRel(<, Nat))
  BY WFMin, NatLessThanWellFounded
<1>2. ASSUME NEW y \in Nat, NEW z \in Nat, y < z
      PROVE  <<y, z>> \in OpToRel(<, Nat)
  <2>1. <<y, z>> \in Nat \X Nat /\ <<y, z>>[1] < <<y, z>>[2]
    BY <1>2
  <2> QED
    BY <2>1, Zenon DEF OpToRel
<1>3. \A y \in S : ~(y < x)
  BY <1>1, <1>2
<1>4. \A y \in S : x <= y
  BY <1>3
<1> QED
  BY <1>4 DEF Min

(* The first message taken, and what is left.                              *)
LEMMA Taken ==
  ASSUME NEW T, NEW s \in Seq(T), s # <<>>
  PROVE  /\ Tail(s) \in Seq(T) /\ Head(s) \in T /\ Head(s) = s[1]
         /\ 1 \in DOMAIN s /\ Len(Tail(s)) = Len(s) - 1 /\ Len(s) \in Nat \ {0}
         /\ \A i \in DOMAIN Tail(s) : /\ i \in Nat /\ i + 1 \in DOMAIN s
                                      /\ Tail(s)[i] = s[i + 1]
         /\ \A i \in DOMAIN s : i = 1 \/ (i - 1 \in DOMAIN Tail(s) /\ Tail(s)[i - 1] = s[i])
<1>1. Len(s) \in Nat \ {0} /\ DOMAIN s = 1 .. Len(s) /\ Head(s) = s[1]
  BY EmptySeq, LenProperties
<1>2. /\ Tail(s) \in Seq(T) /\ Head(s) \in T /\ Len(Tail(s)) = Len(s) - 1
      /\ \A i \in 1 .. Len(Tail(s)) : Tail(s)[i] = s[i + 1]
  BY HeadTailProperties
<1>3. DOMAIN Tail(s) = 1 .. Len(s) - 1
  BY <1>2, LenProperties
<1>4. \A i \in DOMAIN Tail(s) : i \in Nat /\ i + 1 \in DOMAIN s /\ Tail(s)[i] = s[i + 1]
  BY <1>1, <1>2, <1>3
<1>5. ASSUME NEW i \in DOMAIN s, i # 1
      PROVE  i - 1 \in DOMAIN Tail(s) /\ Tail(s)[i - 1] = s[i]
  <2>1. i - 1 \in DOMAIN Tail(s) /\ (i - 1) + 1 = i
    BY <1>1, <1>3, <1>5
  <2> QED
    BY <1>4, <2>1
<1> QED
  BY <1>1, <1>2, <1>4, <1>5

(* One more at the end.                                                    *)
LEMMA Appended ==
  ASSUME NEW T, NEW s \in Seq(T), NEW m \in T
  PROVE  /\ Append(s, m) \in Seq(T) /\ Len(Append(s, m)) = Len(s) + 1 /\ Len(s) \in Nat
         /\ DOMAIN s = 1 .. Len(s) /\ DOMAIN Append(s, m) = 1 .. Len(s) + 1
         /\ \A i \in DOMAIN s : Append(s, m)[i] = s[i]
         /\ Append(s, m)[Len(s) + 1] = m
         /\ \A i \in DOMAIN Append(s, m) : (i \in DOMAIN s) \/ i = Len(s) + 1
<1>1. Append(s, m) \in Seq(T) /\ Len(Append(s, m)) = Len(s) + 1
  BY AppendProperties
<1>2. Len(s) \in Nat /\ DOMAIN s = 1 .. Len(s) /\ DOMAIN Append(s, m) = 1 .. Len(s) + 1
  BY <1>1, LenProperties
<1>3. /\ \A i \in 1 .. Len(s) : Append(s, m)[i] = s[i]
      /\ Append(s, m)[Len(s) + 1] = m
  BY AppendProperties
<1> QED
  BY <1>1, <1>2, <1>3

(* One sequence after the other.                                           *)
LEMMA Joined ==
  ASSUME NEW T, NEW s \in Seq(T), NEW t \in Seq(T)
  PROVE  /\ s \o t \in Seq(T) /\ Len(s \o t) = Len(s) + Len(t) /\ Len(s) \in Nat
         /\ Len(t) \in Nat /\ DOMAIN s = 1 .. Len(s)
         /\ DOMAIN t = 1 .. Len(t) /\ DOMAIN (s \o t) = 1 .. Len(s) + Len(t)
         /\ \A i \in DOMAIN s : (s \o t)[i] = s[i] /\ i \in DOMAIN (s \o t)
         /\ \A i \in DOMAIN (s \o t) :
              \/ i \in DOMAIN s /\ (s \o t)[i] = s[i]
              \/ i > Len(s) /\ i - Len(s) \in DOMAIN t /\ (s \o t)[i] = t[i - Len(s)]
<1>1. s \o t \in Seq(T) /\ Len(s \o t) = Len(s) + Len(t)
  BY ConcatProperties
<1>2. /\ Len(s) \in Nat /\ Len(t) \in Nat /\ DOMAIN s = 1 .. Len(s)
      /\ DOMAIN t = 1 .. Len(t) /\ DOMAIN (s \o t) = 1 .. Len(s) + Len(t)
  BY <1>1, LenProperties
<1>3. \A i \in 1 .. Len(s) + Len(t) :
        (s \o t)[i] = IF i <= Len(s) THEN s[i] ELSE t[i - Len(s)]
  BY ConcatProperties
<1>4. \A i \in DOMAIN s : (s \o t)[i] = s[i] /\ i \in DOMAIN (s \o t)
  BY <1>2, <1>3
<1>5. ASSUME NEW i \in DOMAIN (s \o t), i \notin DOMAIN s
      PROVE  i > Len(s) /\ i - Len(s) \in DOMAIN t /\ (s \o t)[i] = t[i - Len(s)]
  <2>1. i > Len(s) /\ i \in 1 .. Len(s) + Len(t) /\ i - Len(s) \in 1 .. Len(t)
    BY <1>2, <1>5
  <2> QED
    BY <1>2, <1>3, <2>1
<1> QED
  BY <1>1, <1>2, <1>4, <1>5

(* The log only grows, and what agrees with it goes on agreeing.           *)
LEMMA AgreesLasts ==
  ASSUME LogOK, NEW x \in Kept, NEW m, Agrees(m, srvLog)
  PROVE  Agrees(m, Append(srvLog, x))
<1> DEFINE log == Append(srvLog, x)
<1>1. /\ Len(log) = Len(srvLog) + 1 /\ Len(srvLog) \in Nat
      /\ DOMAIN srvLog = 1 .. Len(srvLog) /\ DOMAIN log = 1 .. Len(srvLog) + 1
      /\ \A i \in DOMAIN srvLog : log[i] = srvLog[i]
  BY Appended DEF LogOK
<1> HIDE DEF log
<1>2. m \in Messages /\ m.n \in Nat
  BY DEF Agrees, Messages
<1>3. m.type = "4" => m.n <= Len(log) + 1
  BY <1>1, <1>2 DEF Agrees
<1>4. ASSUME m.type # "4"
      PROVE  /\ m.seq \in DOMAIN log
             /\ m.type = log[m.seq].type /\ m.body = log[m.seq].body
  BY <1>1, <1>4 DEF Agrees
<1> QED
  BY <1>2, <1>3, <1>4 DEF Agrees, log

-----------------------------------------------------------------------------
(* What the session writes.                                                *)

(* Everything the client wrote that the server may still take or be sent.  *)
Out == Range(toServer) \union Range(journal)

(* A step writes no new write, and no request that is not a duplicate.     *)
Quiet ==
  /\ \A m \in Out' : m.type \in Writes => \E w \in Out : w.type = m.type /\ w.seq = m.seq
  /\ Len(toServer') > Len(toServer) =>
       Last(toServer').dup \/ Last(toServer').type \notin Requests

(* rememberOutboundLocked keeps to the limit of the journal.               *)
LEMMA RememberedKeeps ==
  ASSUME JournalOK, nextOut \in Nat, nextOut > 1, NEW m \in Sent, m.seq = nextOut,
         journal' = Remembered(nextOut, m), nextOut' = nextOut + 1
  PROVE  /\ JournalOK'
         /\ \A k \in DOMAIN journal' :
              \/ k \in DOMAIN journal /\ journal'[k] = journal[k]
              \/ k = nextOut /\ journal'[k] = m
<1> DEFINE D == DOMAIN journal
           kept == IF Cardinality(D) >= MaxOutboundJournal THEN D \ {Min(D)} ELSE D
<1>1. /\ DOMAIN journal' = kept \union {nextOut}
      /\ \A k \in kept \union {nextOut} :
           journal'[k] = IF k = nextOut THEN m ELSE journal[k]
  BY DEF Remembered
<1>2. D \subseteq 2 .. nextOut - 1 /\ Cardinality(D) <= MaxOutboundJournal
  BY DEF JournalOK
<1>3. IsFiniteSet(D) /\ Cardinality(D) \in Nat
  <2>1. IsFiniteSet(2 .. nextOut - 1)
    BY FS_Interval
  <2> QED
    BY <1>2, <2>1, FS_Subset, FS_CardinalityType
<1>4. MaxOutboundJournal \in Nat \ {0}
  BY SessionLimits
<1>5. kept \subseteq D /\ IsFiniteSet(kept) /\ Cardinality(kept) + 1 <= MaxOutboundJournal
  <2>1. CASE Cardinality(D) >= MaxOutboundJournal
    <3>1. D # {}
      BY <1>4, <2>1, FS_EmptySet
    <3>2. Min(D) \in D
      <4>1. D \in SUBSET Nat
        BY <1>2
      <4> QED
        BY <3>1, <4>1, MinOf
    <3>3. IsFiniteSet(D \ {Min(D)}) /\ Cardinality(D \ {Min(D)}) = Cardinality(D) - 1
      BY <1>3, <3>2, FS_RemoveElement
    <3> QED
      BY <1>2, <1>3, <1>4, <2>1, <3>3
  <2>2. CASE ~(Cardinality(D) >= MaxOutboundJournal)
    BY <1>2, <1>3, <1>4, <2>2
  <2> QED
    BY <2>1, <2>2
<1> HIDE DEF kept
<1>6. nextOut \notin kept
  BY <1>2, <1>5
<1>7. Cardinality(kept \union {nextOut}) <= MaxOutboundJournal
  BY <1>5, <1>6, FS_AddElement
<1>8. DOMAIN journal' \subseteq 2 .. nextOut' - 1
  BY <1>1, <1>2, <1>5
<1>9. \A k \in DOMAIN journal' : \/ k \in DOMAIN journal /\ journal'[k] = journal[k]
                                 \/ k = nextOut /\ journal'[k] = m
  BY <1>1, <1>5
<1>10. \A k \in DOMAIN journal' : journal'[k] \in Sent /\ journal'[k].seq = k
  BY <1>9 DEF JournalOK
<1> QED
  BY <1>1, <1>7, <1>8, <1>9, <1>10 DEF JournalOK

(* sendLocked uses up one number, for a message the journal remembers.     *)
LEMMA SendKeeps ==
  ASSUME JournalOK, OutOK, run = "up", NEW type \in {"0", "2", "5"} \union Requests,
         NEW n \in Nat, type = "2" => n > 0, SendLocked(type, n)
  PROVE  /\ JournalOK' /\ toServer' \in Seq(Sent) /\ nextOut' \in Nat \ {0} /\ nextOut' > 1
         /\ \A w \in Out' : w \in Out \/ (w.type = type /\ w.seq = nextOut)
         /\ Len(toServer') > Len(toServer) => Last(toServer').type = type
<1> DEFINE m == [Plain(type, nextOut) EXCEPT !.n = n]
<1>1. nextOut \in Nat \ {0} /\ nextOut > 1 /\ toServer \in Seq(Sent)
  BY DEF OutOK
<1>2. /\ toServer' = Written(<<m>>) /\ journal' = Remembered(nextOut, m)
      /\ nextOut' = nextOut + 1
  BY DEF SendLocked
<1>3. m \in Sent /\ m.seq = nextOut /\ m.type = type
  BY <1>1 DEF Plain, Sent
<1> HIDE DEF m
<1>4. /\ JournalOK'
      /\ \A k \in DOMAIN journal' : \/ k \in DOMAIN journal /\ journal'[k] = journal[k]
                                    \/ k = nextOut /\ journal'[k] = m
  BY <1>1, <1>2, <1>3, RememberedKeeps
<1>5. toServer' = toServer \/ toServer' = Append(toServer, m)
  <2>1. toServer \o <<m>> = Append(toServer, m)
    BY <1>1, <1>3, AppendIsConcat
  <2> QED
    BY <1>2, <2>1 DEF Written
<1>6. /\ toServer' \in Seq(Sent)
      /\ \A i \in DOMAIN toServer' :
           (i \in DOMAIN toServer /\ toServer'[i] = toServer[i]) \/ toServer'[i] = m
      /\ Len(toServer') > Len(toServer) => Last(toServer') = m
  <2>1. CASE toServer' = toServer
    <3>1. Len(toServer) \in Nat
      BY <1>1, LenProperties
    <3> QED
      BY <1>1, <2>1, <3>1
  <2>2. CASE toServer' = Append(toServer, m)
    <3>1. /\ toServer' \in Seq(Sent) /\ Len(toServer') = Len(toServer) + 1
          /\ \A i \in DOMAIN toServer : toServer'[i] = toServer[i]
          /\ toServer'[Len(toServer) + 1] = m
          /\ \A i \in DOMAIN toServer' : (i \in DOMAIN toServer) \/ i = Len(toServer) + 1
      BY <1>1, <1>3, <2>2, Appended
    <3> QED
      BY <3>1 DEF Last
  <2> QED
    BY <1>5, <2>1, <2>2
<1>7. \A w \in Out' : w \in Out \/ (w.type = type /\ w.seq = nextOut)
  BY <1>3, <1>4, <1>6 DEF Out, Range
<1> QED
  BY <1>1, <1>2, <1>3, <1>4, <1>6, <1>7

(* A message that is no write and no request leaves the step quiet.        *)
LEMMA SendQuiet ==
  ASSUME JournalOK, OutOK, run = "up", NEW type \in {"0", "2", "5"}, NEW n \in Nat,
         type = "2" => n > 0, SendLocked(type, n)
  PROVE  Quiet
<1>1. /\ \A w \in Out' : w \in Out \/ (w.type = type /\ w.seq = nextOut)
      /\ Len(toServer') > Len(toServer) => Last(toServer').type = type
  BY SendKeeps
<1> QED
  BY <1>1 DEF Quiet, Writes, Requests

(* Nothing written is quiet.                                               *)
LEMMA SilentQuiet ==
  ASSUME OutOK, NothingWritten
  PROVE  Quiet
<1>1. Len(toServer) \in Nat
  BY LenProperties DEF OutOK
<1>2. Out' = Out
  BY DEF NothingWritten, Out
<1>3. ~(Len(toServer') > Len(toServer))
  BY <1>1 DEF NothingWritten
<1> QED
  BY <1>2, <1>3 DEF Quiet

(* resendLocked copies messages of the journal, up to the first lost one.  *)
LEMMA ResentAreKnown ==
  ASSUME JournalOK, nextOut \in Nat \ {0}, NEW begin \in Nat \ {0}, begin <= nextOut - 1
  PROVE  LET s == ResentMessages(begin, nextOut - 1) IN
         /\ s \in Seq(Sent)
         /\ \A i \in DOMAIN s : /\ s[i].dup
                                /\ \E k \in DOMAIN journal : /\ s[i].type = journal[k].type
                                                             /\ s[i].seq = journal[k].seq
<1> DEFINE end == nextOut - 1
           lost == (begin .. end) \ DOMAIN journal
           last == ResendEnd(begin, end)
           s == ResentMessages(begin, end)
<1>1. last \in Nat /\ begin .. last \subseteq DOMAIN journal /\ last - begin + 1 \in Nat
  <2>1. CASE lost = {}
    BY <2>1 DEF ResendEnd
  <2>2. CASE lost # {}
    <3>1. lost \in SUBSET Nat
      OBVIOUS
    <3>2. Min(lost) \in lost /\ \A y \in lost : Min(lost) <= y
      BY <2>2, <3>1, MinOf
    <3>3. last = Min(lost) - 1
      BY <2>2 DEF ResendEnd
    <3> QED
      BY <3>2, <3>3
  <2> QED
    BY <2>1, <2>2
<1> HIDE DEF last
<1>2. s = [i \in 1 .. last - begin + 1 |-> [journal[begin + i - 1] EXCEPT !.dup = TRUE]]
  BY DEF ResentMessages, last
<1> HIDE DEF s
<1>3. ASSUME NEW i \in 1 .. last - begin + 1
      PROVE  /\ s[i] \in Sent /\ s[i].dup
             /\ \E k \in DOMAIN journal : /\ s[i].type = journal[k].type
                                          /\ s[i].seq = journal[k].seq
  <2>1. begin + i - 1 \in DOMAIN journal
    BY <1>1
  <2>2. journal[begin + i - 1] \in Sent
    BY <2>1 DEF JournalOK
  <2>3. s[i] = [journal[begin + i - 1] EXCEPT !.dup = TRUE]
    BY <1>2
  <2>4. /\ s[i] \in Sent /\ s[i].dup /\ s[i].type = journal[begin + i - 1].type
        /\ s[i].seq = journal[begin + i - 1].seq
    BY <2>2, <2>3 DEF Sent
  <2> QED
    BY <2>1, <2>4
<1>4. s \in Seq(Sent) /\ DOMAIN s = 1 .. last - begin + 1
  <2> DEFINE count == last - begin + 1
  <2>1. count \in Nat
    BY <1>1
  <2> HIDE DEF count
  <2>2. DOMAIN s = 1 .. count /\ s = [i \in 1 .. count |-> s[i]]
    BY <1>2 DEF count
  <2>3. \A i \in 1 .. count : s[i] \in Sent
    BY <1>3 DEF count
  <2>4. s \in [1 .. count -> Sent]
    BY <2>2, <2>3
  <2>5. s \in Seq(Sent)
    BY <2>1, <2>4, SeqDef
  <2> QED
    BY <2>2, <2>5 DEF count
<1>5. \A i \in DOMAIN s : /\ s[i].dup
                         /\ \E k \in DOMAIN journal : /\ s[i].type = journal[k].type
                                                      /\ s[i].seq = journal[k].seq
  BY <1>3, <1>4
<1> QED
  BY <1>4, <1>5 DEF s

(* The answer to a ResendRequest writes duplicates only.                   *)
LEMMA ResendKeeps ==
  ASSUME JournalOK, OutOK, NEW begin \in Nat, AnswerResend(begin), UNCHANGED <<journal, nextOut>>
  PROVE  toServer' \in Seq(Sent) /\ Quiet
<1>1. nextOut \in Nat \ {0} /\ toServer \in Seq(Sent) /\ Len(toServer) \in Nat
  BY LenProperties DEF OutOK
<1>2. CASE toServer' = toServer
  BY <1>1, <1>2, SilentQuiet DEF NothingWritten
<1>3. CASE toServer' # toServer
  <2> DEFINE s == ResentMessages(begin, nextOut - 1)
  <2>1. begin \in Nat \ {0} /\ begin <= nextOut - 1 /\ toServer' = toServer \o s
    BY <1>1, <1>3 DEF AnswerResend, Written
  <2>2. /\ s \in Seq(Sent)
        /\ \A i \in DOMAIN s : /\ s[i].dup
                               /\ \E k \in DOMAIN journal : /\ s[i].type = journal[k].type
                                                            /\ s[i].seq = journal[k].seq
    BY <1>1, <2>1, ResentAreKnown
  <2> HIDE DEF s
  <2>3. /\ toServer' \in Seq(Sent) /\ Len(toServer') = Len(toServer) + Len(s)
        /\ DOMAIN toServer' = 1 .. Len(toServer) + Len(s) /\ Len(s) \in Nat
        /\ DOMAIN toServer = 1 .. Len(toServer)
        /\ \A i \in DOMAIN toServer' :
             \/ i \in DOMAIN toServer /\ toServer'[i] = toServer[i]
             \/ i - Len(toServer) \in DOMAIN s /\ toServer'[i] = s[i - Len(toServer)]
    BY <1>1, <2>1, <2>2, Joined
  <2>4. \A w \in Out' : \E o \in Out : o.type = w.type /\ o.seq = w.seq
    <3>1. \A k \in DOMAIN journal : journal[k] \in Out /\ journal'[k] = journal[k]
      BY DEF Out, Range
    <3>2. \A i \in DOMAIN toServer : toServer[i] \in Out
      BY DEF Out, Range
    <3>3. ASSUME NEW i \in DOMAIN toServer'
          PROVE  \E o \in Out : o.type = toServer'[i].type /\ o.seq = toServer'[i].seq
      <4>1. CASE i \in DOMAIN toServer /\ toServer'[i] = toServer[i]
        BY <3>2, <4>1
      <4>2. CASE i - Len(toServer) \in DOMAIN s /\ toServer'[i] = s[i - Len(toServer)]
        BY <2>2, <3>1, <4>2
      <4> QED
        BY <2>3, <4>1, <4>2
    <3>4. \A w \in Out' : (\E i \in DOMAIN toServer' : w = toServer'[i])
                            \/ (\E k \in DOMAIN journal : w = journal[k])
      BY DEF Out, Range
    <3> QED
      BY <3>1, <3>3, <3>4
  <2>5. Len(toServer') > Len(toServer) => Last(toServer').dup
    <3>1. ASSUME Len(toServer') > Len(toServer)
          PROVE  Last(toServer').dup
      <4>1. /\ Len(toServer') \in DOMAIN toServer' /\ Len(toServer') \notin DOMAIN toServer
        BY <1>1, <2>3, <3>1
      <4> QED
        BY <2>2, <2>3, <4>1 DEF Last
    <3> QED
      BY <3>1
  <2> QED
    BY <2>3, <2>4, <2>5 DEF Quiet
<1> QED
  BY <1>2, <1>3

-----------------------------------------------------------------------------
(* handle's steps.                                                         *)

(* What processExpectedLocked makes of Run: it returns, goes on draining,  *)
(* or calls OnMessage.                                                     *)
Proceeds(m) ==
  \/ End /\ UNCHANGED delivered
  \/ /\ phase' = "drain" /\ UNCHANGED <<run, cur, delivered>> /\ loggedOn' \in {loggedOn, TRUE}
     /\ m.type \notin Answers
  \/ /\ phase' = "message" /\ cur' = m /\ m.type \in Answers /\ UNCHANGED <<run, loggedOn>>
     /\ delivered' = Append(delivered, m.seq)

(* Control and writes of processExpectedLocked.                            *)
LEMMA ExpectedKeeps ==
  ASSUME JournalOK, OutOK, run = "up", NEW m \in Kept, ProcessExpectedLocked(m),
         recovering \in BOOLEAN
  PROVE  /\ expectedIn' = expectedIn + 1 /\ Proceeds(m)
         /\ recovering' \in BOOLEAN /\ (recovering => recovering')
         /\ JournalOK' /\ OutOK' /\ Quiet
<1>1. m.type \in {"A", "1", "2", "3", "5"} \union Answers /\ m.n \in Nat
  BY DEF Kept, Messages
<1>2. expectedIn' = expectedIn + 1
  BY DEF ProcessExpectedLocked
<1>3. ASSUME NothingWritten
      PROVE  JournalOK' /\ toServer' \in Seq(Sent) /\ nextOut' \in Nat \ {0} /\ nextOut' > 1 /\ Quiet
  BY <1>3, SilentQuiet DEF NothingWritten, JournalOK, OutOK
<1>4. ASSUME SendLocked("0", 0)
      PROVE  JournalOK' /\ toServer' \in Seq(Sent) /\ nextOut' \in Nat \ {0} /\ nextOut' > 1 /\ Quiet
  BY <1>4, SendKeeps, SendQuiet
<1>5. /\ Proceeds(m) /\ recovering' \in BOOLEAN /\ (recovering => recovering')
      /\ JournalOK' /\ toServer' \in Seq(Sent) /\ nextOut' \in Nat \ {0} /\ nextOut' > 1 /\ Quiet
  <2>1. CASE m.type = "A"
    <3>1. Proceeds(m) /\ recovering' = recovering /\ NothingWritten
      BY <2>1 DEF ProcessExpectedLocked, Proceeds, Answers
    <3> QED
      BY <1>3, <3>1
  <2>2. CASE m.type = "1"
    <3>1. /\ Proceeds(m) /\ recovering' = recovering
          /\ NothingWritten \/ SendLocked("0", 0)
      BY <2>2 DEF ProcessExpectedLocked, Proceeds, Answers
    <3> QED
      BY <1>3, <1>4, <3>1
  <2>3. CASE m.type = "2"
    <3>1. AnswerResend(m.n) /\ UNCHANGED <<journal, nextOut, delivered>>
      BY <2>3 DEF ProcessExpectedLocked, Answers
    <3>2. toServer' \in Seq(Sent) /\ Quiet
      BY <1>1, <3>1, ResendKeeps
    <3>3. Proceeds(m) /\ recovering' \in {recovering, TRUE}
      BY <2>3, <3>1 DEF AnswerResend, Proceeds, Answers
    <3>4. JournalOK' /\ nextOut' \in Nat \ {0} /\ nextOut' > 1
      BY <3>1 DEF JournalOK, OutOK
    <3>5. recovering' \in BOOLEAN /\ (recovering => recovering')
      <4>1. CASE recovering' = recovering
        BY <4>1
      <4>2. CASE recovering' = TRUE
        BY <4>2
      <4> QED
        BY <3>3, <4>1, <4>2
    <3> QED
      BY <3>2, <3>3, <3>4, <3>5
  <2>4. CASE m.type \in {"3", "5"}
    <3>1. Proceeds(m) /\ recovering' = recovering /\ NothingWritten
      BY <2>4 DEF ProcessExpectedLocked, Proceeds, Answers
    <3> QED
      BY <1>3, <3>1
  <2>5. CASE m.type \in Answers
    <3>1. Proceeds(m) /\ recovering' = recovering /\ NothingWritten
      BY <2>5 DEF ProcessExpectedLocked, Proceeds, Answers
    <3> QED
      BY <1>3, <3>1
  <2> QED
    BY <1>1, <2>1, <2>2, <2>3, <2>4, <2>5
<1> QED
  BY <1>2, <1>5 DEF OutOK

(* The first message on the way is taken.                                  *)
LEMMA IncomingTaken ==
  ASSUME InOK, toClient # <<>>, srvLog' = srvLog, toClient' = Tail(toClient)
  PROVE  InOK' /\ Incoming \in Messages /\ Agrees(Incoming, srvLog) /\ Incoming = toClient[1]
<1>1. /\ toClient' \in Seq(Messages) /\ Incoming \in Messages /\ Incoming = toClient[1]
      /\ 1 \in DOMAIN toClient
      /\ \A i \in DOMAIN toClient' : i + 1 \in DOMAIN toClient /\ toClient'[i] = toClient[i + 1]
  BY Taken DEF InOK, Incoming
<1> QED
  BY <1>1 DEF InOK

(* What agrees with the log is a message of it.                            *)
LEMMA IsKept ==
  ASSUME LogOK, NEW m, Agrees(m, srvLog), m.type # "4"
  PROVE  /\ m \in Messages /\ m \in Kept /\ m.seq \in 1 .. Len(srvLog) /\ m.type = srvLog[m.seq].type
         /\ m.body = srvLog[m.seq].body /\ Len(srvLog) \in Nat
<1>1. /\ m \in Messages /\ m.seq \in DOMAIN srvLog /\ m.type = srvLog[m.seq].type
      /\ m.body = srvLog[m.seq].body
  BY DEF Agrees
<1>2. DOMAIN srvLog = 1 .. Len(srvLog) /\ Len(srvLog) \in Nat /\ srvLog[m.seq] \in Kept
  BY <1>1, LenProperties DEF LogOK
<1> QED
  BY <1>1, <1>2 DEF Kept

(* Run returns: the flags agree.                                           *)
LEMMA EndFlags ==
  ASSUME FlagsOK, End, recovering' \in BOOLEAN,
         pending' # {} \/ skipped' # {} => recovering'
  PROVE  FlagsOK'
BY DEF FlagsOK, End

(* processExpectedLocked keeps the flags in agreement.                     *)
LEMMA ProceedsFlags ==
  ASSUME FlagsOK, NEW m \in Messages, Proceeds(m), run = "up", phase \in {"idle", "drain"},
         recovering' \in BOOLEAN, recovering => recovering', pending' \subseteq pending,
         skipped' = skipped
  PROVE  FlagsOK'
<1>1. pending' # {} \/ skipped' # {} => recovering'
  BY DEF FlagsOK
<1>2. cur = NoMessage
  BY DEF FlagsOK
<1>3. CASE End
  BY <1>1, <1>3, EndFlags
<1>4. CASE /\ phase' = "drain" /\ UNCHANGED <<run, cur>> /\ loggedOn' \in {loggedOn, TRUE}
  <2>1. loggedOn' \in BOOLEAN
    <3>1. CASE loggedOn' = loggedOn
      BY <3>1 DEF FlagsOK
    <3>2. CASE loggedOn' = TRUE
      BY <3>2
    <3> QED
      BY <1>4, <3>1, <3>2
  <2> QED
    BY <1>1, <1>2, <1>4, <2>1 DEF FlagsOK
<1>5. CASE phase' = "message" /\ cur' = m /\ UNCHANGED <<run, loggedOn>>
  <2>1. m # NoMessage
    BY SessionLimits
  <2> QED
    BY <1>1, <1>5, <2>1 DEF FlagsOK
<1> QED
  BY <1>3, <1>4, <1>5 DEF Proceeds

(* A buffer that shrinks stays within its limit.                           *)
LEMMA BufferShrinks ==
  ASSUME BufferOK, NEW S, S \subseteq pending
  PROVE  IsFiniteSet(S) /\ Cardinality(S) <= MaxRecoveryBuffer
<1>1. IsFiniteSet(S) /\ Cardinality(S) <= Cardinality(pending)
  BY FS_Subset DEF BufferOK
<1>2. Cardinality(S) \in Nat /\ Cardinality(pending) \in Nat
  BY <1>1, FS_CardinalityType DEF BufferOK
<1> QED
  BY <1>1, <1>2, SessionLimits DEF BufferOK

-----------------------------------------------------------------------------
(* The order of the answers.                                               *)

(* What was delivered is behind the next expected number.                  *)
DeliverInv ==
  /\ delivered \in Seq(Nat) /\ DeliveredInOrder
  /\ \A i \in DOMAIN delivered : delivered[i] < expectedIn

(* What was passed over waits for a reconciliation.                        *)
MissInv == run = "up" => Missing \subseteq skipped

OrderInv == DeliverInv /\ MissInv

(* A longer log, and nothing else: nothing new is missing.                 *)
LEMMA StandsOrder ==
  ASSUME SessionOK, OrderInv, UNCHANGED <<expectedIn, delivered, skipped, covered>>,
         srvLog' = srvLog \/ (\E x \in Kept : srvLog' = Append(srvLog, x)),
         run' \in {run, "up", "ended"}, run' = "up" => run # "ended"
  PROVE  OrderInv'
<1>1. DeliverInv'
  BY DEF OrderInv, DeliverInv, DeliveredInOrder
<1>2. Len(srvLog) \in Nat /\ expectedIn \in Nat \ {0} /\ expectedIn <= Len(srvLog) + 1
  BY LenProperties DEF SessionOK, LogOK, CountsOK
<1>3. \A k \in 1 .. Len(srvLog') : k < expectedIn => k \in 1 .. Len(srvLog) /\ srvLog'[k] = srvLog[k]
  <2>1. CASE srvLog' = srvLog
    BY <2>1
  <2>2. ASSUME NEW x \in Kept, srvLog' = Append(srvLog, x)
        PROVE  \A k \in 1 .. Len(srvLog') :
                 k < expectedIn => k \in 1 .. Len(srvLog) /\ srvLog'[k] = srvLog[k]
    <3>1. /\ Len(srvLog') = Len(srvLog) + 1 /\ DOMAIN srvLog = 1 .. Len(srvLog)
          /\ \A k \in DOMAIN srvLog : srvLog'[k] = srvLog[k]
      BY <2>2, Appended DEF SessionOK, LogOK
    <3> QED
      BY <1>2, <3>1
  <2> QED
    BY <2>1, <2>2
<1>4. Missing' \subseteq Missing
  BY <1>3 DEF Missing
<1>5. run = "dial" => Missing = {}
  BY DEF Missing, SessionOK, CountsOK
<1>6. run \in {"dial", "up", "ended"}
  BY DEF SessionOK, FlagsOK
<1> QED
  BY <1>1, <1>4, <1>5, <1>6 DEF OrderInv, MissInv

(* A sequence with one more is another one.                                *)
LEMMA DeliveredGrows ==
  ASSUME NEW T, NEW s \in Seq(T), NEW m \in T
  PROVE  Append(s, m) # s
<1>1. Len(Append(s, m)) = Len(s) + 1 /\ Len(s) \in Nat
  BY Appended
<1> QED
  BY <1>1

(* The expected message is delivered when it is an answer.                 *)
LEMMA ProceedsOrder ==
  ASSUME SessionOK, OrderInv, run = "up", NEW m, Agrees(m, srvLog), m.type # "4", m.seq = expectedIn,
         Proceeds(m), expectedIn' = expectedIn + 1, UNCHANGED <<srvLog, skipped, covered>>
  PROVE  OrderInv' /\ expectedIn' \in Nat \ {0} /\ expectedIn' <= Len(srvLog) + 1
<1>1. /\ m.seq \in 1 .. Len(srvLog) /\ m.type = srvLog[m.seq].type /\ Len(srvLog) \in Nat
  BY IsKept DEF SessionOK
<1>2. expectedIn \in Nat \ {0} /\ expectedIn <= Len(srvLog)
  BY <1>1 DEF SessionOK, CountsOK
<1>3. delivered \in Seq(Nat) /\ DOMAIN delivered = 1 .. Len(delivered) /\ Len(delivered) \in Nat
  BY LenProperties DEF OrderInv, DeliverInv
<1>4. \A i \in DOMAIN delivered : delivered[i] \in Nat /\ delivered[i] < expectedIn
  BY <1>3 DEF OrderInv, DeliverInv
<1>5. \A i, j \in 1 .. Len(delivered) : i < j => delivered[i] < delivered[j]
  BY DEF OrderInv, DeliverInv, DeliveredInOrder
<1>6. CASE delivered' = delivered
  <2>1. DeliverInv'
    BY <1>2, <1>3, <1>4, <1>5, <1>6 DEF DeliverInv, DeliveredInOrder
  <2>2. MissInv'
    <3>1. CASE run' = "ended"
      BY <3>1 DEF MissInv
    <3>2. CASE m.type \notin Answers /\ run' = "up"
      <4>1. Missing' \subseteq Missing
        BY <1>1, <1>2, <1>6, <3>2 DEF Missing
      <4> QED
        BY <4>1 DEF MissInv, OrderInv
    <3> QED
      <4>1. Append(delivered, m.seq) # delivered
        BY <1>2, <1>3, DeliveredGrows
      <4> QED
        BY <1>6, <3>1, <3>2, <4>1 DEF Proceeds, End
  <2> QED
    BY <1>2, <2>1, <2>2 DEF OrderInv
<1>7. CASE delivered' = Append(delivered, m.seq) /\ run' = run
  <2>1. /\ delivered' \in Seq(Nat) /\ Len(delivered') = Len(delivered) + 1
        /\ DOMAIN delivered' = 1 .. Len(delivered) + 1
        /\ \A i \in DOMAIN delivered : delivered'[i] = delivered[i]
        /\ delivered'[Len(delivered) + 1] = expectedIn
        /\ \A i \in DOMAIN delivered' : (i \in DOMAIN delivered) \/ i = Len(delivered) + 1
    BY <1>2, <1>3, <1>7, Appended
  <2>2. ASSUME NEW i \in DOMAIN delivered'
        PROVE  delivered'[i] < expectedIn'
    <3>1. CASE i \in DOMAIN delivered
      BY <1>2, <1>4, <2>1, <3>1
    <3>2. CASE i = Len(delivered) + 1
      BY <1>2, <2>1, <3>2
    <3> QED
      BY <2>1, <3>1, <3>2
  <2>3. ASSUME NEW i \in 1 .. Len(delivered'), NEW j \in 1 .. Len(delivered'), i < j
        PROVE  delivered'[i] < delivered'[j]
    <3>1. i \in DOMAIN delivered
      BY <1>3, <2>1, <2>3
    <3>2. CASE j \in DOMAIN delivered
      BY <1>3, <1>5, <2>1, <2>3, <3>1, <3>2
    <3>3. CASE j = Len(delivered) + 1
      BY <1>4, <2>1, <3>1, <3>3
    <3> QED
      BY <2>1, <3>2, <3>3
  <2>4. DeliverInv'
    BY <2>1, <2>2, <2>3 DEF DeliverInv, DeliveredInOrder
  <2>5. expectedIn \in Range(delivered') /\ Range(delivered) \subseteq Range(delivered')
    <3>1. Len(delivered) + 1 \in DOMAIN delivered'
      BY <1>3, <2>1
    <3>2. \A i \in DOMAIN delivered : i \in DOMAIN delivered'
      BY <1>3, <2>1
    <3> QED
      BY <2>1, <3>1, <3>2 DEF Range
  <2>6. Missing' \subseteq Missing
    BY <1>2, <2>5 DEF Missing
  <2>7. MissInv'
    BY <1>7, <2>6 DEF MissInv, OrderInv
  <2> QED
    BY <1>2, <2>4, <2>7 DEF OrderInv
<1> QED
  BY <1>6, <1>7 DEF Proceeds

(* handleSequenceResetLocked passes over the numbers it notes.             *)
LEMMA ResetOrder ==
  ASSUME SessionOK, OrderInv, NEW n \in Nat, n > expectedIn, expectedIn' = n,
         skipped' = skipped \union (expectedIn .. n - 1),
         UNCHANGED <<run, srvLog, delivered, covered>>
  PROVE  OrderInv'
<1>1. expectedIn \in Nat \ {0} /\ delivered \in Seq(Nat) /\ Len(srvLog) \in Nat
  BY LenProperties DEF SessionOK, CountsOK, LogOK, OrderInv, DeliverInv
<1>2. \A i \in DOMAIN delivered : delivered[i] \in Nat /\ delivered[i] < expectedIn
  BY <1>1, LenProperties DEF OrderInv, DeliverInv
<1>3. DeliverInv'
  BY <1>1, <1>2 DEF OrderInv, DeliverInv, DeliveredInOrder
<1>4. Missing' \subseteq Missing \union (expectedIn .. n - 1)
  BY <1>1 DEF Missing
<1> QED
  BY <1>3, <1>4 DEF OrderInv, MissInv

(* What OnRecovery covered is not missing.                                 *)
LEMMA CoveredOrder ==
  ASSUME SessionOK, OrderInv, skipped' = {}, covered' = covered \union skipped,
         UNCHANGED <<run, srvLog, delivered, expectedIn>>
  PROVE  OrderInv'
<1>1. DeliverInv'
  BY DEF OrderInv, DeliverInv, DeliveredInOrder
<1>2. Missing' = Missing \ skipped
  BY DEF Missing
<1> QED
  BY <1>1, <1>2 DEF OrderInv, MissInv

-----------------------------------------------------------------------------
(* Every step of the session keeps SessionOK and OrderInv.                 *)

Whole == SessionOK /\ OrderInv

(* A step that leaves the log, what arrives and what was delivered alone.  *)
LEMMA WholeFrame ==
  ASSUME Whole, UNCHANGED <<srvLog, toClient, expectedIn, delivered, skipped, covered, srvIn,
                            srvGap, faults, link, pending>>,
         run' \in {run, "ended"}, cur' \in {cur, NoMessage}
  PROVE  LogOK' /\ InOK' /\ BufferOK' /\ CountsOK' /\ OrderInv'
<1>1. run' = "up" => run # "ended"
  BY DEF Whole, SessionOK, FlagsOK
<1>2. OrderInv'
  BY <1>1, StandsOrder DEF Whole
<1>3. run' = "dial" => run = "dial"
  OBVIOUS
<1>4. CountsOK'
  BY <1>3 DEF Whole, SessionOK, CountsOK
<1>5. LogOK' /\ InOK'
  BY DEF Whole, SessionOK, LogOK, InOK
<1>6. BufferOK'
  BY DEF Whole, SessionOK, BufferOK
<1> QED
  BY <1>2, <1>4, <1>5, <1>6

(* Dial: the logon takes the first number.                                 *)
LEMMA DialKeeps ==
  ASSUME Whole, Dial
  PROVE  Whole' /\ Quiet
<1>1. /\ run = "dial" /\ run' \in {"up", "ended"}
      /\ UNCHANGED <<loggedOn, recovering, expectedIn, pending, journal, phase, cur, link, toClient,
                     srvIn, srvLog, srvGap, faults, delivered, skipped, covered>>
  BY DEF Dial, server, history
<1>2. LogOK' /\ InOK' /\ BufferOK'
  BY <1>1 DEF Whole, SessionOK, LogOK, InOK, BufferOK
<1>3. FlagsOK' /\ CountsOK'
  BY <1>1 DEF Whole, SessionOK, FlagsOK, CountsOK
<1>4. OrderInv'
  BY <1>1, StandsOrder DEF Whole
<1>5. OutOK /\ JournalOK
  BY DEF Whole, SessionOK
<1>6. CASE run' = "up" /\ toServer' = Append(toServer, Plain("A", nextOut)) /\ nextOut' = nextOut + 1
  <2> DEFINE m == Plain("A", nextOut)
  <2>1. m \in Sent /\ m.type = "A"
    BY <1>5 DEF Plain, Sent, OutOK
  <2> HIDE DEF m
  <2>2. toServer \in Seq(Sent) /\ toServer' = Append(toServer, m)
    BY <1>5, <1>6 DEF OutOK, m
  <2>3. /\ toServer' \in Seq(Sent) /\ Len(toServer') = Len(toServer) + 1
        /\ \A i \in DOMAIN toServer : toServer'[i] = toServer[i]
        /\ toServer'[Len(toServer) + 1] = m
        /\ \A i \in DOMAIN toServer' : (i \in DOMAIN toServer) \/ i = Len(toServer) + 1
    BY <2>1, <2>2, Appended
  <2>4. OutOK'
    BY <1>5, <1>6, <2>3 DEF OutOK
  <2>5. JournalOK'
    BY <1>1, <1>5, <1>6 DEF JournalOK, OutOK
  <2>6. \A w \in Out' : w \in Out \/ w = m
    BY <1>1, <2>3 DEF Out, Range
  <2>7. Quiet
    BY <2>1, <2>3, <2>6 DEF Quiet, Last, Writes, Requests
  <2> QED
    BY <1>2, <1>3, <1>4, <2>4, <2>5, <2>7 DEF Whole, SessionOK
<1>7. CASE run' = "ended" /\ UNCHANGED <<toServer, nextOut>>
  <2>1. OutOK' /\ JournalOK' /\ Quiet
    BY <1>1, <1>5, <1>7, SilentQuiet DEF OutOK, JournalOK, NothingWritten
  <2> QED
    BY <1>2, <1>3, <1>4, <2>1 DEF Whole, SessionOK
<1> QED
  BY <1>6, <1>7 DEF Dial

(* A write of the session that is no request, or a return of Run.          *)
LEMMA WritesOrEnds ==
  ASSUME Whole, run = "up", NEW type \in {"0", "2", "5"}, NEW n \in Nat, type = "2" => n > 0,
         \/ SendLocked(type, n) /\ (UNCHANGED <<run, loggedOn, phase, cur>> \/ End)
         \/ NothingWritten /\ (UNCHANGED <<run, loggedOn, phase, cur>> \/ End)
  PROVE  /\ JournalOK' /\ OutOK' /\ Quiet
         /\ run' \in {run, "ended"} /\ cur' \in {cur, NoMessage}
<1>1. JournalOK /\ OutOK
  BY DEF Whole, SessionOK
<1>2. run' \in {run, "ended"} /\ cur' \in {cur, NoMessage}
  BY DEF End
<1>3. CASE SendLocked(type, n)
  <2>1. JournalOK' /\ toServer' \in Seq(Sent) /\ nextOut' \in Nat \ {0} /\ nextOut' > 1
    BY <1>1, <1>3, SendKeeps
  <2>2. Quiet
    BY <1>1, <1>3, SendQuiet
  <2> QED
    BY <1>2, <2>1, <2>2 DEF OutOK
<1>4. CASE NothingWritten
  <2>1. Quiet
    BY <1>1, <1>4, SilentQuiet
  <2>2. JournalOK' /\ toServer' \in Seq(Sent) /\ nextOut' \in Nat \ {0} /\ nextOut' > 1
    BY <1>1, <1>4 DEF NothingWritten, JournalOK, OutOK
  <2> QED
    BY <1>2, <2>1, <2>2 DEF OutOK
<1> QED
  BY <1>3, <1>4

(* The loop's ticks, a failed read, and the end of the context.            *)
LEMMA LoopCasesKeep ==
  ASSUME Whole, HeartbeatTick \/ ReadFails \/ Cancelled
  PROVE  Whole' /\ Quiet
<1>1. /\ run = "up"
      /\ UNCHANGED <<recovering, srvLog, toClient, expectedIn, delivered, skipped, covered, srvIn,
                     srvGap, faults, link, pending>>
  BY DEF HeartbeatTick, ReadFails, Cancelled, server, history
<1>2. \/ /\ SendLocked("0", 0) \/ SendLocked("5", 0) \/ NothingWritten
         /\ End
      \/ SendLocked("0", 0) /\ UNCHANGED <<run, loggedOn, phase, cur>>
  BY DEF HeartbeatTick, ReadFails, Cancelled, NothingWritten
<1>3. JournalOK' /\ OutOK' /\ Quiet /\ run' \in {run, "ended"} /\ cur' \in {cur, NoMessage}
  <2>1. CASE SendLocked("5", 0) /\ End
    BY <1>1, <2>1, WritesOrEnds
  <2>2. CASE ~(SendLocked("5", 0) /\ End)
    BY <1>1, <1>2, <2>2, WritesOrEnds
  <2> QED
    BY <2>1, <2>2
<1>4. FlagsOK'
  <2>1. CASE End
    BY <1>1, <2>1, EndFlags DEF Whole, SessionOK, FlagsOK
  <2>2. CASE UNCHANGED <<run, loggedOn, phase, cur>>
    BY <1>1, <2>2 DEF Whole, SessionOK, FlagsOK
  <2> QED
    BY <1>2, <2>1, <2>2
<1> QED
  BY <1>1, <1>3, <1>4, WholeFrame DEF Whole, SessionOK

(* The first message is taken; the rest of what is read stays.             *)
LEMMA TakeFrame ==
  ASSUME Whole, Idle, toClient' = Tail(toClient), UNCHANGED <<srvLog, link, srvIn, srvGap, faults>>
  PROVE  /\ LogOK' /\ InOK' /\ Incoming \in Messages /\ Agrees(Incoming, srvLog)
         /\ Incoming = toClient[1] /\ run = "up" /\ phase = "idle" /\ cur = NoMessage
<1>1. InOK' /\ Incoming \in Messages /\ Agrees(Incoming, srvLog) /\ Incoming = toClient[1]
  BY IncomingTaken DEF Whole, SessionOK, Idle
<1>2. LogOK'
  BY DEF Whole, SessionOK, LogOK
<1>3. run = "up" /\ phase = "idle" /\ cur = NoMessage
  BY DEF Idle, Whole, SessionOK, FlagsOK
<1> QED
  BY <1>1, <1>2, <1>3

(* An early message is buffered, within the limit, or ends the session.    *)
LEMMA GapKeeps ==
  ASSUME Whole, HandleGap
  PROVE  Whole' /\ Quiet
<1>1. /\ Idle /\ Incoming.type # "4" /\ Incoming.seq > expectedIn
      /\ toClient' = Tail(toClient)
      /\ UNCHANGED <<expectedIn, link, srvIn, srvLog, srvGap, faults, delivered, skipped, covered>>
  BY DEF HandleGap, server, history
<1>2. /\ LogOK' /\ InOK' /\ Incoming \in Messages /\ Agrees(Incoming, srvLog)
      /\ run = "up" /\ phase = "idle" /\ cur = NoMessage
  BY <1>1, TakeFrame
<1>3. expectedIn \in Nat \ {0} /\ recovering \in BOOLEAN
  BY DEF Whole, SessionOK, CountsOK, FlagsOK
<1>4. \/ /\ UNCHANGED <<pending, recovering>> /\ End /\ NothingWritten
      \/ /\ pending' = pending \/ (/\ pending' = pending \union {Incoming}
                                   /\ Cardinality(pending) < MaxRecoveryBuffer)
         /\ recovering' = TRUE
         /\ \/ SendLocked("2", expectedIn) /\ UNCHANGED <<run, loggedOn, phase, cur>>
            \/ NothingWritten /\ (UNCHANGED <<run, loggedOn, phase, cur>> \/ End)
  <2> DEFINE known == \E p \in pending : p.seq = Incoming.seq
             full == Cardinality(pending) >= MaxRecoveryBuffer
  <2>1. CASE ~known /\ full
    BY <2>1 DEF HandleGap
  <2>2. CASE ~(~known /\ full)
    <3>1. /\ pending' = IF known THEN pending ELSE pending \union {Incoming}
          /\ recovering' = TRUE
          /\ \/ SendLocked("2", expectedIn) /\ UNCHANGED <<run, loggedOn, phase, cur>>
             \/ NothingWritten /\ (UNCHANGED <<run, loggedOn, phase, cur>> \/ End)
      BY <2>2 DEF HandleGap
    <3>2. ~full => Cardinality(pending) < MaxRecoveryBuffer
      BY SessionLimits, FS_CardinalityType DEF Whole, SessionOK, BufferOK
    <3> QED
      BY <2>2, <3>1, <3>2
  <2> QED
    BY <2>1, <2>2
<1>5. JournalOK' /\ OutOK' /\ Quiet /\ run' \in {run, "ended"} /\ cur' \in {cur, NoMessage}
  <2>1. \/ SendLocked("2", expectedIn) /\ (UNCHANGED <<run, loggedOn, phase, cur>> \/ End)
        \/ NothingWritten /\ (UNCHANGED <<run, loggedOn, phase, cur>> \/ End)
    BY <1>4
  <2> QED
    BY <1>2, <1>3, <2>1, WritesOrEnds
<1>6. BufferOK'
  <2>1. /\ IsFiniteSet(pending) /\ Cardinality(pending) <= MaxRecoveryBuffer
        /\ \A p \in pending : p.type # "4" /\ Agrees(p, srvLog)
    BY DEF Whole, SessionOK, BufferOK
  <2>2. CASE pending' = pending
    BY <1>1, <1>2, <1>5, <2>1, <2>2 DEF BufferOK
  <2>3. CASE pending' = pending \union {Incoming} /\ Cardinality(pending) < MaxRecoveryBuffer
    <3>1. /\ IsFiniteSet(pending')
          /\ Cardinality(pending') = Cardinality(pending)
             \/ Cardinality(pending') = Cardinality(pending) + 1
      BY <2>1, <2>3, FS_AddElement
    <3>2. Cardinality(pending') <= MaxRecoveryBuffer
      BY <2>1, <2>3, <3>1, SessionLimits, FS_CardinalityType
    <3>3. \A p \in pending' : p.type # "4" /\ Agrees(p, srvLog)
      BY <1>1, <1>2, <2>1, <2>3
    <3> QED
      BY <1>1, <1>2, <1>5, <3>1, <3>2, <3>3 DEF BufferOK
  <2> QED
    BY <1>4, <2>2, <2>3
<1>7. FlagsOK'
  <2>1. CASE End
    <3>1. recovering' \in BOOLEAN /\ (pending' # {} \/ skipped' # {} => recovering')
      BY <1>1, <1>3, <1>4 DEF Whole, SessionOK, FlagsOK
    <3> QED
      BY <2>1, <3>1, EndFlags DEF Whole, SessionOK
  <2>2. CASE UNCHANGED <<run, loggedOn, phase, cur>> /\ recovering' = TRUE
    BY <1>1, <1>2, <2>2 DEF Whole, SessionOK, FlagsOK
  <2> QED
    BY <1>4, <2>1, <2>2
<1>8. CountsOK'
  BY <1>1, <1>2, <1>5 DEF Whole, SessionOK, CountsOK
<1>9. OrderInv'
  BY <1>1, <1>2, <1>5, StandsOrder DEF Whole
<1> QED
  BY <1>2, <1>5, <1>6, <1>7, <1>8, <1>9 DEF Whole, SessionOK

(* An earlier message is dropped or ends the session.                      *)
LEMMA OldKeeps ==
  ASSUME Whole, HandleOld
  PROVE  Whole' /\ Quiet
<1>1. /\ Idle /\ toClient' = Tail(toClient) /\ (UNCHANGED <<run, loggedOn, phase, cur>> \/ End)
      /\ UNCHANGED <<recovering, expectedIn, nextOut, pending, journal, link, toServer, srvIn, srvLog,
                     srvGap, faults, delivered, skipped, covered>>
  BY DEF HandleOld, server, history
<1>2. LogOK' /\ InOK' /\ run = "up" /\ phase = "idle" /\ cur = NoMessage
  BY <1>1, TakeFrame
<1>3. JournalOK' /\ OutOK' /\ Quiet /\ run' \in {run, "ended"} /\ cur' \in {cur, NoMessage}
  <2>1. NothingWritten
    BY <1>1 DEF NothingWritten
  <2> QED
    BY <1>1, <1>2, <2>1, WritesOrEnds
<1>4. FlagsOK'
  <2>1. CASE End
    BY <1>1, <2>1, EndFlags DEF Whole, SessionOK, FlagsOK
  <2>2. CASE UNCHANGED <<run, loggedOn, phase, cur>>
    BY <1>1, <2>2 DEF Whole, SessionOK, FlagsOK
  <2> QED
    BY <1>1, <2>1, <2>2
<1>5. BufferOK' /\ CountsOK'
  BY <1>1, <1>2, <1>3 DEF Whole, SessionOK, BufferOK, CountsOK
<1>6. OrderInv'
  BY <1>1, <1>2, <1>3, StandsOrder DEF Whole
<1> QED
  BY <1>2, <1>3, <1>4, <1>5, <1>6 DEF Whole, SessionOK

(* The expected message, read or buffered, is processed once.              *)
LEMMA ExpectedWhole ==
  ASSUME Whole, NEW m, Agrees(m, srvLog), m.type # "4", m.seq = expectedIn, run = "up",
         phase \in {"idle", "drain"}, ProcessExpectedLocked(m), pending' \subseteq pending,
         LogOK', InOK', UNCHANGED <<link, srvIn, srvLog, srvGap, faults, skipped, covered>>
  PROVE  Whole' /\ Quiet
<1>1. m \in Messages /\ m \in Kept
  BY IsKept DEF Whole, SessionOK
<1>2. /\ expectedIn' = expectedIn + 1 /\ Proceeds(m)
      /\ recovering' \in BOOLEAN /\ (recovering => recovering')
      /\ JournalOK' /\ OutOK' /\ Quiet
  <2>1. JournalOK /\ OutOK /\ recovering \in BOOLEAN
    BY DEF Whole, SessionOK, FlagsOK
  <2> QED
    BY <1>1, <2>1, ExpectedKeeps
<1>3. FlagsOK'
  BY <1>1, <1>2, ProceedsFlags DEF Whole, SessionOK
<1>4. OrderInv' /\ expectedIn' \in Nat \ {0} /\ expectedIn' <= Len(srvLog) + 1
  BY <1>2, ProceedsOrder DEF Whole
<1>5. run' # "dial"
  BY <1>2 DEF Proceeds, End
<1>6. CountsOK'
  BY <1>4, <1>5 DEF Whole, SessionOK, CountsOK
<1>7. BufferOK'
  <2>1. IsFiniteSet(pending') /\ Cardinality(pending') <= MaxRecoveryBuffer
    BY BufferShrinks DEF Whole, SessionOK
  <2>2. \A p \in pending' : p.type # "4" /\ Agrees(p, srvLog')
    BY DEF Whole, SessionOK, BufferOK
  <2>3. cur = NoMessage
    BY DEF Whole, SessionOK, FlagsOK
  <2>4. cur' # NoMessage => cur'.type \in Answers /\ Agrees(cur', srvLog')
    BY <1>2, <2>3 DEF Proceeds, End
  <2> QED
    BY <2>1, <2>2, <2>4 DEF BufferOK
<1> QED
  BY <1>2, <1>3, <1>4, <1>6, <1>7 DEF Whole, SessionOK

(* HandleExpected and the loop over the buffer.                            *)
LEMMA TakenKeeps ==
  ASSUME Whole, HandleExpected \/ DrainPending
  PROVE  Whole' /\ Quiet
<1>1. CASE HandleExpected
  <2>1. /\ Idle /\ Incoming.type # "4" /\ Incoming.seq = expectedIn
        /\ ProcessExpectedLocked(Incoming) /\ toClient' = Tail(toClient)
        /\ UNCHANGED <<pending, link, srvIn, srvLog, srvGap, faults, skipped, covered>>
    BY <1>1 DEF HandleExpected, server
  <2>2. /\ LogOK' /\ InOK' /\ Agrees(Incoming, srvLog) /\ run = "up" /\ phase = "idle"
    BY <2>1, TakeFrame
  <2> QED
    BY <2>1, <2>2, ExpectedWhole
<1>2. CASE DrainPending
  <2>1. PICK p \in pending : p.seq = expectedIn /\ pending' = pending \ {p} /\ ProcessExpectedLocked(p)
    BY <1>2 DEF DrainPending
  <2>2. /\ run = "up" /\ phase = "drain"
        /\ UNCHANGED <<link, toClient, srvIn, srvLog, srvGap, faults, skipped, covered>>
    BY <1>2 DEF DrainPending, server
  <2>3. p.type # "4" /\ Agrees(p, srvLog) /\ LogOK' /\ InOK'
    BY <2>2 DEF Whole, SessionOK, BufferOK, LogOK, InOK
  <2> QED
    BY <2>1, <2>2, <2>3, ExpectedWhole
<1> QED
  BY <1>1, <1>2

(* A SequenceReset moves forward, within the log.                          *)
LEMMA ResetKeeps ==
  ASSUME Whole, HandleSequenceReset
  PROVE  Whole' /\ Quiet
<1>1. /\ Idle /\ Incoming.type = "4" /\ toClient' = Tail(toClient)
      /\ UNCHANGED <<nextOut, journal, link, toServer, srvIn, srvLog, srvGap, faults, delivered, covered>>
  BY DEF HandleSequenceReset, server
<1>2. /\ LogOK' /\ InOK' /\ Incoming \in Messages /\ Agrees(Incoming, srvLog)
      /\ run = "up" /\ phase = "idle" /\ cur = NoMessage
  BY <1>1, TakeFrame
<1>3. Incoming.n \in Nat /\ Incoming.n <= Len(srvLog) + 1
  BY <1>1, <1>2 DEF Agrees, Messages
<1>4. /\ NothingWritten /\ OutOK /\ JournalOK /\ expectedIn \in Nat \ {0}
  BY <1>1 DEF NothingWritten, Whole, SessionOK, CountsOK
<1>5. Quiet
  BY <1>4, SilentQuiet
<1>6. CASE /\ Incoming.n > expectedIn /\ expectedIn' = Incoming.n /\ recovering' = TRUE
           /\ pending' = {p \in pending : p.seq >= Incoming.n}
           /\ skipped' = skipped \union (expectedIn .. Incoming.n - 1)
           /\ phase' = "drain" /\ UNCHANGED <<run, loggedOn, cur>>
  <2>1. OrderInv'
    BY <1>1, <1>3, <1>6, ResetOrder DEF Whole
  <2>2. IsFiniteSet(pending') /\ Cardinality(pending') <= MaxRecoveryBuffer /\ pending' \subseteq pending
    <3>1. pending' \subseteq pending
      BY <1>6
    <3> QED
      BY <3>1, BufferShrinks DEF Whole, SessionOK
  <2>3. BufferOK'
    BY <1>1, <1>2, <1>6, <2>2 DEF BufferOK, Whole, SessionOK
  <2>4. FlagsOK'
    BY <1>2, <1>6 DEF Whole, SessionOK, FlagsOK
  <2>5. CountsOK'
    BY <1>1, <1>2, <1>3, <1>4, <1>6 DEF Whole, SessionOK, CountsOK
  <2>6. OutOK' /\ JournalOK'
    BY <1>1, <1>4, <1>6 DEF OutOK, JournalOK
  <2> QED
    BY <1>2, <1>5, <2>1, <2>3, <2>4, <2>5, <2>6 DEF Whole, SessionOK
<1>7. CASE End /\ UNCHANGED <<expectedIn, recovering, pending, skipped>>
  <2>1. run' = "ended" /\ cur' = NoMessage
    BY <1>7 DEF End
  <2>2. OrderInv'
    BY <1>1, <1>7, <2>1, StandsOrder DEF Whole
  <2>3. BufferOK' /\ CountsOK'
    BY <1>1, <1>7, <2>1 DEF Whole, SessionOK, BufferOK, CountsOK
  <2>4. FlagsOK'
    BY <1>7, EndFlags DEF Whole, SessionOK, FlagsOK
  <2>5. OutOK' /\ JournalOK'
    BY <1>1, <1>4, <2>1 DEF OutOK, JournalOK
  <2> QED
    BY <1>2, <1>5, <2>2, <2>3, <2>4, <2>5 DEF Whole, SessionOK
<1> QED
  BY <1>6, <1>7 DEF HandleSequenceReset

(* handle ends, OnRecovery returns, OnMessage returns.                     *)
LEMMA ReturnsKeep ==
  ASSUME Whole, \/ FinishHandle \/ OnRecoveryReturns \/ (\E ok \in BOOLEAN : OnMessageReturns(ok))
  PROVE  /\ Whole' /\ Quiet
         /\ UNCHANGED <<toServer, journal, toClient, srvLog, srvIn, link, expectedIn, pending>>
<1>1. /\ run = "up"
      /\ UNCHANGED <<expectedIn, nextOut, pending, journal, link, toServer, toClient, srvIn, srvLog,
                     srvGap, faults, delivered>>
  BY DEF FinishHandle, OnRecoveryReturns, OnMessageReturns, server, history
<1>2. NothingWritten /\ OutOK /\ JournalOK
  BY <1>1 DEF NothingWritten, Whole, SessionOK
<1>3. Quiet /\ JournalOK'
  BY <1>1, <1>2, SilentQuiet DEF JournalOK
<1>4. /\ run' \in {run, "ended"} /\ cur' \in {cur, NoMessage}
      /\ \/ UNCHANGED <<skipped, covered, recovering>>
         \/ /\ skipped' = {} /\ covered' = covered \union skipped /\ recovering' = FALSE
            /\ phase = "recovery" /\ phase' = "idle" /\ UNCHANGED <<run, loggedOn, cur>>
  BY DEF FinishHandle, OnRecoveryReturns, OnMessageReturns, End, history
<1>5. OutOK' /\ CountsOK' /\ BufferOK' /\ LogOK' /\ InOK'
  BY <1>1, <1>2, <1>4 DEF Whole, SessionOK, OutOK, CountsOK, BufferOK, LogOK, InOK
<1>6. CASE UNCHANGED <<skipped, covered, recovering>>
  <2>1. OrderInv'
    <3>1. run' = "up" => run # "ended"
      BY <1>1
    <3> QED
      BY <1>1, <1>4, <1>6, <3>1, StandsOrder DEF Whole
  <2>2. FlagsOK'
    <3>1. CASE End
      BY <1>1, <1>6, <3>1, EndFlags DEF Whole, SessionOK, FlagsOK
    <3>2. CASE ~End
      <4>1. /\ UNCHANGED <<run, loggedOn>> /\ phase # "idle"
            /\ \/ phase' = "drain" /\ cur' = NoMessage
               \/ phase' \in {"recovery", "idle"} /\ cur' = cur /\ phase # "message"
                    /\ (phase' = "recovery" => pending = {})
               \/ phase = "recovery" /\ phase' = "idle" /\ cur' = cur
        BY <3>2 DEF FinishHandle, OnRecoveryReturns, OnMessageReturns
      <4> QED
        BY <1>1, <1>6, <4>1 DEF Whole, SessionOK, FlagsOK
    <3> QED
      BY <3>1, <3>2
  <2> QED
    BY <1>1, <1>3, <1>5, <2>1, <2>2 DEF Whole, SessionOK
<1>7. CASE /\ skipped' = {} /\ covered' = covered \union skipped /\ recovering' = FALSE
           /\ phase = "recovery" /\ phase' = "idle" /\ UNCHANGED <<run, loggedOn, cur>>
  <2>1. OrderInv'
    BY <1>1, <1>7, CoveredOrder DEF Whole
  <2>2. FlagsOK'
    BY <1>1, <1>7 DEF Whole, SessionOK, FlagsOK
  <2> QED
    BY <1>1, <1>3, <1>5, <2>1, <2>2 DEF Whole, SessionOK
<1> QED
  BY <1>4, <1>6, <1>7

(* Send, which a caller makes only when no recovery is under way.          *)
LEMMA SendWhole ==
  ASSUME Whole, NEW type \in Requests, SendSucceeds(type)
  PROVE  /\ Whole' /\ ~recovering /\ run = "up"
         /\ UNCHANGED <<phase, cur, pending, toClient, srvLog, srvIn, link, run, expectedIn, covered,
                        delivered>>
         /\ \A w \in Out' : w \in Out \/ (w.type = type /\ w.seq = nextOut)
<1>1. /\ ~recovering /\ run = "up" /\ SendLocked(type, 0)
      /\ UNCHANGED <<run, loggedOn, recovering, expectedIn, pending, phase, cur, link, toClient,
                     srvIn, srvLog, srvGap, faults, delivered, skipped, covered>>
  BY DEF SendSucceeds, CanSend, server, history
<1>2. /\ JournalOK' /\ toServer' \in Seq(Sent) /\ nextOut' \in Nat \ {0} /\ nextOut' > 1
      /\ \A w \in Out' : w \in Out \/ (w.type = type /\ w.seq = nextOut)
  BY <1>1, SendKeeps DEF Whole, SessionOK, Requests
<1>3. FlagsOK'
  BY <1>1 DEF Whole, SessionOK, FlagsOK
<1>4. LogOK' /\ InOK' /\ BufferOK' /\ CountsOK' /\ OrderInv'
  BY <1>1, WholeFrame
<1> QED
  BY <1>1, <1>2, <1>3, <1>4 DEF Whole, SessionOK, OutOK

-----------------------------------------------------------------------------
(* The server.                                                             *)

(* What the server says: nothing, a numbered message, or a replay; what    *)
(* arrives agrees with the log.                                            *)
ServerSays ==
  /\ srvLog' = srvLog \/ (\E x \in Kept : srvLog' = Append(srvLog, x))
  /\ LogOK' /\ InOK'

(* The message the server makes of its parts.                              *)
Made(type, seq, n, body) == [Plain(type, seq) EXCEPT !.n = n, !.body = body]

(* It is a message, of those parts.                                        *)
LEMMA MessageOf ==
  ASSUME NEW type \in Admin \union Requests \union Answers, NEW seq \in Nat, NEW n \in Nat,
         NEW body \in Reports \union {NoBody}
  PROVE  LET m == Made(type, seq, n, body) IN
         m \in Messages /\ m.type = type /\ m.seq = seq /\ m.n = n /\ m.body = body
<1> DEFINE m == Made(type, seq, n, body)
<1>1. m \in Messages
  BY DEF Made, Plain, Messages
<1>2. m.type = type /\ m.seq = seq /\ m.n = n /\ m.body = body
  BY DEF Made, Plain
<1> QED
  BY <1>1, <1>2

(* A message is emitted.                                                   *)
LEMMA EmitSays ==
  ASSUME LogOK, InOK, NEW type \in {"A", "1", "2", "3", "5"} \union Answers, NEW n \in Nat,
         NEW body \in Reports \union {NoBody}, type = "8" => body \in Reports,
         Emit(type, n, body), faults \in Nat
  PROVE  /\ ServerSays /\ faults' \in Nat
         /\ \E x \in Kept : /\ srvLog' = Append(srvLog, x) /\ x.type = type /\ x.body = body
                            /\ toClient' \in {toClient, Append(toClient, x)}
<1> DEFINE x == Made(type, Len(srvLog) + 1, n, body)
<1>1. Len(srvLog) \in Nat
  BY LenProperties DEF LogOK
<1>2. /\ x \in Kept /\ x \in Messages /\ x.type = type /\ x.body = body /\ x.seq = Len(srvLog) + 1
      /\ x.type # "4"
  <2>1. type \in Admin \union Requests \union Answers /\ type # "4"
    BY DEF Admin, Answers
  <2>2. Len(srvLog) + 1 \in Nat
    BY <1>1
  <2>3. x \in Messages /\ x.type = type /\ x.body = body /\ x.seq = Len(srvLog) + 1
    BY <2>1, <2>2, MessageOf
  <2> HIDE DEF x
  <2> QED
    BY <2>1, <2>3 DEF Kept
<1>3. /\ srvLog' = Append(srvLog, x) /\ toClient' \in {toClient, Append(toClient, x)}
      /\ faults' \in {faults, faults + 1}
  BY DEF Emit, Arriving, Made
<1> HIDE DEF x
<1>4. /\ srvLog' \in Seq(Kept) /\ DOMAIN srvLog' = 1 .. Len(srvLog) + 1
      /\ \A i \in DOMAIN srvLog : srvLog'[i] = srvLog[i]
      /\ srvLog'[Len(srvLog) + 1] = x
      /\ \A i \in DOMAIN srvLog' : (i \in DOMAIN srvLog) \/ i = Len(srvLog) + 1
  BY <1>2, <1>3, Appended DEF LogOK
<1>5. LogOK'
  <2>1. \A k \in DOMAIN srvLog' :
          srvLog'[k].seq = k /\ (srvLog'[k].type = "8" => srvLog'[k].body \in Reports)
    BY <1>2, <1>4 DEF LogOK
  <2> QED
    BY <1>4, <2>1 DEF LogOK
<1>6. Agrees(x, srvLog')
  BY <1>1, <1>2, <1>4 DEF Agrees
<1>7. \A i \in DOMAIN toClient : Agrees(toClient[i], srvLog')
  BY <1>2, <1>3, AgreesLasts DEF InOK
<1>8. InOK'
  <2>1. CASE toClient' = toClient
    BY <1>7, <2>1 DEF InOK
  <2>2. CASE toClient' = Append(toClient, x)
    <3>1. /\ toClient' \in Seq(Messages)
          /\ \A i \in DOMAIN toClient : toClient'[i] = toClient[i]
          /\ toClient'[Len(toClient) + 1] = x
          /\ \A i \in DOMAIN toClient' : (i \in DOMAIN toClient) \/ i = Len(toClient) + 1
      BY <1>2, <2>2, Appended DEF InOK
    <3>2. \A i \in DOMAIN toClient' : Agrees(toClient'[i], srvLog')
      BY <1>6, <1>7, <3>1
    <3> QED
      BY <3>1, <3>2 DEF InOK
  <2> QED
    BY <1>3, <2>1, <2>2
<1>9. faults' \in Nat
  BY <1>3
<1> QED
  BY <1>2, <1>3, <1>5, <1>8, <1>9 DEF ServerSays

(* A replay repeats the log, and resets over the rest of it.               *)
LEMMA ReplaySays ==
  ASSUME LogOK, InOK, NEW begin \in Nat \ {0}, Replay(begin), srvLog' = srvLog
  PROVE  /\ ServerSays
         /\ \A i \in DOMAIN toClient : i \in DOMAIN toClient' /\ toClient'[i] = toClient[i]
         /\ \A i \in DOMAIN toClient' :
              (i \in DOMAIN toClient /\ toClient'[i] = toClient[i]) \/ (i > Len(toClient) /\ link = "up")
<1>1. Len(srvLog) \in Nat /\ DOMAIN srvLog = 1 .. Len(srvLog) /\ toClient \in Seq(Messages)
  BY LenProperties DEF LogOK, InOK
<1>2. PICK k \in begin .. Len(srvLog) + 1 :
        LET again == [i \in 1 .. k - begin |-> [srvLog[begin + i - 1] EXCEPT !.dup = TRUE]]
            rest == IF k > Len(srvLog) THEN <<>>
                    ELSE <<[Plain("4", k) EXCEPT !.n = Len(srvLog) + 1]>>
        IN toClient' = IF link = "up" THEN toClient \o again \o rest ELSE toClient
  BY DEF Replay
<1> DEFINE count == k - begin
           again == [i \in 1 .. count |-> [srvLog[begin + i - 1] EXCEPT !.dup = TRUE]]
           reset == [Plain("4", k) EXCEPT !.n = Len(srvLog) + 1]
           rest == IF k > Len(srvLog) THEN <<>> ELSE <<reset>>
<1>3. toClient' = IF link = "up" THEN toClient \o again \o rest ELSE toClient
  BY <1>2
<1>4. count \in Nat /\ k \in Nat
  BY <1>1
<1>5. ASSUME NEW i \in 1 .. count
      PROVE  again[i] \in Messages /\ Agrees(again[i], srvLog)
  <2> DEFINE j == begin + i - 1
  <2>1. j \in DOMAIN srvLog
    BY <1>1
  <2> HIDE DEF j
  <2>2. srvLog[j] \in Kept /\ srvLog[j].seq = j
    BY <1>1, <2>1 DEF LogOK
  <2>3. again[i] = [srvLog[j] EXCEPT !.dup = TRUE]
    BY DEF j
  <2> HIDE DEF again
  <2>4. /\ again[i] \in Messages /\ again[i].seq = j /\ again[i].type = srvLog[j].type
        /\ again[i].body = srvLog[j].body
    BY <2>2, <2>3 DEF Kept, Messages
  <2>5. srvLog[j].type # "4"
    BY <2>2 DEF Kept, Answers
  <2> QED
    BY <2>1, <2>4, <2>5 DEF Agrees
<1>6. again \in Seq(Messages) /\ DOMAIN again = 1 .. count
  <2> HIDE DEF count
  <2>1. again \in [1 .. count -> Messages]
    BY <1>5
  <2> HIDE DEF again
  <2>2. again \in Seq(Messages)
    BY <1>4, <2>1, SeqDef
  <2> QED
    BY <2>1, <2>2
<1>7. reset \in Messages /\ Agrees(reset, srvLog)
  <2>1. k \in Nat /\ Len(srvLog) + 1 \in Nat /\ "4" \in Admin
    BY <1>1, <1>4 DEF Admin
  <2>2. reset \in Messages /\ reset.type = "4" /\ reset.n = Len(srvLog) + 1
    BY <2>1 DEF Plain, Messages
  <2> HIDE DEF reset
  <2> QED
    BY <2>1, <2>2 DEF Agrees
<1> HIDE DEF reset, again, count
<1>8. rest \in Seq(Messages) /\ \A i \in DOMAIN rest : Agrees(rest[i], srvLog)
  BY <1>7
<1> HIDE DEF rest
<1> DEFINE all == toClient \o again
<1>9. /\ all \in Seq(Messages) /\ \A i \in DOMAIN all : Agrees(all[i], srvLog)
      /\ Len(all) = Len(toClient) + Len(again) /\ DOMAIN all = 1 .. Len(toClient) + Len(again)
      /\ Len(toClient) \in Nat /\ Len(again) \in Nat /\ DOMAIN toClient = 1 .. Len(toClient)
      /\ \A i \in DOMAIN toClient : all[i] = toClient[i]
  <2>1. /\ all \in Seq(Messages) /\ Len(all) = Len(toClient) + Len(again)
        /\ DOMAIN all = 1 .. Len(toClient) + Len(again)
        /\ Len(toClient) \in Nat /\ Len(again) \in Nat /\ DOMAIN toClient = 1 .. Len(toClient)
        /\ \A i \in DOMAIN toClient : all[i] = toClient[i] /\ i \in DOMAIN all
        /\ \A i \in DOMAIN all : \/ i \in DOMAIN toClient /\ all[i] = toClient[i]
                                 \/ /\ i > Len(toClient) /\ i - Len(toClient) \in DOMAIN again
                                    /\ all[i] = again[i - Len(toClient)]
    <3>1. toClient \in Seq(Messages) /\ again \in Seq(Messages)
      BY <1>1, <1>6
    <3> HIDE DEF all
    <3>2. all = toClient \o again
      BY DEF all
    <3> QED
      BY <3>1, <3>2, Joined
  <2> HIDE DEF all
  <2>2. \A i \in DOMAIN all : Agrees(all[i], srvLog)
    BY <1>5, <1>6, <2>1 DEF InOK
  <2> QED
    BY <2>1, <2>2
<1> HIDE DEF all
<1>10. CASE link = "up"
  <2>1. toClient' = all \o rest
    BY <1>3, <1>10 DEF all
  <2>2. /\ toClient' \in Seq(Messages) /\ Len(rest) \in Nat
        /\ DOMAIN toClient' = 1 .. Len(all) + Len(rest)
        /\ \A i \in DOMAIN all : toClient'[i] = all[i] /\ i \in DOMAIN toClient'
        /\ \A i \in DOMAIN toClient' :
             \/ i \in DOMAIN all /\ toClient'[i] = all[i]
             \/ /\ i > Len(all) /\ i - Len(all) \in DOMAIN rest /\ toClient'[i] = rest[i - Len(all)]
    <3>1. all \in Seq(Messages) /\ rest \in Seq(Messages)
      BY <1>8, <1>9
    <3> QED
      BY <2>1, <3>1, Joined
  <2>3. \A i \in DOMAIN toClient' : Agrees(toClient'[i], srvLog)
    BY <1>8, <1>9, <2>2
  <2>4. \A i \in DOMAIN toClient : i \in DOMAIN toClient' /\ toClient'[i] = toClient[i]
    BY <1>9, <2>2
  <2>5. \A i \in DOMAIN toClient' : i \notin DOMAIN toClient => i > Len(toClient)
    BY <1>9, <2>2
  <2>6. InOK' /\ LogOK'
    BY <2>2, <2>3 DEF InOK, LogOK
  <2> QED
    BY <1>10, <2>4, <2>5, <2>6 DEF ServerSays
<1>11. CASE link # "up"
  BY <1>3, <1>11 DEF ServerSays, InOK, LogOK
<1> QED
  BY <1>10, <1>11

(* A step of the server keeps what the session has.                        *)
LEMMA ServerFrame ==
  ASSUME Whole, ServerSays, UNCHANGED <<session, history>>, toServer' \in Seq(Sent),
         srvIn' \in Nat \ {0}, srvGap' \in Nat, faults' \in Nat, link' \in {"up", "broken"}
  PROVE  Whole'
<1>1. /\ UNCHANGED <<run, loggedOn, recovering, expectedIn, nextOut, pending, journal, phase, cur,
                     delivered, skipped, covered>>
      /\ srvLog' = srvLog \/ (\E x \in Kept : srvLog' = Append(srvLog, x))
      /\ LogOK' /\ InOK'
  BY DEF session, history, ServerSays
<1>2. JournalOK' /\ OutOK' /\ FlagsOK'
  BY <1>1 DEF Whole, SessionOK, JournalOK, OutOK, FlagsOK
<1>3. OrderInv'
  BY <1>1, StandsOrder DEF Whole, SessionOK, FlagsOK
<1>4. ASSUME NEW m, Agrees(m, srvLog)
      PROVE  Agrees(m, srvLog')
  BY <1>1, <1>4, AgreesLasts DEF Whole, SessionOK
<1>5. BufferOK'
  BY <1>1, <1>4 DEF Whole, SessionOK, BufferOK
<1>6. Len(srvLog) \in Nat /\ Len(srvLog') \in Nat /\ Len(srvLog') >= Len(srvLog)
  <2>1. Len(srvLog) \in Nat
    BY LenProperties DEF Whole, SessionOK, LogOK
  <2>2. ASSUME NEW x \in Kept, srvLog' = Append(srvLog, x)
        PROVE  Len(srvLog') = Len(srvLog) + 1
    BY <2>2, Appended DEF Whole, SessionOK, LogOK
  <2> QED
    BY <1>1, <2>1, <2>2
<1>7. CountsOK'
  <2>1. expectedIn' \in Nat \ {0} /\ expectedIn' <= Len(srvLog') + 1
    BY <1>1, <1>6 DEF Whole, SessionOK, CountsOK
  <2> QED
    BY <1>1, <2>1 DEF Whole, SessionOK, CountsOK
<1> QED
  BY <1>1, <1>2, <1>3, <1>5, <1>7 DEF Whole, SessionOK

(* The server takes what comes first, and adds nothing to what is on the   *)
(* way to it.                                                              *)
LEMMA ReadsQuiet ==
  ASSUME OutOK, journal' = journal, toServer # <<>>, toServer' = Tail(toServer)
  PROVE  /\ toServer' \in Seq(Sent) /\ Quiet /\ Out' \subseteq Out
         /\ Head(toServer) \in Sent /\ Head(toServer) \in Out
<1>1. /\ toServer' \in Seq(Sent) /\ Head(toServer) \in Sent /\ Head(toServer) = toServer[1]
      /\ 1 \in DOMAIN toServer /\ Len(toServer') = Len(toServer) - 1 /\ Len(toServer) \in Nat
      /\ \A i \in DOMAIN toServer' : i + 1 \in DOMAIN toServer /\ toServer'[i] = toServer[i + 1]
  BY Taken DEF OutOK
<1>2. Head(toServer) \in Out
  BY <1>1 DEF Out, Range
<1>3. Out' \subseteq Out
  <2>1. Range(toServer') \subseteq Range(toServer)
    BY <1>1 DEF Range
  <2> QED
    BY <2>1 DEF Out
<1>4. ~(Len(toServer') > Len(toServer))
  BY <1>1
<1>5. Quiet
  BY <1>3, <1>4 DEF Quiet
<1> QED
  BY <1>1, <1>2, <1>3, <1>5

(* A server that adds nothing to what it reads is quiet.                   *)
LEMMA StillQuiet ==
  ASSUME OutOK, UNCHANGED <<toServer, journal>>
  PROVE  Quiet /\ Out' = Out
<1>1. Len(toServer) \in Nat
  BY LenProperties DEF OutOK
<1>2. ~(Len(toServer') > Len(toServer)) /\ Out' = Out
  BY <1>1 DEF Out
<1> QED
  BY <1>2 DEF Quiet

(* The server takes a message of the session, or one out of sequence.      *)
LEMMA ServerTakesKeeps ==
  ASSUME Whole, ServerTakesAdmin \/ ServerTakesOther
  PROVE  Whole' /\ Quiet /\ Out' \subseteq Out /\ srvIn' \in Nat /\ srvIn' >= srvIn
<1>1. /\ toServer # <<>> /\ toServer' = Tail(toServer) /\ UNCHANGED <<session, link, history>>
      /\ journal' = journal /\ link' \in {"up", "broken"}
  BY DEF ServerTakesAdmin, ServerTakesOther, ServerReads, session, Whole, SessionOK, CountsOK
<1>2. /\ toServer' \in Seq(Sent) /\ Quiet /\ Out' \subseteq Out /\ Head(toServer) \in Sent
  BY <1>1, ReadsQuiet DEF Whole, SessionOK
<1> DEFINE m == Head(toServer)
<1>3. m.seq \in Nat \ {0} /\ m.n \in Nat /\ (m.type = "2" => m.n > 0)
  BY <1>2 DEF Sent
<1>4. srvIn \in Nat \ {0} /\ srvGap \in Nat /\ faults \in Nat /\ LogOK /\ InOK
  BY DEF Whole, SessionOK, CountsOK
<1>5. ASSUME UNCHANGED <<srvLog, toClient>>
      PROVE  ServerSays
  BY <1>4, <1>5 DEF ServerSays, LogOK, InOK
<1>6. ASSUME NEW type \in {"A", "2"}, NEW n \in Nat, Emit(type, n, NoBody)
      PROVE  ServerSays /\ faults' \in Nat
  BY <1>4, <1>6, EmitSays
<1>7. CASE ServerTakesAdmin
  <2>1. srvIn' = srvIn + 1 /\ srvGap' \in {0, srvGap}
    BY <1>7 DEF ServerTakesAdmin, InSequence
  <2>2. ServerSays /\ faults' \in Nat
    <3>1. CASE Emit("A", 0, NoBody)
      BY <1>6, <3>1
    <3>2. CASE UNCHANGED <<srvLog, toClient, faults>>
      BY <1>4, <1>5, <3>2
    <3>3. CASE m.type = "2" /\ Replay(m.n) /\ UNCHANGED <<srvLog, faults>>
      <4>1. m.n \in Nat \ {0}
        BY <1>3, <3>3
      <4> QED
        BY <1>4, <3>3, <4>1, ReplaySays
    <3> QED
      BY <1>7, <3>1, <3>2, <3>3 DEF ServerTakesAdmin
  <2> QED
    BY <1>1, <1>2, <1>4, <2>1, <2>2, ServerFrame
<1>8. CASE ServerTakesOther
  <2>1. srvIn' = srvIn /\ srvGap' \in {m.seq, srvGap}
    BY <1>8 DEF ServerTakesOther
  <2>2. ServerSays /\ faults' \in Nat
    <3>1. CASE Emit("2", srvIn, NoBody)
      BY <1>4, <1>6, <3>1
    <3>2. CASE UNCHANGED <<srvLog, toClient, faults>>
      BY <1>4, <1>5, <3>2
    <3> QED
      BY <1>8, <3>1, <3>2 DEF ServerTakesOther
  <2>3. srvGap' \in Nat /\ srvIn' \in Nat \ {0}
    BY <1>3, <1>4, <2>1
  <2> QED
    BY <1>1, <1>2, <1>4, <2>1, <2>2, <2>3, ServerFrame
<1> QED
  BY <1>7, <1>8

(* A reset over a report that was never sent.                              *)
LEMMA ResetSays ==
  ASSUME LogOK, InOK, ServerResets
  PROVE  /\ ServerSays
         /\ \E x \in Kept, m \in Messages :
              /\ srvLog' = Append(srvLog, x) /\ x.type = "8" /\ m.type = "4" /\ m.n = Len(srvLog) + 2
              /\ toClient' = IF link = "up" THEN Append(toClient, m) ELSE toClient
<1> DEFINE b == [status |-> "2", form |-> "full"]
           x == [Plain("8", Len(srvLog) + 1) EXCEPT !.body = b]
           m == [Plain("4", Len(srvLog) + 1) EXCEPT !.n = Len(srvLog) + 2]
<1>1. Len(srvLog) \in Nat /\ Len(srvLog) + 1 \in Nat /\ Len(srvLog) + 2 \in Nat
  BY LenProperties DEF LogOK
<1>2. b \in Reports
  BY DEF Reports, Forms
<1>3. srvLog' = Append(srvLog, x) /\ toClient' = IF link = "up" THEN Append(toClient, m) ELSE toClient
  BY DEF ServerResets, Arriving
<1> HIDE DEF b
<1>4. x \in Messages /\ x.type = "8" /\ x.seq = Len(srvLog) + 1 /\ x.body = b
  <2>1. "8" \in Admin \union Requests \union Answers
    BY DEF Answers
  <2> QED
    BY <1>1, <1>2, <2>1 DEF Plain, Messages
<1>5. m \in Messages /\ m.type = "4" /\ m.n = Len(srvLog) + 2
  <2>1. "4" \in Admin \union Requests \union Answers
    BY DEF Admin
  <2> QED
    BY <1>1, <2>1 DEF Plain, Messages
<1> HIDE DEF x, m
<1>6. x \in Kept
  BY <1>4 DEF Kept, Answers
<1>7. /\ srvLog' \in Seq(Kept) /\ DOMAIN srvLog' = 1 .. Len(srvLog) + 1
      /\ Len(srvLog') = Len(srvLog) + 1
      /\ \A i \in DOMAIN srvLog : srvLog'[i] = srvLog[i]
      /\ srvLog'[Len(srvLog) + 1] = x
      /\ \A i \in DOMAIN srvLog' : (i \in DOMAIN srvLog) \/ i = Len(srvLog) + 1
  BY <1>3, <1>6, Appended DEF LogOK
<1>8. LogOK'
  <2>1. \A k \in DOMAIN srvLog' :
          srvLog'[k].seq = k /\ (srvLog'[k].type = "8" => srvLog'[k].body \in Reports)
    BY <1>2, <1>4, <1>7 DEF LogOK
  <2> QED
    BY <1>7, <2>1 DEF LogOK
<1>9. \A i \in DOMAIN toClient : Agrees(toClient[i], srvLog')
  BY <1>3, <1>6, AgreesLasts DEF InOK
<1>10. InOK'
  <2>1. CASE toClient' = toClient
    BY <1>9, <2>1 DEF InOK
  <2>2. CASE toClient' = Append(toClient, m)
    <3>1. /\ toClient' \in Seq(Messages)
          /\ \A i \in DOMAIN toClient : toClient'[i] = toClient[i]
          /\ toClient'[Len(toClient) + 1] = m
          /\ \A i \in DOMAIN toClient' : (i \in DOMAIN toClient) \/ i = Len(toClient) + 1
      BY <1>5, <2>2, Appended DEF InOK
    <3>2. Agrees(m, srvLog')
      BY <1>1, <1>5, <1>7 DEF Agrees
    <3>3. \A i \in DOMAIN toClient' : Agrees(toClient'[i], srvLog')
      BY <1>9, <3>1, <3>2
    <3> QED
      BY <3>1, <3>3 DEF InOK
  <2> QED
    BY <1>3, <2>1, <2>2
<1> QED
  BY <1>3, <1>4, <1>5, <1>6, <1>8, <1>10 DEF ServerSays

(* What the server does on its own, and the faults of the connection.      *)
LEMMA ServerActsKeep ==
  ASSUME Whole, ServerLoses \/ ServerSpeaks \/ ServerResets \/ Breaks
  PROVE  Whole' /\ Quiet /\ Out' \subseteq Out /\ srvIn' = srvIn
<1>1. /\ UNCHANGED <<session, history, srvIn, srvGap>> /\ journal' = journal
      /\ link' \in {"up", "broken"}
  BY DEF ServerLoses, ServerSpeaks, ServerResets, Breaks, session, Whole, SessionOK, CountsOK
<1>2. LogOK /\ InOK /\ OutOK /\ srvIn \in Nat \ {0} /\ srvGap \in Nat /\ faults \in Nat
  BY DEF Whole, SessionOK, CountsOK
<1>3. toServer' \in Seq(Sent) /\ Quiet /\ Out' \subseteq Out
  <2>1. CASE ServerLoses
    BY <1>1, <1>2, <2>1, ReadsQuiet DEF ServerLoses
  <2>2. CASE toServer' = toServer
    BY <1>1, <1>2, <2>2, StillQuiet DEF OutOK
  <2> QED
    BY <2>1, <2>2 DEF ServerSpeaks, ServerResets, Breaks
<1>4. ServerSays /\ faults' \in Nat
  <2>1. CASE UNCHANGED <<srvLog, toClient>> /\ faults' = faults + 1
    BY <1>2, <2>1 DEF ServerSays, LogOK, InOK
  <2>2. CASE ServerSpeaks
    <3>1. PICK type \in {"1", "3", "5"} : Emit(type, 0, NoBody)
      BY <2>2 DEF ServerSpeaks
    <3> QED
      BY <1>2, <3>1, EmitSays
  <2>3. CASE ServerResets
    <3>1. ServerSays /\ faults' = faults + 1
      BY <1>2, <2>3, ResetSays DEF ServerResets
    <3> QED
      BY <1>2, <3>1
  <2> QED
    BY <2>1, <2>2, <2>3 DEF ServerLoses, Breaks
<1> QED
  BY <1>1, <1>2, <1>3, <1>4, ServerFrame

(* The venue's reports and rejections.                                     *)
LEMMA ReportSays ==
  ASSUME LogOK, InOK, faults \in Nat, NEW status \in {"0", "2", "4", "8"}, Report(status)
  PROVE  /\ ServerSays /\ faults' \in Nat
         /\ \E x \in Kept : /\ srvLog' = Append(srvLog, x) /\ x.type = "8"
                            /\ x.body.status = status
                            /\ toClient' \in {toClient, Append(toClient, x)}
<1>1. PICK form \in ReportForms : Emit("8", 0, [status |-> status, form |-> form])
  BY DEF Report
<1> DEFINE b == [status |-> status, form |-> form]
<1>2. b \in Reports /\ b.status = status
  BY ReportLimits DEF Reports
<1> HIDE DEF b
<1>3. Emit("8", 0, b) /\ "8" \in Answers
  BY <1>1 DEF b, Answers
<1>4. /\ ServerSays /\ faults' \in Nat
      /\ \E x \in Kept : /\ srvLog' = Append(srvLog, x) /\ x.type = "8" /\ x.body = b
                         /\ toClient' \in {toClient, Append(toClient, x)}
  BY <1>2, <1>3, EmitSays
<1> QED
  BY <1>2, <1>4

(* The venue takes a request, or the order fills.                          *)
LEMMA VenueKeeps ==
  ASSUME Whole, VenueTakesRequest \/ VenueFills
  PROVE  Whole' /\ Quiet /\ Out' \subseteq Out /\ srvIn' \in Nat /\ srvIn' >= srvIn
<1>1. /\ UNCHANGED <<session, history, link>> /\ journal' = journal /\ link' \in {"up", "broken"}
  BY DEF VenueTakesRequest, VenueFills, session, Whole, SessionOK, CountsOK
<1>2. LogOK /\ InOK /\ OutOK /\ srvIn \in Nat \ {0} /\ srvGap \in Nat /\ faults \in Nat
  BY DEF Whole, SessionOK, CountsOK
<1>3. CASE VenueTakesRequest
  <2>1. /\ toServer # <<>> /\ toServer' = Tail(toServer)
        /\ srvIn' = srvIn + 1 /\ srvGap' \in {0, srvGap}
    BY <1>3 DEF VenueTakesRequest, ServerReads, InSequence
  <2>2. toServer' \in Seq(Sent) /\ Quiet /\ Out' \subseteq Out
    BY <1>1, <1>2, <2>1, ReadsQuiet
  <2>3. \/ \E type \in {"y", "9"} : Emit(type, 0, NoBody)
        \/ \E status \in {"0", "2", "4", "8"} : Report(status)
    BY <1>3 DEF VenueTakesRequest
  <2>4. ServerSays /\ faults' \in Nat
    <3>1. ASSUME NEW type \in {"y", "9"}, Emit(type, 0, NoBody)
          PROVE  ServerSays /\ faults' \in Nat
      BY <1>2, <3>1, EmitSays DEF Answers
    <3>2. ASSUME NEW status \in {"0", "2", "4", "8"}, Report(status)
          PROVE  ServerSays /\ faults' \in Nat
      BY <1>2, <3>2, ReportSays
    <3> QED
      BY <2>3, <3>1, <3>2
  <2> QED
    BY <1>1, <1>2, <2>1, <2>2, <2>4, ServerFrame
<1>4. CASE VenueFills
  <2>1. UNCHANGED <<toServer, srvIn, srvGap>>
    BY <1>4 DEF VenueFills
  <2>2. toServer' \in Seq(Sent) /\ Quiet /\ Out' \subseteq Out
    BY <1>1, <1>2, <2>1, StillQuiet DEF OutOK
  <2>3. Report("2") \/ UNCHANGED <<srvLog, toClient, faults>>
    BY <1>4 DEF VenueFills
  <2>4. ServerSays /\ faults' \in Nat
    <3>1. CASE Report("2")
      BY <1>2, <3>1, ReportSays
    <3>2. CASE UNCHANGED <<srvLog, toClient, faults>>
      BY <1>2, <3>2 DEF ServerSays, LogOK, InOK
    <3> QED
      BY <2>3, <3>1, <3>2
  <2> QED
    BY <1>1, <1>2, <2>1, <2>2, <2>4, ServerFrame
<1> QED
  BY <1>3, <1>4

-----------------------------------------------------------------------------
(* The command.                                                            *)

(* It begins with nothing.                                                 *)
LEMMA InitWhole == Init => Whole /\ CommandOK
<1> SUFFICES ASSUME Init  PROVE Whole /\ CommandOK
  OBVIOUS
<1>1. /\ run = "dial" /\ loggedOn = FALSE /\ recovering = FALSE /\ expectedIn = 1 /\ nextOut = 1
      /\ pending = {} /\ journal = <<>> /\ phase = "idle" /\ cur = NoMessage
      /\ link = "up" /\ toServer = <<>> /\ toClient = <<>>
      /\ srvIn = 1 /\ srvLog = <<>> /\ srvGap = 0 /\ faults = 0
      /\ delivered = <<>> /\ skipped = {} /\ covered = {}
  BY DEF Init, FixInit
<1>2. /\ <<>> \in Seq(Kept) /\ <<>> \in Seq(Sent) /\ <<>> \in Seq(Messages) /\ <<>> \in Seq(Nat)
      /\ <<>> \in Seq(Reports)
  OBVIOUS
<1>3. Len(<<>>) = 0 /\ DOMAIN <<>> = {}
  OBVIOUS
<1>4. LogOK /\ OutOK /\ InOK
  BY <1>1, <1>2, <1>3 DEF LogOK, OutOK, InOK
<1>5. JournalOK
  BY <1>1, <1>3, SessionLimits, FS_EmptySet DEF JournalOK
<1>6. BufferOK
  BY <1>1, SessionLimits, FS_EmptySet DEF BufferOK
<1>7. FlagsOK /\ CountsOK
  <2>1. FlagsOK
    BY <1>1, Zenon DEF FlagsOK
  <2>2. CountsOK
    BY <1>1, <1>3 DEF CountsOK
  <2> QED
    BY <2>1, <2>2
<1>8. OrderInv
  BY <1>1, <1>2, <1>3 DEF OrderInv, DeliverInv, DeliveredInOrder, MissInv
<1>9. CommandOK
  BY <1>2 DEF Init, CommandOK
<1> QED
  BY <1>4, <1>5, <1>6, <1>7, <1>8, <1>9 DEF Whole, SessionOK

(* runDeribitFIXWrite and its callbacks.                                   *)
LEMMA CommandTypes ==
  ASSUME Whole, CommandOK, [Next]_vars
  PROVE  CommandOK' /\ write' = write
<1>1. /\ write \in Writes /\ reports \in Seq(Reports) /\ rejects \in {0, 1}
      /\ quantity \in BOOLEAN /\ amended \in BOOLEAN
  BY DEF CommandOK
<1>2. CASE UNCHANGED vars
  BY <1>2 DEF vars, command, venue, CommandOK
<1>3. CASE UNCHANGED <<command, venue>>
  BY <1>3 DEF command, venue, CommandOK
<1>4. CASE VenueTakesRequest \/ VenueFills
  <2>1. UNCHANGED command /\ (amended' = amended \/ amended' = TRUE)
    BY <1>4 DEF VenueTakesRequest, VenueFills, venue
  <2>2. amended' \in BOOLEAN
    <3>1. CASE amended' = amended
      BY <1>1, <3>1
    <3>2. CASE amended' = TRUE
      BY <3>2
    <3> QED
      BY <2>1, <3>1, <3>2
  <2> QED
    BY <2>1, <2>2 DEF command, CommandOK
<1>5. CASE LoggedOn \/ RequestSecurityList \/ GivesUp \/ SendWrite \/ NoAnswer \/ Verify
  <2>1. /\ UNCHANGED <<write, quantity, reports, rejects, amended>>
        /\ \/ at # "done" /\ at' \in {"request", "security", "wait"} /\ result' = result
           \/ Returns("notsent") \/ Returns("unknown") \/ Returns("verified") \/ Returns("unverified")
    BY <1>5 DEF LoggedOn, RequestSecurityList, GivesUp, SendWrite, NoAnswer, Verify, Local, venue
  <2> QED
    BY <1>1, <2>1 DEF CommandOK, Returns
<1>6. CASE SecurityListRead
  <2>1. /\ UNCHANGED <<write, reports, rejects, amended>> /\ quantity' = (security = "good")
        /\ \/ at # "done" /\ at' = "write" /\ result' = result
           \/ Returns("notsent")
    BY <1>6 DEF SecurityListRead, Local, venue
  <2>2. quantity' \in BOOLEAN
    BY <2>1
  <2> QED
    BY <1>1, <2>1, <2>2 DEF CommandOK, Returns
<1>7. CASE ReportRead
  <2>1. reports # <<>> /\ reports' = Tail(reports)
    BY <1>7 DEF ReportRead
  <2>2. reports' \in Seq(Reports)
    BY <1>1, <2>1, Taken
  <2>3. /\ UNCHANGED <<write, quantity, rejects, amended>>
        /\ \/ at # "done" /\ at' = "verify" /\ result' = result
           \/ Returns(ReportOutcome(Head(reports)))
    BY <1>7 DEF ReportRead, Local, venue
  <2>4. ReportOutcome(Head(reports)) \in {"unknown", "rejected", "accepted"}
    BY DEF ReportOutcome
  <2> QED
    BY <1>1, <2>2, <2>3, <2>4 DEF CommandOK, Returns
<1>8. CASE RejectRead
  <2>1. /\ UNCHANGED <<write, quantity, reports, amended>> /\ rejects > 0 /\ rejects' = rejects - 1
        /\ Returns("rejected")
    BY <1>8 DEF RejectRead, Local, venue
  <2> QED
    BY <1>1, <2>1 DEF CommandOK, Returns
<1>9. CASE CommandCancels
  BY <1>9 DEF CommandCancels, command, venue, CommandOK
<1>10. CASE SecurityListArrives \/ CancelRejectArrives
  <2>1. UNCHANGED <<write, at, result, quantity, reports, amended>> /\ rejects' \in {rejects, 1}
    BY <1>10 DEF SecurityListArrives, CancelRejectArrives, venue
  <2> QED
    BY <1>1, <2>1 DEF CommandOK
<1>11. CASE ReportArrives
  <2>1. /\ UNCHANGED <<write, at, result, quantity, rejects, amended>>
        /\ reports' = reports \/ reports' = Append(reports, cur.body)
        /\ phase = "message" /\ cur.type = "8"
    BY <1>11 DEF ReportArrives, venue
  <2>2. cur.body \in Reports
    <3>1. cur # NoMessage /\ Agrees(cur, srvLog)
      BY <2>1 DEF Whole, SessionOK, FlagsOK, BufferOK
    <3>2. cur.seq \in DOMAIN srvLog /\ srvLog[cur.seq].type = "8" /\ srvLog[cur.seq].body = cur.body
      BY <2>1, <3>1 DEF Agrees
    <3> QED
      BY <3>2 DEF Whole, SessionOK, LogOK
  <2>3. reports' \in Seq(Reports)
    BY <1>1, <2>1, <2>2, AppendProperties
  <2> QED
    BY <1>1, <2>1, <2>3 DEF CommandOK
<1> QED
  BY <1>2, <1>3, <1>4, <1>5, <1>6, <1>7, <1>8, <1>9, <1>10, <1>11
  DEF Next, SessionStep, LoopStep, ServerStep, CommandStep

(* A step sends a request when no recovery is under way, or is quiet.      *)
LEMMA StepWhole ==
  ASSUME Whole, CommandOK, [Next]_vars
  PROVE  /\ Whole'
         /\ \/ Quiet
            \/ RequestSecurityList /\ SendSucceeds("x")
            \/ SendWrite /\ SendSucceeds(write)
<1>1. CASE UNCHANGED fixVars
  <2>1. /\ UNCHANGED <<run, loggedOn, recovering, expectedIn, nextOut, pending, journal, phase, cur,
                       link, toServer, toClient, srvIn, srvLog, srvGap, faults, delivered,
                       skipped, covered>>
    BY <1>1 DEF fixVars, session, server, history
  <2>2. FlagsOK' /\ JournalOK' /\ OutOK'
    BY <2>1 DEF Whole, SessionOK, FlagsOK, JournalOK, OutOK
  <2>3. LogOK' /\ InOK' /\ BufferOK' /\ CountsOK' /\ OrderInv'
    BY <2>1, WholeFrame
  <2>4. Quiet
    BY <2>1, StillQuiet DEF Whole, SessionOK
  <2> QED
    BY <2>2, <2>3, <2>4 DEF Whole, SessionOK
<1>2. CASE SessionStep
  BY <1>2, DialKeeps, LoopCasesKeep DEF SessionStep
<1>3. CASE LoopStep
  BY <1>3, LoopCasesKeep, GapKeeps, OldKeeps, TakenKeeps, ResetKeeps, ReturnsKeep DEF LoopStep
<1>4. CASE ServerStep
  BY <1>4, ServerTakesKeeps, ServerActsKeep DEF ServerStep
<1>5. CASE VenueTakesRequest \/ VenueFills
  BY <1>5, VenueKeeps
<1>6. CASE CommandStep
  <2>1. CASE LoggedOn \/ SecurityListRead \/ GivesUp \/ ReportRead \/ RejectRead \/ NoAnswer \/ Verify
    BY <1>1, <2>1 DEF LoggedOn, SecurityListRead, GivesUp, ReportRead, RejectRead, NoAnswer, Verify,
                      Local
  <2>2. CASE RequestSecurityList \/ SendWrite
    <3>1. CASE SendRefused \/ SendFails
      BY <1>1, <3>1 DEF SendRefused, SendFails
    <3>2. CASE \/ RequestSecurityList /\ SendSucceeds("x")
               \/ SendWrite /\ SendSucceeds(write)
      <4>1. "x" \in Requests /\ write \in Requests
        BY DEF CommandOK, Writes, Requests
      <4> QED
        BY <3>2, <4>1, SendWhole
    <3> QED
      BY <2>2, <3>1, <3>2 DEF RequestSecurityList, SendWrite
  <2>3. CASE CommandCancels
    BY <2>3, LoopCasesKeep DEF CommandCancels
  <2>4. CASE SecurityListArrives \/ ReportArrives \/ CancelRejectArrives
    <3>1. \E ok \in BOOLEAN : OnMessageReturns(ok)
      <4>1. CASE SecurityListArrives
        BY <4>1 DEF SecurityListArrives
      <4>2. CASE ReportArrives
        <5> DEFINE ok == quantity /\ cur.body.form # "bad" /\ Len(reports) < ReportQueue
        <5>1. OnMessageReturns(ok) /\ ok \in BOOLEAN
          BY <4>2 DEF ReportArrives
        <5> QED
          BY <5>1
      <4>3. CASE CancelRejectArrives
        <5>1. OnMessageReturns(rejects = 0) /\ (rejects = 0) \in BOOLEAN
          BY <4>3 DEF CancelRejectArrives
        <5> QED
          BY <5>1
      <4> QED
        BY <2>4, <4>1, <4>2, <4>3
    <3> QED
      BY <3>1, ReturnsKeep
  <2> QED
    BY <1>6, <2>1, <2>2, <2>3, <2>4 DEF CommandStep
<1> QED
  BY <1>1, <1>2, <1>3, <1>4, <1>5, <1>6 DEF Next, vars

(* The session and the command stay as described.                          *)
THEOREM WholeHolds == Spec => [](Whole /\ CommandOK)
<1>1. Init => Whole /\ CommandOK
  BY InitWhole
<1>2. Whole /\ CommandOK /\ [Next]_vars => (Whole /\ CommandOK)'
  BY StepWhole, CommandTypes
<1> QED
  BY <1>1, <1>2, PTL DEF Spec

-----------------------------------------------------------------------------
(* Types, the limits of the buffer and the journal, and a result exactly   *)
(* when the command is done, for every run (rememberOutboundLocked,        *)
(* handle, runDeribitFIXWrite).                                            *)
THEOREM DeribitTypeCorrect == Spec => []TypeOK
<1>1. ASSUME Whole, CommandOK  PROVE TypeOK
  <2>1. /\ loggedOn \in BOOLEAN /\ recovering \in BOOLEAN /\ quantity \in BOOLEAN
        /\ amended \in BOOLEAN
    BY <1>1 DEF Whole, SessionOK, FlagsOK, CommandOK
  <2>2. pending \subseteq Messages /\ Cardinality(pending) <= MaxRecoveryBuffer
    BY <1>1 DEF Whole, SessionOK, BufferOK, Agrees
  <2>3. /\ DOMAIN journal \subseteq 2 .. nextOut - 1
        /\ Cardinality(DOMAIN journal) <= MaxOutboundJournal
    BY <1>1 DEF Whole, SessionOK, JournalOK
  <2>4. /\ run \in {"dial", "up", "ended"} /\ expectedIn \in Nat \ {0} /\ nextOut \in Nat \ {0}
        /\ phase \in {"idle", "message", "drain", "recovery"}
        /\ phase = "message" <=> cur # NoMessage
    BY <1>1 DEF Whole, SessionOK, FlagsOK, CountsOK, OutOK
  <2>5. /\ write \in Writes
        /\ at \in {"logon", "request", "security", "write", "wait", "verify", "done"}
        /\ at = "done" <=> result # "none"
    BY <1>1 DEF CommandOK
  <2>6. {loggedOn, recovering, quantity, amended} \subseteq BOOLEAN
    BY <2>1
  <2> QED
    BY <2>2, <2>3, <2>4, <2>5, <2>6 DEF TypeOK
<1> QED
  BY <1>1, WholeHolds, PTL

(* handle calls OnMessage once per number and in order, through gaps,      *)
(* replays, duplicates and the buffer, however many messages arrive.       *)
THEOREM AnswersComeInOrder == Spec => []DeliveredInOrder
<1>1. Whole => DeliveredInOrder
  BY DEF Whole, OrderInv, DeliverInv
<1> QED
  BY <1>1, WholeHolds, PTL

(* Outside a recovery no answer below the next expected number was passed  *)
(* over (handleSequenceResetLocked, finishRecoveryLocked).                 *)
THEOREM NoAnswerIsMissed == Spec => []NothingMissed
<1>1. Whole => NothingMissed
  <2>1. Whole /\ ~recovering => skipped = {}
    BY DEF Whole, SessionOK, FlagsOK
  <2>2. Whole /\ run = "up" => Missing \subseteq skipped
    BY DEF Whole, OrderInv, MissInv
  <2> QED
    BY <2>1, <2>2 DEF NothingMissed
<1> QED
  BY <1>1, WholeHolds, PTL

(* Send writes a request only when every answer up to the latest one seen  *)
(* was delivered or reconciled.                                            *)
THEOREM WritesPauseUntilWhole == Spec => PausedUntilWhole
<1>1. ASSUME Whole, CommandOK, [Next]_vars,
             NEW type \in Requests, Len(toServer') > Len(toServer), Last(toServer').type = type,
             ~Last(toServer').dup
      PROVE  Missing = {} /\ pending = {} /\ skipped = {}
  <2>1. Quiet \/ \E t \in Requests : SendSucceeds(t)
    BY <1>1, StepWhole DEF CommandOK, Writes, Requests
  <2>2. ~Quiet
    BY <1>1 DEF Quiet
  <2>3. ~recovering /\ run = "up"
    BY <1>1, <2>1, <2>2, SendWhole
  <2>4. pending = {} /\ skipped = {}
    BY <1>1, <2>3 DEF Whole, SessionOK, FlagsOK
  <2>5. Missing \subseteq skipped
    BY <1>1, <2>3 DEF Whole, OrderInv, MissInv
  <2> QED
    BY <2>4, <2>5
<1>2. Whole /\ CommandOK /\ [Next]_vars =>
        [\A type \in Requests :
           (Len(toServer') > Len(toServer) /\ Last(toServer').type = type
              /\ ~Last(toServer').dup)
             => Missing = {} /\ pending = {} /\ skipped = {}]_vars
  BY <1>1
<1> QED
  BY <1>2, WholeHolds, PTL DEF Spec, PausedUntilWhole

-----------------------------------------------------------------------------
(* The write reaches the venue once.                                       *)

OutWrites == {m \in Out : m.type \in Writes}

(* The write was not attempted.                                            *)
Early == at \in {"logon", "request", "security", "write"} \/ result = "notsent"

(* All copies of the write have one number, which the venue takes once.    *)
OnceInv ==
  /\ executed \in {0, 1}
  /\ Early => executed = 0 /\ OutWrites = {}
  /\ \A m \in OutWrites : m.type = write /\ \A other \in OutWrites : other.seq = m.seq
  /\ executed = 1 => \A m \in OutWrites : m.seq < srvIn
  /\ write = "D" /\ executed = 0 => order = "none"

(* Everything the client wrote is numbered.                                *)
LEMMA OutIsSent ==
  ASSUME Whole
  PROVE  \A m \in Out : m \in Sent /\ m.seq \in Nat
<1>1. toServer \in Seq(Sent) /\ \A k \in DOMAIN journal : journal[k] \in Sent
  BY DEF Whole, SessionOK, OutOK, JournalOK
<1>2. \A i \in DOMAIN toServer : toServer[i] \in Sent
  BY <1>1, LenProperties
<1> QED
  BY <1>1, <1>2 DEF Out, Range, Sent

(* A step that writes no write and carries nothing out.                    *)
LEMMA OnceFrame ==
  ASSUME Whole, OnceInv,
         \A m \in OutWrites' : \E w \in OutWrites : w.type = m.type /\ w.seq = m.seq,
         write' = write, executed' = executed, order' \in {order, "filled"},
         order = "none" => order' = order, srvIn \in Nat, srvIn' \in Nat, srvIn' >= srvIn,
         Early' => Early
  PROVE  OnceInv'
<1>1. \A m \in OutWrites' : \E w \in OutWrites : w.type = m.type /\ w.seq = m.seq
  OBVIOUS
<1>2. \A w \in OutWrites : w.seq \in Nat
  BY OutIsSent DEF OutWrites
<1>3. Early' => executed' = 0 /\ OutWrites' = {}
  BY <1>1 DEF OnceInv
<1>4. \A m \in OutWrites' : m.type = write' /\ \A other \in OutWrites' : other.seq = m.seq
  BY <1>1 DEF OnceInv
<1>5. executed' = 1 => \A m \in OutWrites' : m.seq < srvIn'
  BY <1>1, <1>2 DEF OnceInv
<1>6. executed' \in {0, 1} /\ (write' = "D" /\ executed' = 0 => order' = "none")
  BY DEF OnceInv
<1> QED
  BY <1>3, <1>4, <1>5, <1>6 DEF OnceInv

(* The server's next number never goes back.                               *)
LEMMA NumberTaken ==
  ASSUME Whole, [Next]_vars
  PROVE  srvIn \in Nat /\ srvIn' \in Nat /\ srvIn' >= srvIn
<1>1. srvIn \in Nat
  BY DEF Whole, SessionOK, CountsOK
<1>2. CASE srvIn' = srvIn
  BY <1>1, <1>2
<1>3. CASE ServerTakesAdmin \/ ServerTakesOther \/ VenueTakesRequest
  BY <1>1, <1>3, ServerTakesKeeps, VenueKeeps
<1>4. CASE ServerLoses \/ ServerSpeaks \/ ServerResets \/ Breaks \/ VenueFills
  BY <1>2, <1>4 DEF ServerLoses, ServerSpeaks, ServerResets, Breaks, VenueFills
<1>5. CASE SessionStep \/ LoopStep
  BY <1>2, <1>5 DEF SessionStep, LoopStep, Dial, HeartbeatTick, ReadFails, HandleGap, HandleOld,
                    HandleExpected, HandleSequenceReset, DrainPending, FinishHandle,
                    OnRecoveryReturns, server
<1>6. CASE CommandStep
  BY <1>2, <1>6 DEF CommandStep, LoggedOn, RequestSecurityList, SecurityListRead, GivesUp, SendWrite,
                    ReportRead, RejectRead, NoAnswer, Verify, CommandCancels, Cancelled,
                    SecurityListArrives, ReportArrives, CancelRejectArrives, OnMessageReturns,
                    SendSucceeds, SendRefused, SendFails, Local, fixVars, server
<1>7. CASE UNCHANGED vars
  BY <1>2, <1>7 DEF vars, fixVars, server
<1> QED
  BY <1>3, <1>4, <1>5, <1>6, <1>7 DEF Next, ServerStep

(* The venue takes a write it has not taken before.                        *)
LEMMA VenueOnce ==
  ASSUME Whole, CommandOK, OnceInv, VenueTakesRequest
  PROVE  /\ OnceInv' /\ write' = write
         /\ executed = 1 => UNCHANGED venue
         /\ UNCHANGED venue \/ (executed = 0 /\ executed' = 1)
         /\ (Emit("9", 0, NoBody) /\ Head(toServer).type \in {"G", "F"}) =>
              (executed = 0 /\ ~Early /\ write # "D" /\ \A m \in OutWrites' : m.seq < srvIn')
         /\ Head(toServer).type \in Writes => Head(toServer).type = write /\ executed = 0
<1> DEFINE m == Head(toServer)
<1>1. /\ toServer # <<>> /\ toServer' = Tail(toServer) /\ journal' = journal
      /\ m.seq = srvIn /\ srvIn' = srvIn + 1
      /\ UNCHANGED <<write, at, result>>
  BY DEF VenueTakesRequest, ServerReads, InSequence, session, command
<1>2. Out' \subseteq Out /\ Quiet /\ m \in Out /\ m \in Sent
  BY <1>1, ReadsQuiet DEF Whole, SessionOK
<1>3. srvIn \in Nat /\ srvIn' \in Nat /\ srvIn' >= srvIn /\ srvIn < srvIn'
  BY <1>1 DEF Whole, SessionOK, CountsOK
<1>4. Early' <=> Early
  BY <1>1 DEF Early
<1> HIDE DEF m
<1>5. executed \in {0, 1}
  BY DEF OnceInv
<1>6. ASSUME m.type \in Writes
      PROVE  /\ m.type = write /\ executed = 0 /\ ~Early
             /\ \A w \in OutWrites' : w.seq < srvIn'
             /\ OutWrites' \subseteq OutWrites
  <2>1. m \in OutWrites
    BY <1>2, <1>6 DEF OutWrites
  <2>2. m.type = write /\ ~Early /\ \A w \in OutWrites : w.seq = m.seq
    BY <2>1 DEF OnceInv
  <2>3. executed = 0
    <3>1. executed = 1 => m.seq < srvIn
      BY <2>1 DEF OnceInv
    <3> QED
      BY <1>1, <1>3, <1>5, <3>1
  <2>4. OutWrites' \subseteq OutWrites
    BY <1>2 DEF OutWrites
  <2> QED
    BY <1>1, <1>3, <2>2, <2>3, <2>4
<1>7. CASE UNCHANGED venue
  <2>1. executed' = executed /\ order' = order
    BY <1>7 DEF venue
  <2>2. OnceInv'
    <3>1. \A w \in OutWrites' : w \in OutWrites
      BY <1>2 DEF OutWrites
    <3> QED
      BY <1>1, <1>3, <1>4, <2>1, <3>1, OnceFrame
  <2>3. \A t \in {"G", "F"} : t \in Writes /\ t # "D"
    BY DEF Writes
  <2> QED
    BY <1>1, <1>6, <1>7, <2>2, <2>3 DEF m
<1>8. CASE executed' = executed + 1 /\ m.type \in Writes
  <2>1. executed = 0 /\ executed' = 1
    BY <1>6, <1>8
  <2>2. /\ ~Early' /\ \A w \in OutWrites' : w.seq < srvIn'
        /\ \A w \in OutWrites' : w.type = write' /\ \A other \in OutWrites' : other.seq = w.seq
    BY <1>1, <1>4, <1>6, <1>8 DEF OnceInv
  <2>3. OnceInv'
    BY <2>1, <2>2 DEF OnceInv
  <2>4. \A t \in {"G", "F"} : t # "D"
    OBVIOUS
  <2> QED
    BY <1>1, <1>6, <1>8, <2>1, <2>3, <2>4 DEF m
<1> QED
  BY <1>7, <1>8 DEF VenueTakesRequest, Writes, m

(* Only the venue's taking of a request carries anything out.              *)
LEMMA CommandFrame ==
  ASSUME CommandOK, [Next]_vars, ~VenueTakesRequest
  PROVE  /\ executed' = executed /\ write' = write /\ amended' = amended /\ (Early' => Early)
         /\ order' = order \/ (order = "open" /\ order' = "filled")
<1>1. CASE UNCHANGED <<command, venue>>
  BY <1>1 DEF command, venue, Early
<1>2. CASE VenueFills
  BY <1>2 DEF VenueFills, command, Early
<1>3. CASE CommandStep
  <2>1. write' = write /\ UNCHANGED venue
    BY <1>3 DEF CommandStep, LoggedOn, RequestSecurityList, SecurityListRead, GivesUp, SendWrite,
                ReportRead, RejectRead, NoAnswer, Verify, CommandCancels, SecurityListArrives,
                ReportArrives, CancelRejectArrives, Local, venue, command
  <2>2. ASSUME LoggedOn \/ RequestSecurityList \/ SecurityListRead \/ GivesUp \/ SendWrite
        PROVE  Early' => Early
    <3>1. at \in {"logon", "request", "security", "write"}
      BY <2>2 DEF LoggedOn, RequestSecurityList, SecurityListRead, GivesUp, SendWrite
    <3> QED
      BY <3>1 DEF Early
  <2>3. ASSUME ReportRead
        PROVE  Early' => Early
    <3>1. (at' = "verify" /\ result' = result) \/ Returns(ReportOutcome(Head(reports)))
      BY <2>3 DEF ReportRead
    <3>2. at = "wait" /\ ReportOutcome(Head(reports)) # "notsent"
      BY <2>3 DEF ReportRead, ReportOutcome
    <3>3. result # "notsent"
      BY <3>2 DEF CommandOK
    <3>4. at' \in {"verify", "done"} /\ result' # "notsent"
      BY <3>1, <3>2, <3>3 DEF Returns
    <3> QED
      BY <3>4 DEF Early
  <2>4. ASSUME RejectRead \/ NoAnswer \/ Verify
        PROVE  Early' => Early
    <3>1. at' = "done" /\ result' \in {"rejected", "unknown", "verified", "unverified"}
      BY <2>4 DEF RejectRead, NoAnswer, Verify, Returns
    <3> QED
      BY <3>1 DEF Early
  <2>5. ASSUME CommandCancels \/ SecurityListArrives \/ ReportArrives \/ CancelRejectArrives
        PROVE  Early' => Early
    <3>1. at' = at /\ result' = result
      BY <2>5 DEF CommandCancels, SecurityListArrives, ReportArrives, CancelRejectArrives, command
    <3> QED
      BY <3>1 DEF Early
  <2>6. Early' => Early
    BY <1>3, <2>2, <2>3, <2>4, <2>5 DEF CommandStep
  <2> QED
    BY <2>1, <2>6 DEF venue
<1> QED
  BY <1>1, <1>2, <1>3 DEF Next, SessionStep, LoopStep, ServerStep, vars

(* Every step keeps the write single.                                      *)
LEMMA StepOnce ==
  ASSUME Whole, CommandOK, OnceInv, [Next]_vars
  PROVE  OnceInv'
<1>1. CASE VenueTakesRequest
  BY <1>1, VenueOnce
<1>2. CASE ~VenueTakesRequest
  <2>1. /\ executed' = executed /\ write' = write /\ (Early' => Early)
        /\ order' = order \/ (order = "open" /\ order' = "filled")
    BY <1>2, CommandFrame
  <2>2. srvIn \in Nat /\ srvIn' \in Nat /\ srvIn' >= srvIn
    BY NumberTaken
  <2>3. ASSUME \A m \in OutWrites' : \E w \in OutWrites : w.type = m.type /\ w.seq = m.seq
        PROVE  OnceInv'
    BY <2>1, <2>2, <2>3, OnceFrame
  <2>4. CASE Quiet
    BY <2>3, <2>4 DEF Quiet, OutWrites
  <2>5. CASE RequestSecurityList /\ SendSucceeds("x")
    <3>1. \A w \in Out' : w \in Out \/ (w.type = "x" /\ w.seq = nextOut)
      BY <2>5, SendWhole DEF Requests
    <3>2. \A w \in OutWrites' : w \in OutWrites
      BY <3>1 DEF OutWrites, Writes
    <3> QED
      BY <2>3, <3>2
  <2>6. CASE SendWrite /\ SendSucceeds(write)
    <3>1. write \in Requests /\ write \in Writes
      BY DEF CommandOK, Writes, Requests
    <3>2. \A w \in Out' : w \in Out \/ (w.type = write /\ w.seq = nextOut)
      BY <2>6, <3>1, SendWhole
    <3>3. executed = 0 /\ OutWrites = {}
      BY <2>6 DEF SendWrite, OnceInv, Early
    <3>4. \A w \in OutWrites' : w.type = write /\ w.seq = nextOut
      BY <3>2, <3>3 DEF OutWrites
    <3>5. ~Early'
      <4>1. at = "write" /\ result = "none"
        BY <2>6 DEF SendWrite, CommandOK
      <4>2. \/ at' = "wait" /\ result' = result
            \/ at' = "done" /\ result' = "unknown"
        BY <2>6 DEF SendWrite, Returns
      <4> QED
        BY <4>1, <4>2 DEF Early
    <3>6. executed' = 0 /\ (write' = "D" => order' = "none")
      BY <2>1, <3>3 DEF OnceInv
    <3> QED
      BY <2>1, <3>4, <3>5, <3>6 DEF OnceInv
  <2> QED
    BY <2>4, <2>5, <2>6, StepWhole
<1> QED
  BY <1>1, <1>2

(* At first nothing was written.                                           *)
LEMMA InitOnce == Init => OnceInv
<1> SUFFICES ASSUME Init  PROVE OnceInv
  OBVIOUS
<1>1. /\ toServer = <<>> /\ journal = <<>> /\ executed = 0 /\ at = "logon"
      /\ order = (IF write = "D" THEN "none" ELSE "open")
  BY DEF Init, FixInit
<1>2. OutWrites = {}
  <2>1. DOMAIN <<>> = {}
    OBVIOUS
  <2> QED
    BY <1>1, <2>1 DEF OutWrites, Out, Range
<1> QED
  BY <1>1, <1>2 DEF OnceInv

(* Together with the session and the command.                              *)
THEOREM OnceHolds == Spec => [](Whole /\ CommandOK /\ OnceInv)
<1>1. Init => OnceInv
  BY InitOnce
<1>2. Whole /\ CommandOK /\ OnceInv /\ [Next]_vars => OnceInv'
  BY StepOnce
<1> QED
  BY <1>1, <1>2, WholeHolds, PTL DEF Spec

(* The venue carries the write out at most once, however often the server  *)
(* asks for a resend and however long after runDeribitFIXWrite gave up.    *)
THEOREM WriteIsCarriedOutOnce == Spec => []CarriedOutOnce
<1>1. OnceInv => CarriedOutOnce
  BY DEF OnceInv, CarriedOutOnce
<1> QED
  BY <1>1, OnceHolds, PTL

-----------------------------------------------------------------------------
(* What the reports say of the venue.                                      *)

(* The report is one the venue made of this write, or of its order.        *)
Fits(r, w, done, o) ==
  IF w = "D" THEN done = 1 /\ (r.status = "8" => o = "rejected") ELSE r.status # "8"

Told(r) == Fits(r, write, executed, order)

ToldNext(r) == Fits(r, write', executed', order')

(* The venue took the write and did not carry it out.                      *)
Refused ==
  write # "D" /\ executed = 0 /\ ~Early /\ \A m \in OutWrites : m.seq < srvIn

(* m resets over number k.                                                 *)
Over(m, k) == m.type = "4" /\ m.n > k

(* A report on the way is told, behind, or reset over before it is read.   *)
WireTold ==
  run # "ended" => \A i \in DOMAIN toClient :
    toClient[i].type = "8" =>
      \/ Told(toClient[i].body) \/ toClient[i].seq < expectedIn
      \/ \E j \in DOMAIN toClient : j < i /\ Over(toClient[j], toClient[i].seq)

(* So is a report of the log, as long as it can still be replayed.         *)
LogTold ==
  run # "ended" => \A k \in DOMAIN srvLog :
    srvLog[k].type = "8" =>
      \/ Told(srvLog[k].body) \/ k < expectedIn \/ link # "up"
      \/ \E j \in DOMAIN toClient : Over(toClient[j], k)

HeldTold ==
  /\ (phase = "message" /\ cur.type = "8") => Told(cur.body)
  /\ \A p \in pending : p.type = "8" => Told(p.body)

ReadTold == \A i \in DOMAIN reports : Told(reports[i])

RejectsTold == (\E k \in DOMAIN srvLog : srvLog[k].type = "9") \/ rejects > 0 => Refused

EvidenceInv == WireTold /\ LogTold /\ HeldTold /\ ReadTold /\ RejectsTold

(* What is so at the venue stays so.                                       *)
Lasting == (\A r : Told(r) => ToldNext(r)) /\ (Refused => Refused')

(* No step takes back what a report said, or a refusal.                    *)
LEMMA EvidenceLasts ==
  ASSUME Whole, CommandOK, OnceInv, [Next]_vars
  PROVE  Lasting
<1>1. write' = write /\ executed \in {0, 1}
  BY CommandTypes DEF OnceInv
<1>2. CASE VenueTakesRequest
  <2>1. /\ executed = 1 => UNCHANGED venue
        /\ UNCHANGED venue \/ (executed = 0 /\ executed' = 1)
        /\ Head(toServer).type \in Writes => Head(toServer).type = write /\ executed = 0
    BY <1>2, VenueOnce
  <2>2. ASSUME NEW r, Told(r)
        PROVE  ToldNext(r)
    BY <1>1, <2>1, <2>2 DEF Told, ToldNext, Fits, venue
  <2>3. ASSUME Refused
        PROVE  Refused'
    <3>1. /\ Head(toServer) \in Out /\ Head(toServer).seq = srvIn /\ Out' \subseteq Out
          /\ srvIn' = srvIn + 1 /\ srvIn \in Nat /\ UNCHANGED <<at, result>>
      <4>1. /\ toServer # <<>> /\ toServer' = Tail(toServer) /\ journal' = journal
            /\ Head(toServer).seq = srvIn /\ srvIn' = srvIn + 1 /\ UNCHANGED <<at, result>>
        BY <1>2 DEF VenueTakesRequest, ServerReads, InSequence, session, command
      <4> QED
        BY <4>1, ReadsQuiet DEF Whole, SessionOK, CountsOK
    <3>2. Head(toServer).type \notin Writes
      <4>1. ASSUME Head(toServer).type \in Writes  PROVE FALSE
        <5>1. Head(toServer) \in OutWrites
          BY <3>1, <4>1 DEF OutWrites
        <5>2. Head(toServer).seq < srvIn
          BY <2>3, <5>1 DEF Refused
        <5> QED
          BY <3>1, <5>2
      <4> QED
        BY <4>1
    <3>3. executed' = executed
      BY <1>2, <3>2 DEF VenueTakesRequest, venue, Writes
    <3>4. \A m \in OutWrites' : m \in OutWrites /\ m.seq \in Nat
      BY <3>1, OutIsSent DEF OutWrites
    <3>5. \A m \in OutWrites' : m.seq < srvIn'
      BY <2>3, <3>1, <3>4 DEF Refused
    <3> QED
      BY <1>1, <2>3, <3>1, <3>3, <3>5 DEF Refused, Early
  <2> QED
    BY <2>2, <2>3 DEF Lasting
<1>3. CASE ~VenueTakesRequest
  <2>1. /\ executed' = executed /\ (Early' => Early)
        /\ order' = order \/ (order = "open" /\ order' = "filled")
    BY <1>3, CommandFrame
  <2>2. ASSUME NEW r, Told(r)
        PROVE  ToldNext(r)
    BY <1>1, <2>1, <2>2 DEF Told, ToldNext, Fits
  <2>3. ASSUME Refused
        PROVE  Refused'
    <3>1. ~Early /\ ~Early' /\ \A w \in OutWrites : w.seq < srvIn
      BY <2>1, <2>3 DEF Refused
    <3>2. \A m \in OutWrites' : \E w \in OutWrites : w.seq = m.seq
      <4>1. CASE Quiet
        BY <4>1 DEF Quiet, OutWrites
      <4>2. CASE RequestSecurityList
        BY <3>1, <4>2 DEF RequestSecurityList, Early
      <4>3. CASE SendWrite
        BY <3>1, <4>3 DEF SendWrite, Early
      <4> QED
        BY <4>1, <4>2, <4>3, StepWhole
    <3>3. \A w \in OutWrites : w.seq \in Nat
      BY OutIsSent DEF OutWrites
    <3>4. srvIn \in Nat /\ srvIn' \in Nat /\ srvIn' >= srvIn
      BY NumberTaken
    <3>5. \A m \in OutWrites' : m.seq < srvIn'
      BY <3>1, <3>2, <3>3, <3>4
    <3> QED
      BY <1>1, <2>1, <2>3, <3>1, <3>5 DEF Refused
  <2> QED
    BY <2>2, <2>3 DEF Lasting
<1> QED
  BY <1>2, <1>3

(* Messages on the way have numbers; those of the log have their own.      *)
LEMMA WireNumbers ==
  ASSUME Whole
  PROVE  /\ toClient \in Seq(Messages) /\ srvLog \in Seq(Kept) /\ Len(toClient) \in Nat
         /\ DOMAIN toClient = 1 .. Len(toClient) /\ DOMAIN srvLog = 1 .. Len(srvLog)
         /\ Len(srvLog) \in Nat /\ expectedIn \in Nat
         /\ \A i \in DOMAIN toClient : toClient[i].seq \in Nat /\ toClient[i].n \in Nat
<1>1. toClient \in Seq(Messages) /\ srvLog \in Seq(Kept) /\ expectedIn \in Nat
  BY DEF Whole, SessionOK, InOK, LogOK, CountsOK
<1>2. /\ Len(toClient) \in Nat /\ DOMAIN toClient = 1 .. Len(toClient)
      /\ DOMAIN srvLog = 1 .. Len(srvLog) /\ Len(srvLog) \in Nat
      /\ \A i \in DOMAIN toClient : toClient[i] \in Messages
  BY <1>1, LenProperties
<1> QED
  BY <1>1, <1>2 DEF Messages

(* Nothing is said, and what is expected only advances.                    *)
LEMMA WireAdvance ==
  ASSUME Whole, WireTold, LogTold, Lasting, UNCHANGED <<toClient, srvLog>>, link' \in {link, "broken"},
         expectedIn' \in Nat, expectedIn' >= expectedIn, run' # "ended" => run # "ended"
  PROVE  WireTold' /\ LogTold'
<1>1. CASE run' = "ended"
  BY <1>1 DEF WireTold, LogTold
<1>2. CASE run # "ended"
  <2>1. \A r : Told(r) => ToldNext(r)
    BY DEF Lasting
  <2>2. /\ expectedIn \in Nat /\ \A i \in DOMAIN toClient : toClient[i].seq \in Nat
        /\ DOMAIN srvLog = 1 .. Len(srvLog) /\ Len(srvLog) \in Nat
    BY WireNumbers
  <2>3. \A n \in Nat : n < expectedIn => n < expectedIn'
    BY <2>2
  <2>4. \A k \in DOMAIN srvLog : k \in Nat
    BY <2>2
  <2>5. WireTold'
    BY <1>2, <2>1, <2>2, <2>3 DEF WireTold, Told, ToldNext
  <2>6. LogTold'
    BY <1>2, <2>1, <2>3, <2>4 DEF LogTold, Told, ToldNext
  <2> QED
    BY <2>5, <2>6
<1> QED
  BY <1>1, <1>2

(* Nothing is said and nothing is read.                                    *)
LEMMA WireFrame ==
  ASSUME Whole, WireTold, LogTold, Lasting, UNCHANGED <<toClient, srvLog>>, link' \in {link, "broken"},
         expectedIn' = expectedIn, run' # "ended" => run # "ended"
  PROVE  WireTold' /\ LogTold'
<1>1. expectedIn \in Nat
  BY WireNumbers
<1> QED
  BY <1>1, WireAdvance

(* The first message is taken, and a reset is followed or ends the session. *)
LEMMA WireTake ==
  ASSUME Whole, WireTold, LogTold, Lasting, Idle, toClient' = Tail(toClient),
         UNCHANGED <<srvLog, link>>,
         run' # "ended" => /\ expectedIn' \in Nat /\ expectedIn' >= expectedIn
                           /\ Incoming.type = "4" => expectedIn' >= Incoming.n
  PROVE  WireTold' /\ LogTold'
<1>1. CASE run' = "ended"
  BY <1>1 DEF WireTold, LogTold
<1>2. CASE run' # "ended"
  <2>1. \A r : Told(r) => ToldNext(r)
    BY DEF Lasting
  <2>2. /\ toClient \in Seq(Messages) /\ DOMAIN srvLog = 1 .. Len(srvLog) /\ Len(srvLog) \in Nat
        /\ \A i \in DOMAIN toClient : toClient[i].seq \in Nat /\ toClient[i].n \in Nat
        /\ expectedIn \in Nat
    BY WireNumbers
  <2>3. /\ Incoming = toClient[1] /\ 1 \in DOMAIN toClient
        /\ \A i \in DOMAIN toClient' : /\ i \in Nat /\ i + 1 \in DOMAIN toClient
                                       /\ toClient'[i] = toClient[i + 1]
        /\ \A i \in DOMAIN toClient :
             i = 1 \/ (i - 1 \in DOMAIN toClient' /\ toClient'[i - 1] = toClient[i])
    BY <2>2, Taken DEF Idle, Incoming
  <2>4. run = "up" /\ expectedIn' \in Nat /\ expectedIn' >= expectedIn
    BY <1>2 DEF Idle
  <2>5. ASSUME NEW k \in Nat, NEW j \in DOMAIN toClient, Over(toClient[j], k)
        PROVE  k < expectedIn' \/ (j - 1 \in DOMAIN toClient' /\ Over(toClient'[j - 1], k))
    <3>1. CASE j = 1
      BY <1>2, <2>2, <2>3, <2>4, <2>5, <3>1 DEF Over
    <3>2. CASE j # 1
      BY <2>3, <2>5, <3>2
    <3> QED
      BY <3>1, <3>2
  <2>6. ASSUME NEW i \in DOMAIN toClient', toClient'[i].type = "8"
        PROVE  \/ ToldNext(toClient'[i].body) \/ toClient'[i].seq < expectedIn'
               \/ \E j \in DOMAIN toClient' : j < i /\ Over(toClient'[j], toClient'[i].seq)
    <3>1. i \in Nat /\ i + 1 \in DOMAIN toClient /\ toClient'[i] = toClient[i + 1]
      BY <2>3
    <3>2. \/ Told(toClient[i + 1].body) \/ toClient[i + 1].seq < expectedIn
          \/ \E j \in DOMAIN toClient : j < i + 1 /\ Over(toClient[j], toClient[i + 1].seq)
      BY <2>4, <2>6, <3>1 DEF WireTold
    <3>3. toClient[i + 1].seq \in Nat
      BY <2>2, <3>1
    <3>4. CASE Told(toClient[i + 1].body)
      BY <2>1, <3>1, <3>4
    <3>5. CASE toClient[i + 1].seq < expectedIn
      BY <2>2, <2>4, <3>1, <3>3, <3>5
    <3>6. ASSUME NEW j \in DOMAIN toClient, j < i + 1, Over(toClient[j], toClient[i + 1].seq)
          PROVE  \/ toClient'[i].seq < expectedIn'
                 \/ \E l \in DOMAIN toClient' : l < i /\ Over(toClient'[l], toClient'[i].seq)
      <4>1. \/ toClient[i + 1].seq < expectedIn'
            \/ (j - 1 \in DOMAIN toClient' /\ Over(toClient'[j - 1], toClient[i + 1].seq))
        BY <2>5, <3>3, <3>6
      <4>2. j - 1 < i
        BY <2>2, <3>1, <3>6, LenProperties
      <4> QED
        BY <3>1, <4>1, <4>2
    <3> QED
      BY <3>2, <3>4, <3>5, <3>6
  <2>7. ASSUME NEW k \in DOMAIN srvLog', srvLog'[k].type = "8"
        PROVE  \/ ToldNext(srvLog'[k].body) \/ k < expectedIn' \/ link' # "up"
               \/ \E j \in DOMAIN toClient' : Over(toClient'[j], k)
    <3>1. k \in DOMAIN srvLog /\ srvLog'[k] = srvLog[k] /\ k \in Nat /\ link' = link
      BY <2>2
    <3>2. \/ Told(srvLog[k].body) \/ k < expectedIn \/ link # "up"
          \/ \E j \in DOMAIN toClient : Over(toClient[j], k)
      BY <2>4, <2>7, <3>1 DEF LogTold
    <3>3. CASE Told(srvLog[k].body)
      BY <2>1, <3>1, <3>3
    <3>4. CASE k < expectedIn \/ link # "up"
      BY <2>2, <2>4, <3>1, <3>4
    <3>5. CASE \E j \in DOMAIN toClient : Over(toClient[j], k)
      BY <2>5, <3>1, <3>5
    <3> QED
      BY <3>2, <3>3, <3>4, <3>5
  <2> QED
    BY <2>6, <2>7 DEF WireTold, LogTold, Told, ToldNext
<1> QED
  BY <1>1, <1>2

(* A message is added to the log and perhaps to what is on the way.        *)
LEMMA WireEmit ==
  ASSUME Whole, WireTold, LogTold, Lasting, UNCHANGED <<run, expectedIn, link>>,
         NEW x \in Kept, srvLog' = Append(srvLog, x), toClient' \in {toClient, Append(toClient, x)},
         x.type = "8" => ToldNext(x.body)
  PROVE  WireTold' /\ LogTold'
<1> SUFFICES ASSUME run # "ended"  PROVE WireTold' /\ LogTold'
  BY DEF WireTold, LogTold
<1>1. \A r : Told(r) => ToldNext(r)
  BY DEF Lasting
<1>2. toClient \in Seq(Messages) /\ srvLog \in Seq(Kept) /\ x \in Messages /\ x.type # "4"
  BY WireNumbers DEF Kept, Answers
<1>3. /\ \A k \in DOMAIN srvLog : srvLog'[k] = srvLog[k]
      /\ \A k \in DOMAIN srvLog' : k \in DOMAIN srvLog \/ srvLog'[k] = x
  BY <1>2, Appended
<1>4. /\ \A i \in DOMAIN toClient : i \in DOMAIN toClient' /\ toClient'[i] = toClient[i]
      /\ \A i \in DOMAIN toClient' : i \in DOMAIN toClient \/ toClient'[i] = x
  <2>1. CASE toClient' = toClient
    BY <2>1
  <2>2. CASE toClient' = Append(toClient, x)
    <3>1. /\ DOMAIN toClient = 1 .. Len(toClient) /\ DOMAIN toClient' = 1 .. Len(toClient) + 1
          /\ Len(toClient) \in Nat
          /\ \A i \in DOMAIN toClient : toClient'[i] = toClient[i]
          /\ toClient'[Len(toClient) + 1] = x
          /\ \A i \in DOMAIN toClient' : (i \in DOMAIN toClient) \/ i = Len(toClient) + 1
      BY <1>2, <2>2, Appended
    <3> QED
      BY <3>1
  <2> QED
    BY <2>1, <2>2
<1>5. ASSUME NEW i \in DOMAIN toClient', toClient'[i].type = "8"
      PROVE  \/ ToldNext(toClient'[i].body) \/ toClient'[i].seq < expectedIn
             \/ \E j \in DOMAIN toClient' : j < i /\ Over(toClient'[j], toClient'[i].seq)
  <2>1. CASE i \in DOMAIN toClient
    <3>1. \/ Told(toClient[i].body) \/ toClient[i].seq < expectedIn
          \/ \E j \in DOMAIN toClient : j < i /\ Over(toClient[j], toClient[i].seq)
      BY <1>4, <1>5, <2>1 DEF WireTold
    <3> QED
      BY <1>1, <1>4, <2>1, <3>1
  <2>2. CASE toClient'[i] = x
    BY <1>5, <2>2
  <2> QED
    BY <1>4, <2>1, <2>2
<1>6. ASSUME NEW k \in DOMAIN srvLog', srvLog'[k].type = "8"
      PROVE  \/ ToldNext(srvLog'[k].body) \/ k < expectedIn \/ link # "up"
             \/ \E j \in DOMAIN toClient' : Over(toClient'[j], k)
  <2>1. CASE k \in DOMAIN srvLog
    <3>1. \/ Told(srvLog[k].body) \/ k < expectedIn \/ link # "up"
          \/ \E j \in DOMAIN toClient : Over(toClient[j], k)
      BY <1>3, <1>6, <2>1 DEF LogTold
    <3> QED
      BY <1>1, <1>3, <1>4, <2>1, <3>1
  <2>2. CASE srvLog'[k] = x
    BY <1>6, <2>2
  <2> QED
    BY <1>3, <2>1, <2>2
<1> QED
  BY <1>5, <1>6 DEF WireTold, LogTold, Told, ToldNext

(* A replay repeats what the log tells.                                    *)
LEMMA WireReplay ==
  ASSUME Whole, WireTold, LogTold, Lasting, UNCHANGED <<run, expectedIn, link, srvLog>>,
         NEW begin \in Nat \ {0}, Replay(begin)
  PROVE  WireTold' /\ LogTold'
<1> SUFFICES ASSUME run # "ended"  PROVE WireTold' /\ LogTold'
  BY DEF WireTold, LogTold
<1>1. \A r : Told(r) => ToldNext(r)
  BY DEF Lasting
<1>2. /\ InOK' /\ \A i \in DOMAIN toClient : i \in DOMAIN toClient' /\ toClient'[i] = toClient[i]
      /\ \A i \in DOMAIN toClient' :
           \/ i \in DOMAIN toClient /\ toClient'[i] = toClient[i]
           \/ i > Len(toClient) /\ link = "up"
  BY ReplaySays DEF Whole, SessionOK, ServerSays
<1>3. DOMAIN toClient = 1 .. Len(toClient) /\ Len(toClient) \in Nat
  BY WireNumbers
<1>4. ASSUME NEW i \in DOMAIN toClient', toClient'[i].type = "8"
      PROVE  \/ ToldNext(toClient'[i].body) \/ toClient'[i].seq < expectedIn
             \/ \E j \in DOMAIN toClient' : j < i /\ Over(toClient'[j], toClient'[i].seq)
  <2>1. CASE i \in DOMAIN toClient /\ toClient'[i] = toClient[i]
    <3>1. \/ Told(toClient[i].body) \/ toClient[i].seq < expectedIn
          \/ \E j \in DOMAIN toClient : j < i /\ Over(toClient[j], toClient[i].seq)
      BY <1>4, <2>1 DEF WireTold
    <3> QED
      BY <1>1, <1>2, <2>1, <3>1
  <2>2. CASE i > Len(toClient) /\ link = "up"
    <3> DEFINE k == toClient'[i].seq
    <3>1. /\ k \in DOMAIN srvLog /\ srvLog[k].type = "8" /\ srvLog[k].body = toClient'[i].body
      <4>1. Agrees(toClient'[i], srvLog)
        BY <1>2, <1>4 DEF InOK
      <4> QED
        BY <1>4, <4>1 DEF Agrees
    <3>2. \/ Told(toClient'[i].body) \/ k < expectedIn
          \/ \E j \in DOMAIN toClient : Over(toClient[j], k)
      BY <2>2, <3>1 DEF LogTold
    <3> HIDE DEF k
    <3>3. \A j \in DOMAIN toClient : j < i
      <4>1. i \in Nat
        BY <1>2, LenProperties DEF InOK
      <4> QED
        BY <1>3, <2>2, <4>1
    <3>4. \/ ToldNext(toClient'[i].body) \/ k < expectedIn
          \/ \E j \in DOMAIN toClient' : j < i /\ Over(toClient'[j], k)
      BY <1>1, <1>2, <3>2, <3>3
    <3> QED
      BY <3>4 DEF k
  <2> QED
    BY <1>2, <2>1, <2>2
<1>5. ASSUME NEW k \in DOMAIN srvLog, srvLog[k].type = "8"
      PROVE  \/ ToldNext(srvLog[k].body) \/ k < expectedIn \/ link # "up"
             \/ \E j \in DOMAIN toClient' : Over(toClient'[j], k)
  <2>1. \/ Told(srvLog[k].body) \/ k < expectedIn \/ link # "up"
        \/ \E j \in DOMAIN toClient : Over(toClient[j], k)
    BY <1>5 DEF LogTold
  <2> QED
    BY <1>1, <1>2, <2>1
<1> QED
  BY <1>4, <1>5 DEF WireTold, LogTold, Told, ToldNext

(* The report nobody sent has its reset on the way.                        *)
LEMMA WireReset ==
  ASSUME Whole, WireTold, LogTold, Lasting, ServerResets
  PROVE  WireTold' /\ LogTold'
<1>0. UNCHANGED <<run, expectedIn, link>>
  BY DEF ServerResets, session
<1> SUFFICES ASSUME run # "ended"  PROVE WireTold' /\ LogTold'
  BY <1>0 DEF WireTold, LogTold
<1>1. \A r : Told(r) => ToldNext(r)
  BY DEF Lasting
<1>2. PICK x \in Kept, m \in Messages :
        /\ srvLog' = Append(srvLog, x) /\ x.type = "8" /\ m.type = "4" /\ m.n = Len(srvLog) + 2
        /\ toClient' = IF link = "up" THEN Append(toClient, m) ELSE toClient
  BY ResetSays DEF Whole, SessionOK
<1>3. /\ DOMAIN toClient = 1 .. Len(toClient) /\ Len(toClient) \in Nat /\ Len(srvLog) \in Nat
      /\ toClient \in Seq(Messages) /\ srvLog \in Seq(Kept)
  BY WireNumbers
<1>4. /\ \A k \in DOMAIN srvLog : srvLog'[k] = srvLog[k]
      /\ \A k \in DOMAIN srvLog' : k \in DOMAIN srvLog \/ k = Len(srvLog) + 1
  BY <1>2, <1>3, Appended
<1>5. /\ \A i \in DOMAIN toClient : i \in DOMAIN toClient' /\ toClient'[i] = toClient[i]
      /\ \A i \in DOMAIN toClient' : i \in DOMAIN toClient \/ toClient'[i] = m
      /\ link = "up" => \E i \in DOMAIN toClient' : toClient'[i] = m
  <2>1. CASE link # "up"
    BY <1>2, <2>1
  <2>2. CASE link = "up"
    <3>1. /\ DOMAIN toClient' = 1 .. Len(toClient) + 1
          /\ \A i \in DOMAIN toClient : toClient'[i] = toClient[i]
          /\ toClient'[Len(toClient) + 1] = m
          /\ \A i \in DOMAIN toClient' : (i \in DOMAIN toClient) \/ i = Len(toClient) + 1
      BY <1>2, <1>3, <2>2, Appended
    <3> QED
      BY <1>3, <3>1
  <2> QED
    BY <2>1, <2>2
<1>6. ASSUME NEW i \in DOMAIN toClient', toClient'[i].type = "8"
      PROVE  \/ ToldNext(toClient'[i].body) \/ toClient'[i].seq < expectedIn
             \/ \E j \in DOMAIN toClient' : j < i /\ Over(toClient'[j], toClient'[i].seq)
  <2>1. i \in DOMAIN toClient
    BY <1>2, <1>5, <1>6
  <2>2. \/ Told(toClient[i].body) \/ toClient[i].seq < expectedIn
        \/ \E j \in DOMAIN toClient : j < i /\ Over(toClient[j], toClient[i].seq)
    BY <1>5, <1>6, <2>1 DEF WireTold
  <2> QED
    BY <1>1, <1>5, <2>1, <2>2
<1>7. ASSUME NEW k \in DOMAIN srvLog', srvLog'[k].type = "8"
      PROVE  \/ ToldNext(srvLog'[k].body) \/ k < expectedIn \/ link # "up"
             \/ \E j \in DOMAIN toClient' : Over(toClient'[j], k)
  <2>1. CASE k \in DOMAIN srvLog
    <3>1. \/ Told(srvLog[k].body) \/ k < expectedIn \/ link # "up"
          \/ \E j \in DOMAIN toClient : Over(toClient[j], k)
      BY <1>4, <1>7, <2>1 DEF LogTold
    <3> QED
      BY <1>1, <1>4, <1>5, <2>1, <3>1
  <2>2. CASE k = Len(srvLog) + 1
    <3>1. Over(m, k)
      BY <1>2, <1>3, <2>2 DEF Over
    <3> QED
      BY <1>5, <3>1
  <2> QED
    BY <1>4, <2>1, <2>2
<1> QED
  BY <1>0, <1>6, <1>7 DEF WireTold, LogTold, Told, ToldNext

(* The message read next is told, unless it is behind.                     *)
LEMMA HeadTold ==
  ASSUME Whole, WireTold, Idle, Incoming.type = "8", Incoming.seq >= expectedIn
  PROVE  Told(Incoming.body)
<1>1. /\ 1 \in DOMAIN toClient /\ Incoming = toClient[1] /\ expectedIn \in Nat
      /\ DOMAIN toClient = 1 .. Len(toClient) /\ toClient[1].seq \in Nat
  <2>1. /\ toClient \in Seq(Messages) /\ expectedIn \in Nat /\ DOMAIN toClient = 1 .. Len(toClient)
        /\ \A i \in DOMAIN toClient : toClient[i].seq \in Nat
    BY WireNumbers
  <2>2. 1 \in DOMAIN toClient /\ Incoming = toClient[1]
    BY <2>1, Taken DEF Idle, Incoming
  <2> QED
    BY <2>1, <2>2
<1>2. \/ Told(toClient[1].body) \/ toClient[1].seq < expectedIn
      \/ \E j \in DOMAIN toClient : j < 1 /\ Over(toClient[j], toClient[1].seq)
  BY <1>1 DEF WireTold, Idle
<1>3. \A j \in DOMAIN toClient : ~(j < 1)
  BY <1>1
<1> QED
  BY <1>1, <1>2, <1>3

(* Nothing new is held.                                                    *)
LEMMA HeldFrame ==
  ASSUME HeldTold, Lasting, pending' \subseteq pending,
         phase' = "message" => phase = "message" /\ cur' = cur
  PROVE  HeldTold'
<1>1. \A r : Told(r) => ToldNext(r)
  BY DEF Lasting
<1>2. (phase' = "message" /\ cur'.type = "8") => ToldNext(cur'.body)
  BY <1>1 DEF HeldTold
<1>3. \A p \in pending' : p.type = "8" => ToldNext(p.body)
  BY <1>1 DEF HeldTold
<1> QED
  BY <1>2, <1>3 DEF HeldTold, Told, ToldNext

(* The expected message is held when it goes to OnMessage.                 *)
LEMMA ProceedsHeld ==
  ASSUME HeldTold, Lasting, pending' \subseteq pending, NEW m, Proceeds(m), phase # "message",
         m.type = "8" => Told(m.body)
  PROVE  HeldTold'
<1>1. \A r : Told(r) => ToldNext(r)
  BY DEF Lasting
<1>2. phase' = "message" => cur' = m
  BY DEF Proceeds, End
<1>3. (phase' = "message" /\ cur'.type = "8") => ToldNext(cur'.body)
  BY <1>1, <1>2
<1>4. \A p \in pending' : p.type = "8" => ToldNext(p.body)
  BY <1>1 DEF HeldTold
<1> QED
  BY <1>3, <1>4 DEF HeldTold, Told, ToldNext

(* What an expected message leads to.                                      *)
LEMMA ExpectedProceeds ==
  ASSUME Whole, run = "up", NEW m, Agrees(m, srvLog), m.type # "4", ProcessExpectedLocked(m)
  PROVE  Proceeds(m) /\ expectedIn' = expectedIn + 1
<1>1. m \in Kept /\ JournalOK /\ OutOK /\ recovering \in BOOLEAN
  BY IsKept DEF Whole, SessionOK, FlagsOK
<1> QED
  BY <1>1, ExpectedKeeps

(* handle's first step, with the message it takes.                         *)
LEMMA HandleEvidence ==
  ASSUME Whole, WireTold, LogTold, HeldTold, Lasting,
         HandleGap \/ HandleOld \/ HandleExpected \/ HandleSequenceReset
  PROVE  WireTold' /\ LogTold' /\ HeldTold'
<1>1. Idle /\ toClient' = Tail(toClient) /\ UNCHANGED <<srvLog, link, srvIn, srvGap, faults>>
  BY DEF HandleGap, HandleOld, HandleExpected, HandleSequenceReset, server
<1>2. /\ Incoming \in Messages /\ Agrees(Incoming, srvLog) /\ run = "up" /\ phase = "idle"
      /\ cur = NoMessage /\ expectedIn \in Nat /\ Incoming.seq \in Nat /\ Incoming.n \in Nat
  <2>1. /\ Incoming \in Messages /\ Agrees(Incoming, srvLog) /\ run = "up" /\ phase = "idle"
        /\ cur = NoMessage
    BY <1>1, TakeFrame
  <2> QED
    BY <2>1, WireNumbers DEF Messages
<1>3. \A r : Told(r) => ToldNext(r)
  BY DEF Lasting
<1>4. CASE HandleGap
  <2>1. /\ Incoming.type # "4" /\ Incoming.seq > expectedIn /\ expectedIn' = expectedIn
        /\ pending' \subseteq pending \union {Incoming}
        /\ phase' = phase \/ phase' = "idle"
    BY <1>4 DEF HandleGap, End
  <2>2. WireTold' /\ LogTold'
    BY <1>1, <1>2, <2>1, WireTake
  <2>3. Incoming.type = "8" => Told(Incoming.body)
    BY <1>1, <1>2, <2>1, HeadTold
  <2>4. \A p \in pending' : p.type = "8" => ToldNext(p.body)
    BY <1>3, <2>1, <2>3 DEF HeldTold
  <2>5. HeldTold'
    BY <1>2, <2>1, <2>4 DEF HeldTold, Told, ToldNext
  <2> QED
    BY <2>2, <2>5
<1>5. CASE HandleOld
  <2>1. /\ Incoming.type # "4" /\ expectedIn' = expectedIn /\ pending' = pending
        /\ phase' = phase \/ phase' = "idle"
    BY <1>5 DEF HandleOld, End
  <2> QED
    BY <1>1, <1>2, <2>1, WireTake, HeldFrame
<1>6. CASE HandleExpected
  <2>1. /\ Incoming.type # "4" /\ Incoming.seq = expectedIn /\ ProcessExpectedLocked(Incoming)
        /\ pending' = pending
    BY <1>6 DEF HandleExpected
  <2>2. Proceeds(Incoming) /\ expectedIn' = expectedIn + 1
    BY <1>2, <2>1, ExpectedProceeds
  <2>3. Incoming.type = "8" => Told(Incoming.body)
    BY <1>1, <1>2, <2>1, HeadTold
  <2>4. HeldTold'
    BY <1>2, <2>1, <2>2, <2>3, ProceedsHeld
  <2>5. WireTold' /\ LogTold'
    BY <1>1, <1>2, <2>1, <2>2, WireTake
  <2> QED
    BY <2>4, <2>5
<1>7. CASE HandleSequenceReset
  <2>1. /\ pending' \subseteq pending /\ phase' # "message"
        /\ run' # "ended" => expectedIn' = Incoming.n /\ expectedIn' > expectedIn
    BY <1>7 DEF HandleSequenceReset, End
  <2>2. HeldTold'
    BY <2>1, HeldFrame
  <2>3. WireTold' /\ LogTold'
    BY <1>1, <1>2, <2>1, WireTake
  <2> QED
    BY <2>2, <2>3
<1> QED
  BY <1>4, <1>5, <1>6, <1>7

(* The other steps of Run and its callbacks.                               *)
LEMMA RunEvidence ==
  ASSUME Whole, WireTold, LogTold, HeldTold, Lasting,
         \/ Dial \/ HeartbeatTick \/ ReadFails \/ Cancelled \/ DrainPending \/ FinishHandle
         \/ OnRecoveryReturns \/ (\E ok \in BOOLEAN : OnMessageReturns(ok))
  PROVE  WireTold' /\ LogTold' /\ HeldTold'
<1>1. UNCHANGED <<toClient, srvLog, link>>
  BY DEF Dial, HeartbeatTick, ReadFails, Cancelled, DrainPending, FinishHandle, OnRecoveryReturns,
         OnMessageReturns, server
<1>2. CASE DrainPending
  <2>1. PICK p \in pending : p.seq = expectedIn /\ pending' = pending \ {p} /\ ProcessExpectedLocked(p)
    BY <1>2 DEF DrainPending
  <2>2. run = "up" /\ phase = "drain"
    BY <1>2 DEF DrainPending
  <2>3. Agrees(p, srvLog) /\ p.type # "4" /\ (p.type = "8" => Told(p.body))
    BY DEF Whole, SessionOK, BufferOK, HeldTold
  <2>4. Proceeds(p) /\ expectedIn' = expectedIn + 1
    BY <2>1, <2>2, <2>3, ExpectedProceeds
  <2>5. HeldTold'
    BY <2>1, <2>2, <2>3, <2>4, ProceedsHeld
  <2>6. expectedIn \in Nat /\ expectedIn' \in Nat /\ expectedIn' >= expectedIn
    BY <2>4, WireNumbers
  <2>7. run' # "ended" => run # "ended"
    BY <2>2
  <2>8. WireTold' /\ LogTold'
    BY <1>1, <2>6, <2>7, WireAdvance
  <2> QED
    BY <2>5, <2>8
<1>3. CASE ~DrainPending
  <2>1. /\ expectedIn' = expectedIn /\ pending' = pending /\ run # "ended"
        /\ phase' = "message" => phase = "message" /\ cur' = cur
    BY <1>3 DEF Dial, HeartbeatTick, ReadFails, Cancelled, FinishHandle, OnRecoveryReturns,
                OnMessageReturns, End
  <2> QED
    BY <1>1, <2>1, WireFrame, HeldFrame
<1> QED
  BY <1>2, <1>3

(* No rejection is new: what it said still holds.                          *)
LEMMA RejectsFrame ==
  ASSUME Whole, RejectsTold, Lasting, rejects' > 0 => rejects > 0,
         srvLog' = srvLog \/ (\E x \in Kept : srvLog' = Append(srvLog, x) /\ x.type # "9")
  PROVE  RejectsTold'
<1>1. (\E k \in DOMAIN srvLog' : srvLog'[k].type = "9") => \E k \in DOMAIN srvLog : srvLog[k].type = "9"
  <2>1. CASE srvLog' = srvLog
    BY <2>1
  <2>2. ASSUME NEW x \in Kept, srvLog' = Append(srvLog, x), x.type # "9",
               NEW k \in DOMAIN srvLog', srvLog'[k].type = "9"
        PROVE  k \in DOMAIN srvLog /\ srvLog[k].type = "9"
    <3>1. /\ \A j \in DOMAIN srvLog : srvLog'[j] = srvLog[j]
          /\ srvLog'[Len(srvLog) + 1] = x
          /\ \A j \in DOMAIN srvLog' : (j \in DOMAIN srvLog) \/ j = Len(srvLog) + 1
      <4>1. srvLog \in Seq(Kept)
        BY WireNumbers
      <4> QED
        BY <2>2, <4>1, Appended
    <3> QED
      BY <2>2, <3>1
  <2> QED
    BY <2>1, <2>2
<1> QED
  BY <1>1 DEF RejectsTold, Lasting

(* The server's own traffic says nothing of the write.                     *)
LEMMA ServerEvidence ==
  ASSUME Whole, WireTold, LogTold, HeldTold, RejectsTold, Lasting, rejects' = rejects,
         \/ ServerTakesAdmin \/ ServerTakesOther \/ ServerLoses \/ ServerSpeaks \/ ServerResets
         \/ Breaks
  PROVE  WireTold' /\ LogTold' /\ HeldTold' /\ RejectsTold'
<1>1. /\ UNCHANGED <<run, expectedIn, phase, cur, pending>>
      /\ ServerTakesAdmin \/ ServerTakesOther \/ ServerSpeaks => UNCHANGED link
  BY DEF ServerTakesAdmin, ServerTakesOther, ServerLoses, ServerSpeaks, ServerResets, Breaks, session
<1>2. HeldTold'
  BY <1>1, HeldFrame
<1>3. LogOK /\ InOK /\ faults \in Nat /\ srvIn \in Nat
  BY DEF Whole, SessionOK, CountsOK
<1>4. ASSUME NEW type \in {"A", "1", "2", "3", "5"}, NEW n \in Nat, Emit(type, n, NoBody), link' = link
      PROVE  WireTold' /\ LogTold' /\ RejectsTold'
  <2>1. PICK x \in Kept : /\ srvLog' = Append(srvLog, x) /\ x.type = type
                          /\ toClient' \in {toClient, Append(toClient, x)}
    BY <1>3, <1>4, EmitSays
  <2>2. x.type # "8" /\ x.type # "9"
    BY <2>1
  <2>3. WireTold' /\ LogTold'
    BY <1>1, <1>4, <2>1, <2>2, WireEmit
  <2>4. RejectsTold'
    BY <2>1, <2>2, RejectsFrame
  <2> QED
    BY <2>3, <2>4
<1>5. ASSUME UNCHANGED <<srvLog, toClient>>, link' \in {link, "broken"}
      PROVE  WireTold' /\ LogTold' /\ RejectsTold'
  BY <1>1, <1>5, WireFrame, RejectsFrame
<1>6. CASE ServerTakesAdmin
  <2>1. CASE Emit("A", 0, NoBody)
    BY <1>1, <1>2, <1>4, <1>6, <2>1
  <2>2. CASE UNCHANGED <<srvLog, toClient, faults>>
    BY <1>1, <1>2, <1>5, <1>6, <2>2
  <2>3. CASE Head(toServer).type = "2" /\ Replay(Head(toServer).n) /\ UNCHANGED <<srvLog, faults>>
    <3>1. Head(toServer).n \in Nat \ {0}
      <4>1. Head(toServer) \in Sent
        BY <1>6, Taken DEF ServerTakesAdmin, ServerReads, Whole, SessionOK, OutOK
      <4> QED
        BY <2>3, <4>1 DEF Sent
    <3>2. WireTold' /\ LogTold'
      BY <1>1, <1>6, <2>3, <3>1, WireReplay
    <3>3. RejectsTold'
      BY <2>3, RejectsFrame
    <3> QED
      BY <1>2, <3>2, <3>3
  <2> QED
    BY <1>6, <2>1, <2>2, <2>3 DEF ServerTakesAdmin
<1>7. CASE ServerTakesOther
  <2>1. Emit("2", srvIn, NoBody) \/ UNCHANGED <<srvLog, toClient, faults>>
    BY <1>7 DEF ServerTakesOther
  <2> QED
    BY <1>1, <1>2, <1>3, <1>4, <1>5, <1>7, <2>1
<1>8. CASE ServerSpeaks
  <2>1. PICK type \in {"1", "3", "5"} : Emit(type, 0, NoBody)
    BY <1>8 DEF ServerSpeaks
  <2> QED
    BY <1>1, <1>2, <1>4, <1>8, <2>1
<1>9. CASE ServerLoses \/ Breaks
  <2>1. UNCHANGED <<srvLog, toClient>> /\ link' \in {link, "broken"}
    BY <1>9 DEF ServerLoses, Breaks
  <2> QED
    BY <1>2, <1>5, <2>1
<1>10. CASE ServerResets
  <2>1. WireTold' /\ LogTold'
    BY <1>10, WireReset
  <2>2. \E x \in Kept : srvLog' = Append(srvLog, x) /\ x.type # "9"
    <3>1. \E x \in Kept : srvLog' = Append(srvLog, x) /\ x.type = "8"
      BY <1>3, <1>10, ResetSays
    <3> QED
      BY <3>1
  <2>3. RejectsTold'
    BY <2>2, RejectsFrame
  <2> QED
    BY <1>2, <2>1, <2>3
<1> QED
  BY <1>6, <1>7, <1>8, <1>9, <1>10

(* A report of the venue is told from the start.                           *)
LEMMA ReportEvidence ==
  ASSUME Whole, WireTold, LogTold, RejectsTold, Lasting, UNCHANGED <<run, expectedIn, link, rejects>>,
         NEW status \in {"0", "2", "4", "8"}, Report(status),
         \A r : r.status = status => ToldNext(r)
  PROVE  WireTold' /\ LogTold' /\ RejectsTold'
<1>1. PICK x \in Kept : /\ srvLog' = Append(srvLog, x) /\ x.type = "8" /\ x.body.status = status
                        /\ toClient' \in {toClient, Append(toClient, x)}
  BY ReportSays DEF Whole, SessionOK, CountsOK
<1>2. x.type # "9"
  BY <1>1
<1> QED
  BY <1>1, <1>2, WireEmit, RejectsFrame

(* What the venue says, of the write and of the order's fills.             *)
LEMMA VenueEvidence ==
  ASSUME Whole, CommandOK, OnceInv, WireTold, LogTold, HeldTold, RejectsTold, Lasting,
         VenueTakesRequest \/ VenueFills
  PROVE  WireTold' /\ LogTold' /\ HeldTold' /\ RejectsTold'
<1>1. UNCHANGED <<run, expectedIn, phase, cur, pending, link, rejects, write, at, result>>
  BY DEF VenueTakesRequest, VenueFills, session, command
<1>2. HeldTold'
  BY <1>1, HeldFrame
<1>3. LogOK /\ InOK /\ faults \in Nat
  BY DEF Whole, SessionOK, CountsOK
<1>4. CASE VenueFills
  <2>1. order = "open" /\ executed' = executed
    BY <1>4 DEF VenueFills
  <2>2. write = "D" => executed = 1
    BY <2>1 DEF OnceInv
  <2>3. CASE Report("2")
    <3>1. \A r : r.status = "2" => ToldNext(r)
      BY <1>1, <2>1, <2>2 DEF ToldNext, Fits
    <3> QED
      BY <1>1, <1>2, <2>3, <3>1, ReportEvidence
  <2>4. CASE UNCHANGED <<srvLog, toClient, faults>>
    BY <1>1, <1>2, <2>4, WireFrame, RejectsFrame
  <2> QED
    BY <1>4, <2>3, <2>4 DEF VenueFills
<1>5. CASE VenueTakesRequest
  <2> DEFINE m == Head(toServer)
  <2>1. /\ m.type \in Writes => m.type = write /\ executed = 0
        /\ (Emit("9", 0, NoBody) /\ m.type \in {"G", "F"}) =>
             (executed = 0 /\ ~Early /\ write # "D" /\ \A w \in OutWrites' : w.seq < srvIn')
    BY <1>5, VenueOnce
  <2> HIDE DEF m
  <2>2. CASE m.type = "x" /\ Emit("y", 0, NoBody)
    <3>1. PICK x \in Kept : /\ srvLog' = Append(srvLog, x) /\ x.type = "y"
                            /\ toClient' \in {toClient, Append(toClient, x)}
      BY <1>3, <2>2, EmitSays DEF Answers
    <3>2. x.type # "8" /\ x.type # "9"
      BY <3>1
    <3> QED
      BY <1>1, <1>2, <3>1, <3>2, WireEmit, RejectsFrame
  <2>3. CASE /\ m.type = "D" /\ executed' = executed + 1
             /\ (order' = "open" /\ Report("0")) \/ (order' = "rejected" /\ Report("8"))
    <3>1. write' = "D" /\ executed' = 1
      BY <1>1, <2>1, <2>3 DEF Writes
    <3>2. CASE Report("0")
      <4>1. \A r : r.status = "0" => ToldNext(r)
        BY <3>1 DEF ToldNext, Fits
      <4> QED
        BY <1>1, <1>2, <3>2, <4>1, ReportEvidence
    <3>3. CASE order' = "rejected" /\ Report("8")
      <4>1. \A r : r.status = "8" => ToldNext(r)
        BY <3>1, <3>3 DEF ToldNext, Fits
      <4> QED
        BY <1>1, <1>2, <3>3, <4>1, ReportEvidence
    <3> QED
      BY <2>3, <3>2, <3>3
  <2>4. CASE m.type \in {"G", "F"} /\ (Report("0") \/ Report("4"))
    <3>1. write' # "D"
      BY <1>1, <2>1, <2>4 DEF Writes
    <3>2. ASSUME NEW status \in {"0", "4"}, Report(status)
          PROVE  WireTold' /\ LogTold' /\ RejectsTold'
      <4>1. \A r : r.status = status => ToldNext(r)
        BY <3>1 DEF ToldNext, Fits
      <4> QED
        BY <1>1, <3>2, <4>1, ReportEvidence
    <3> QED
      BY <1>2, <2>4, <3>2
  <2>5. CASE m.type \in {"G", "F"} /\ Emit("9", 0, NoBody) /\ UNCHANGED venue
    <3>1. PICK x \in Kept : /\ srvLog' = Append(srvLog, x) /\ x.type = "9"
                            /\ toClient' \in {toClient, Append(toClient, x)}
      BY <1>3, <2>5, EmitSays DEF Answers
    <3>2. x.type # "8"
      BY <3>1
    <3>3. WireTold' /\ LogTold'
      BY <1>1, <3>1, <3>2, WireEmit
    <3>4. Refused'
      BY <1>1, <2>1, <2>5 DEF Refused, Early, venue
    <3> QED
      BY <1>2, <3>3, <3>4 DEF RejectsTold
  <2> QED
    BY <1>5, <2>2, <2>3, <2>4, <2>5 DEF VenueTakesRequest, m
<1> QED
  BY <1>4, <1>5

(* A refused write is known from the log.                                  *)
LEMMA RejectArrives ==
  ASSUME Whole, RejectsTold, Lasting, CancelRejectArrives
  PROVE  RejectsTold'
<1>1. cur # NoMessage /\ cur.type = "9" /\ srvLog' = srvLog
  BY DEF CancelRejectArrives, OnMessageReturns, Whole, SessionOK, FlagsOK, server
<1>2. cur.seq \in DOMAIN srvLog /\ srvLog[cur.seq].type = "9"
  BY <1>1 DEF Whole, SessionOK, BufferOK, Agrees
<1>3. Refused
  BY <1>2 DEF RejectsTold
<1> QED
  BY <1>3 DEF Lasting, RejectsTold

(* A report is appended to those the command has not read.                 *)
LEMMA ReadFrame ==
  ASSUME CommandOK, ReadTold, Lasting,
         \/ reports' = reports
         \/ reports # <<>> /\ reports' = Tail(reports)
         \/ \E r \in Reports : reports' = Append(reports, r) /\ Told(r)
  PROVE  ReadTold'
<1>1. reports \in Seq(Reports) /\ \A r : Told(r) => ToldNext(r)
  BY DEF CommandOK, Lasting
<1>2. CASE reports' = reports
  BY <1>1, <1>2 DEF ReadTold, Told, ToldNext
<1>3. CASE reports # <<>> /\ reports' = Tail(reports)
  <2>1. \A i \in DOMAIN reports' : i + 1 \in DOMAIN reports /\ reports'[i] = reports[i + 1]
    BY <1>1, <1>3, Taken
  <2>2. \A i \in DOMAIN reports' : ToldNext(reports'[i])
    BY <1>1, <2>1 DEF ReadTold
  <2> QED
    BY <2>2 DEF ReadTold, Told, ToldNext
<1>4. ASSUME NEW r \in Reports, reports' = Append(reports, r), Told(r)
      PROVE  ReadTold'
  <2>1. /\ \A j \in DOMAIN reports : reports'[j] = reports[j]
        /\ reports'[Len(reports) + 1] = r
        /\ \A j \in DOMAIN reports' : (j \in DOMAIN reports) \/ j = Len(reports) + 1
    BY <1>1, <1>4, Appended
  <2>2. \A j \in DOMAIN reports' : ToldNext(reports'[j])
    BY <1>1, <1>4, <2>1 DEF ReadTold
  <2> QED
    BY <2>2 DEF ReadTold, Told, ToldNext
<1> QED
  BY <1>2, <1>3, <1>4

(* A step that leaves the log and what the command was told alone.         *)
LEMMA SilentEvidence ==
  ASSUME Whole, CommandOK, EvidenceInv, Lasting, WireTold', LogTold', HeldTold',
         srvLog' = srvLog, reports' = reports, rejects' > 0 => rejects > 0
  PROVE  EvidenceInv'
<1>1. ReadTold'
  BY ReadFrame DEF EvidenceInv
<1>2. RejectsTold'
  BY RejectsFrame DEF EvidenceInv
<1> QED
  BY <1>1, <1>2 DEF EvidenceInv

(* With the session still, the command at most reads what it was told.     *)
LEMMA CallsRead ==
  ASSUME CommandOK, [Next]_vars, UNCHANGED fixVars
  PROVE  /\ reports' = reports \/ (reports # <<>> /\ reports' = Tail(reports))
         /\ rejects' > 0 => rejects > 0
<1>1. rejects \in {0, 1} /\ UNCHANGED <<phase, toServer>>
  BY DEF CommandOK, fixVars, session
<1>2. CASE UNCHANGED command
  BY <1>2 DEF command
<1>3. CASE \/ LoggedOn \/ RequestSecurityList \/ SecurityListRead \/ GivesUp \/ SendWrite \/ NoAnswer
           \/ Verify \/ CommandCancels \/ SecurityListArrives
  BY <1>3 DEF LoggedOn, RequestSecurityList, SecurityListRead, GivesUp, SendWrite, NoAnswer, Verify,
              CommandCancels, SecurityListArrives, command
<1>4. CASE ReportRead
  BY <1>4 DEF ReportRead
<1>5. CASE RejectRead
  BY <1>5 DEF RejectRead
<1>6. ~ReportArrives /\ ~CancelRejectArrives
  BY <1>1 DEF ReportArrives, CancelRejectArrives, OnMessageReturns, End
<1> QED
  BY <1>2, <1>3, <1>4, <1>5, <1>6 DEF Next, SessionStep, LoopStep, ServerStep, VenueTakesRequest,
                                      VenueFills, CommandStep, vars

(* Every step keeps what is on the way and what is held told.              *)
LEMMA StepEvidence ==
  ASSUME Whole, CommandOK, OnceInv, EvidenceInv, [Next]_vars
  PROVE  EvidenceInv'
<1>1. Lasting /\ WireTold /\ LogTold /\ HeldTold /\ ReadTold /\ RejectsTold
  BY EvidenceLasts DEF EvidenceInv
<1>2. rejects \in {0, 1}
  BY DEF CommandOK
<1>3. ASSUME UNCHANGED <<toClient, srvLog, link, run, expectedIn, phase, cur, pending>>
      PROVE  WireTold' /\ LogTold' /\ HeldTold'
  BY <1>1, <1>3, WireFrame, HeldFrame
<1>4. CASE UNCHANGED fixVars
  <2>1. UNCHANGED <<toClient, srvLog, link, run, expectedIn, phase, cur, pending>>
    BY <1>4 DEF fixVars, session, server
  <2>2. WireTold' /\ LogTold' /\ HeldTold'
    BY <1>3, <2>1
  <2>3. \/ reports' = reports
        \/ reports # <<>> /\ reports' = Tail(reports)
    BY <1>4, CallsRead
  <2>4. rejects' > 0 => rejects > 0
    BY <1>2, <1>4, CallsRead
  <2>5. ReadTold' /\ RejectsTold'
    BY <1>1, <2>1, <2>3, <2>4, ReadFrame, RejectsFrame
  <2> QED
    BY <2>2, <2>5 DEF EvidenceInv
<1>5. CASE SessionStep
  <2>1. srvLog' = srvLog /\ reports' = reports /\ rejects' = rejects
    BY <1>5 DEF SessionStep, Dial, HeartbeatTick, server, command
  <2>2. WireTold' /\ LogTold' /\ HeldTold'
    BY <1>1, <1>5, RunEvidence DEF SessionStep
  <2> QED
    BY <1>1, <2>1, <2>2, SilentEvidence
<1>6. CASE LoopStep
  <2>1. srvLog' = srvLog /\ reports' = reports /\ rejects' = rejects
    BY <1>6 DEF LoopStep, ReadFails, HandleGap, HandleOld, HandleExpected, HandleSequenceReset,
                DrainPending, FinishHandle, OnRecoveryReturns, server, command
  <2>2. WireTold' /\ LogTold' /\ HeldTold'
    BY <1>1, <1>6, RunEvidence, HandleEvidence DEF LoopStep
  <2> QED
    BY <1>1, <2>1, <2>2, SilentEvidence
<1>7. CASE ServerStep
  <2>1. reports' = reports /\ rejects' = rejects
    BY <1>7 DEF ServerStep, command
  <2>2. WireTold' /\ LogTold' /\ HeldTold' /\ RejectsTold'
    BY <1>1, <1>7, <2>1, ServerEvidence DEF ServerStep
  <2>3. ReadTold'
    BY <1>1, <2>1, ReadFrame
  <2> QED
    BY <2>2, <2>3 DEF EvidenceInv
<1>8. CASE VenueTakesRequest \/ VenueFills
  <2>1. reports' = reports
    BY <1>8 DEF VenueTakesRequest, VenueFills, command
  <2>2. WireTold' /\ LogTold' /\ HeldTold' /\ RejectsTold'
    BY <1>1, <1>8, VenueEvidence
  <2>3. ReadTold'
    BY <1>1, <2>1, ReadFrame
  <2> QED
    BY <2>2, <2>3 DEF EvidenceInv
<1>9. CASE CommandStep
  <2>1. CASE LoggedOn \/ SecurityListRead \/ GivesUp \/ ReportRead \/ RejectRead \/ NoAnswer \/ Verify
    BY <1>4, <2>1 DEF LoggedOn, SecurityListRead, GivesUp, ReportRead, RejectRead, NoAnswer, Verify,
                      Local
  <2>2. CASE RequestSecurityList \/ SendWrite
    <3>1. CASE SendRefused \/ SendFails
      BY <1>4, <3>1 DEF SendRefused, SendFails
    <3>2. CASE SendSucceeds("x") \/ SendSucceeds(write)
      <4>1. "x" \in Requests /\ write \in Requests
        BY DEF CommandOK, Writes, Requests
      <4>2. UNCHANGED <<toClient, srvLog, link, run, expectedIn, phase, cur, pending>>
        BY <3>2, <4>1, SendWhole
      <4>3. reports' = reports /\ rejects' = rejects
        BY <2>2 DEF RequestSecurityList, SendWrite
      <4> QED
        BY <1>1, <1>3, <4>2, <4>3, SilentEvidence
    <3> QED
      BY <2>2, <3>1, <3>2 DEF RequestSecurityList, SendWrite
  <2>3. CASE CommandCancels
    <3>1. Cancelled /\ srvLog' = srvLog /\ reports' = reports /\ rejects' = rejects
      BY <2>3 DEF CommandCancels, Cancelled, server, command
    <3> QED
      BY <1>1, <3>1, RunEvidence, SilentEvidence
  <2>4. CASE SecurityListArrives
    <3>1. srvLog' = srvLog /\ reports' = reports /\ rejects' = rejects /\ OnMessageReturns(TRUE)
      BY <2>4 DEF SecurityListArrives, OnMessageReturns, server
    <3> QED
      BY <1>1, <3>1, RunEvidence, SilentEvidence
  <2>5. CASE ReportArrives
    <3> DEFINE ok == quantity /\ cur.body.form # "bad" /\ Len(reports) < ReportQueue
    <3>1. /\ OnMessageReturns(ok) /\ ok \in BOOLEAN /\ phase = "message" /\ cur.type = "8"
          /\ reports' = reports \/ reports' = Append(reports, cur.body)
          /\ srvLog' = srvLog /\ rejects' = rejects
      BY <2>5 DEF ReportArrives, OnMessageReturns, server
    <3> HIDE DEF ok
    <3>2. cur.body \in Reports /\ Told(cur.body)
      <4>1. Told(cur.body) /\ cur # NoMessage
        BY <1>1, <3>1 DEF HeldTold, Whole, SessionOK, FlagsOK
      <4>2. cur.seq \in DOMAIN srvLog /\ srvLog[cur.seq].type = "8" /\ cur.body = srvLog[cur.seq].body
        BY <3>1, <4>1 DEF Whole, SessionOK, BufferOK, Agrees
      <4> QED
        BY <4>1, <4>2 DEF Whole, SessionOK, LogOK
    <3>3. WireTold' /\ LogTold' /\ HeldTold'
      BY <1>1, <3>1, RunEvidence
    <3>4. ReadTold' /\ RejectsTold'
      BY <1>1, <3>1, <3>2, ReadFrame, RejectsFrame
    <3> QED
      BY <3>3, <3>4 DEF EvidenceInv
  <2>6. CASE CancelRejectArrives
    <3>1. OnMessageReturns(rejects = 0) /\ (rejects = 0) \in BOOLEAN /\ reports' = reports
      BY <2>6 DEF CancelRejectArrives
    <3>2. WireTold' /\ LogTold' /\ HeldTold'
      BY <1>1, <3>1, RunEvidence
    <3>3. ReadTold' /\ RejectsTold'
      BY <1>1, <2>6, <3>1, ReadFrame, RejectArrives
    <3> QED
      BY <3>2, <3>3 DEF EvidenceInv
  <2> QED
    BY <1>9, <2>1, <2>2, <2>3, <2>4, <2>5, <2>6 DEF CommandStep
<1> QED
  BY <1>4, <1>5, <1>6, <1>7, <1>8, <1>9 DEF Next, vars

(* At first nothing is said.                                               *)
LEMMA InitEvidence == Init => EvidenceInv
<1> SUFFICES ASSUME Init  PROVE EvidenceInv
  OBVIOUS
<1>1. /\ toClient = <<>> /\ srvLog = <<>> /\ reports = <<>> /\ rejects = 0 /\ phase = "idle"
      /\ pending = {}
  BY DEF Init, FixInit
<1>2. DOMAIN <<>> = {}
  OBVIOUS
<1> QED
  BY <1>1, <1>2 DEF EvidenceInv, WireTold, LogTold, HeldTold, ReadTold, RejectsTold

(* Together with the session, the command and the single write.            *)
THEOREM EvidenceHolds == Spec => [](Whole /\ CommandOK /\ OnceInv /\ EvidenceInv)
<1>1. Init => EvidenceInv
  BY InitEvidence
<1>2. Whole /\ CommandOK /\ OnceInv /\ EvidenceInv /\ [Next]_vars => EvidenceInv'
  BY StepEvidence
<1> QED
  BY <1>1, <1>2, OnceHolds, PTL DEF Spec

-----------------------------------------------------------------------------
(* What the command returns.                                               *)

(* Each result rests on what the venue did and cannot undo.                *)
ResultInv ==
  /\ result = "accepted" => executed = 1
  /\ (result = "rejected" /\ write = "D") => (order = "rejected" /\ executed = 1)
  /\ (result = "rejected" /\ write # "D") => Refused
  /\ (result = "verified" /\ write = "G") => amended
  /\ (result = "verified" /\ write = "F") => order \in {"cancelled", "filled"}

(* What the venue did it does not undo.                                    *)
LEMMA VenueLasts ==
  ASSUME Whole, CommandOK, OnceInv, [Next]_vars
  PROVE  /\ executed = 1 => executed' = 1
         /\ (executed = 1 /\ order = "rejected") => order' = "rejected"
         /\ amended => amended'
         /\ (write = "F" /\ order \in {"cancelled", "filled"}) => order' \in {"cancelled", "filled"}
<1>1. CASE VenueTakesRequest
  <2>1. /\ executed = 1 => UNCHANGED venue
        /\ Head(toServer).type \in Writes => Head(toServer).type = write /\ executed = 0
    BY <1>1, VenueOnce
  <2>2. amended => amended'
    BY <1>1 DEF VenueTakesRequest, venue
  <2>3. (write = "F" /\ order \in {"cancelled", "filled"}) => order' = order
    BY <1>1, <2>1 DEF VenueTakesRequest, venue, Writes
  <2> QED
    BY <2>1, <2>2, <2>3 DEF venue
<1>2. CASE ~VenueTakesRequest
  BY <1>2, CommandFrame
<1> QED
  BY <1>1, <1>2

(* A result that stands keeps its ground.                                  *)
LEMMA ResultLasts ==
  ASSUME Whole, CommandOK, OnceInv, EvidenceInv, ResultInv, [Next]_vars, result' = result
  PROVE  ResultInv'
<1>1. write' = write /\ (Refused => Refused')
  BY CommandTypes, EvidenceLasts DEF Lasting
<1> QED
  BY <1>1, VenueLasts DEF ResultInv

(* A step that returns an answer has the venue's word or its own read.     *)
LEMMA ResultMade ==
  ASSUME Whole, CommandOK, OnceInv, EvidenceInv, [Next]_vars, result' # result
  PROVE  ResultInv'
<1>1. write' = write /\ (Refused => Refused') /\ (\A r : Told(r) => ToldNext(r)) /\ write \in Writes
  BY CommandTypes, EvidenceLasts DEF Lasting, CommandOK
<1>2. CASE RequestSecurityList \/ SecurityListRead \/ GivesUp \/ SendWrite \/ NoAnswer
  <2>1. result' \in {"notsent", "unknown"}
    BY <1>2 DEF RequestSecurityList, SecurityListRead, GivesUp, SendWrite, NoAnswer, Returns
  <2> QED
    BY <2>1 DEF ResultInv
<1>3. CASE ReportRead
  <2> DEFINE r == ReportOutcome(Head(reports))
  <2>1. result' = r /\ (r = "accepted" => write = "D") /\ UNCHANGED venue /\ reports # <<>>
    BY <1>3 DEF ReportRead, Returns, Local
  <2>2. Told(Head(reports))
    <3>1. 1 \in DOMAIN reports /\ Head(reports) = reports[1]
      BY <2>1, Taken DEF CommandOK
    <3> QED
      BY <3>1 DEF EvidenceInv, ReadTold
  <2>3. /\ r \in {"unknown", "rejected", "accepted"}
        /\ r = "rejected" => Head(reports).status = "8"
    BY DEF ReportOutcome
  <2>4. /\ r = "accepted" => executed = 1
        /\ r = "rejected" => write = "D" /\ executed = 1 /\ order = "rejected"
    BY <2>1, <2>2, <2>3 DEF Told, Fits
  <2> HIDE DEF r
  <2> QED
    BY <1>1, <2>1, <2>3, <2>4 DEF ResultInv, venue
<1>4. CASE RejectRead
  <2>1. result' = "rejected" /\ rejects > 0
    BY <1>4 DEF RejectRead, Returns
  <2>2. Refused /\ write # "D"
    BY <2>1 DEF EvidenceInv, RejectsTold, Refused
  <2> QED
    BY <1>1, <2>1, <2>2 DEF ResultInv
<1>5. CASE Verify
  <2>1. /\ UNCHANGED venue
        /\ \/ write = "G" /\ amended /\ result' = "verified"
           \/ write = "F" /\ order \in {"cancelled", "filled"} /\ result' = "verified"
           \/ result' = "unverified"
    BY <1>5 DEF Verify, Returns, Local
  <2> QED
    BY <1>1, <2>1 DEF ResultInv, venue
<1>6. CASE \/ LoggedOn \/ CommandCancels \/ SecurityListArrives \/ ReportArrives \/ CancelRejectArrives
  <2>1. result' = result
    BY <1>6 DEF LoggedOn, CommandCancels, SecurityListArrives, ReportArrives, CancelRejectArrives,
                command
  <2> QED
    BY <2>1
<1>7. ~UNCHANGED command
  BY DEF command
<1> QED
  BY <1>2, <1>3, <1>4, <1>5, <1>6, <1>7 DEF Next, SessionStep, LoopStep, ServerStep, VenueTakesRequest,
                                            VenueFills, CommandStep, vars

(* Together with all it rests on.                                          *)
THEOREM ResultHolds == Spec => [](OnceInv /\ ResultInv)
<1>1. Init => ResultInv
  <2>1. Init => result = "none"
    BY DEF Init
  <2> QED
    BY <2>1 DEF ResultInv
<1>2. Whole /\ CommandOK /\ OnceInv /\ EvidenceInv /\ ResultInv /\ [Next]_vars => ResultInv'
  BY ResultLasts, ResultMade
<1> QED
  BY <1>1, <1>2, EvidenceHolds, PTL DEF Spec

(* What placeDeribitFIX, amendDeribitFIX and cancelDeribitFIX tell the     *)
(* user is true of the venue, whichever report was taken for the answer    *)
(* and whatever was lost, replayed or reset over.                          *)
THEOREM ResultsAreTrue == Spec => []ResultIsTrue
<1>1. OnceInv /\ ResultInv => ResultIsTrue
  <2>1. ASSUME OnceInv, result = "notsent"  PROVE executed = 0
    BY <2>1 DEF OnceInv, Early
  <2>2. Refused => executed = 0
    BY DEF Refused
  <2> QED
    BY <2>1, <2>2 DEF ResultInv, ResultIsTrue
<1> QED
  BY <1>1, ResultHolds, PTL

=============================================================================
