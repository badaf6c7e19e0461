------------------------- MODULE CFTExampleProofs --------------------------
(***************************************************************************)
(* Proofs about the ContentFilteredTopic example (CFTExample): the type   *)
(* invariant for every value of the constants, and, when the subscriber   *)
(* polls at least twice per publishing period, the subscriber's verdict    *)
(* and the reader never losing an unread quote.                            *)
(*                                                                         *)
(* CInv is the inductive invariant for TypeOK: what each program's control *)
(* state says about its locals, what the store and the reader cache can    *)
(* hold, the clock discipline of both sleeps, and the count of quotes the *)
(* subscriber can have taken. DInv adds what delivery needs: a reader     *)
(* created before the first quote takes every quote before the next one   *)
(* is written, and the terminator within one tick.                         *)
(***************************************************************************)
EXTENDS CFTExample, TLAPS

\* The code sleeps 1000 ms per round and 200 ms per poll: a subscriber
\* launched before the first quote polls at least once between two writes.
PollsBetweenWrites == PubPeriod >= 2

(* An unread, valid quote (not a terminator) in the reader cache.          *)
Pending == IF cache # None /\ cache.valid /\ ~cache.term THEN 1 ELSE 0

Closed == pub.pc \in {"closing", "done"}

Requested == sub.requested_ticker

(* Control state and locals: an idle program has its initial locals.       *)
Shapes ==
  /\ sub.pc = "idle" => sub = SubInit /\ cache = None
  /\ pub.pc = "idle" => pub.i = 0
  /\ Closed => pub.i = Rounds /\ pub.termAt =< now

(* The store keeps the last quote of each ticker, a terminator only once   *)
(* the loop has ended; the cache holds samples of the requested ticker.    *)
Contents ==
  /\ pub.i = 0 => \A t \in Tickers : store[t] = None
  /\ \A t \in Tickers : store[t] \in {None, Quote(t, FALSE), Quote(t, TRUE)}
  /\ \A t \in Tickers : store[t] = Quote(t, TRUE) => Closed
  /\ cache \in {None, Quote(Requested, FALSE), Quote(Requested, TRUE),
                Disposed(Requested)}
  /\ cache # None /\ cache.valid /\ cache.term => Closed
  /\ Requested \notin Tickers => cache = None /\ ~sub.terminate_sample_received

(* Both sleeps: a due step is never skipped, the subscriber polls every    *)
(* tick from its start, and it returns at its last poll's tick.            *)
Clock ==
  /\ pub.pc \in {"writing", "closing"} => now =< pub.due
  /\ sub.pc = "polling" =>
       /\ now =< sub.due /\ sub.due =< now + 1
       /\ sub.due = sub.startAt + sub.count
       /\ sub.result = 0
  /\ sub.pc = "done" /\ Requested # NoArg =>
       /\ sub.startAt + sub.count =< now
       /\ sub.result = 0 <=> sub.terminate_sample_received
                             /\ sub.correct_quote_count = ExpectedCount
       /\ ~sub.terminate_sample_received => sub.count = MaxPolls

(* Quotes counted and pending are quotes written, at most one of them     *)
(* before the reader was created (the one the store hands over).          *)
Counts ==
  /\ sub.correct_quote_count + Pending =< pub.i
  /\ sub.correct_quote_count + Pending + sub.joined =< pub.i + 1

CInv == TypeOK /\ Shapes /\ Contents /\ Clock /\ Counts

(* Delivery to a reader created before the first quote (joined = 0).     *)
(* Every quote written is counted or pending:                              *)
CountedAll ==
  sub.pc = "polling" /\ sub.joined = 0 /\ Requested \in Tickers =>
    sub.correct_quote_count + Pending = pub.i

(* a pending quote is taken before the publisher's next write is due:      *)
TakenBeforeNext ==
  sub.pc = "polling" /\ sub.joined = 0 /\ Pending = 1 /\ pub.pc = "writing" =>
    sub.due < pub.due

(* once the terminator is written, it waits in the cache for a poll that  *)
(* comes at most one tick later, or the poll budget ended by then:         *)
TerminatorWaits ==
  Requested \in Tickers /\ sub.joined = 0 /\ Closed /\ sub.pc # "idle"
  /\ ~sub.terminate_sample_received =>
    /\ sub.startAt + sub.count =< pub.termAt + 1
    /\ sub.pc = "polling" => cache = Quote(Requested, TRUE)

(* and the subscriber that took the terminator has counted every round.    *)
CountComplete ==
  sub.terminate_sample_received /\ sub.joined = 0 /\ Requested \in Tickers =>
    sub.correct_quote_count = Rounds

Delivery == CountedAll /\ TakenBeforeNext /\ TerminatorWaits /\ CountComplete

DInv == CInv /\ Delivery

-----------------------------------------------------------------------------

(* The record types of TypeOK, named for the proofs.                       *)
PubType == [pc : {"idle", "writing", "closing", "done"}, i : 0..Rounds,
            due : Nat, termAt : Nat]

SubType == [pc : {"idle", "polling", "done"}, requested_ticker : Args,
            count : 0..MaxPolls, terminate_sample_received : BOOLEAN,
            correct_quote_count : 0..Rounds, result : {-1, 0, 1},
            due : Nat, startAt : Nat, joined : 0..Rounds]

LEMMA QuoteType ==
  ASSUME NEW t \in Tickers, NEW b \in BOOLEAN
  PROVE  /\ Quote(t, b) \in Sample /\ Quote(t, b) # None
         /\ Disposed(t) \in Sample /\ Disposed(t) # None
<1>1. Quote(t, b) \in Sample /\ Disposed(t) \in Sample
  BY DEF Quote, Disposed, Sample
<1>2. QED
  BY <1>1, NoneAssumption

LEMMA CInvInit == Init => CInv
<1> SUFFICES ASSUME Init PROVE CInv
  OBVIOUS
<1>1. TypeOK
  BY CFTAssumption DEF Init, TypeOK, PubInit, SubInit, Args, Sample
<1>2. Shapes /\ Clock
  BY DEF Init, Shapes, Clock, PubInit, SubInit, Closed, Requested
<1>3. \A t \in Tickers : store[t] # Quote(t, TRUE)
  BY QuoteType DEF Init
<1>7. \A t \in Tickers : store[t] \in {None, Quote(t, FALSE), Quote(t, TRUE)}
  BY DEF Init
<1>8. cache \in {None, Quote(Requested, FALSE), Quote(Requested, TRUE),
                Disposed(Requested)}
  BY DEF Init
<1>9. Requested \notin Tickers => cache = None /\ ~sub.terminate_sample_received
  BY DEF Init, SubInit, Requested
<1>10. cache = None
  BY DEF Init
<1>6. Contents
  BY <1>3, <1>7, <1>8, <1>9, <1>10 DEF Init, Contents, PubInit
<1>4. Counts
  BY DEF Init, Counts, PubInit, SubInit, Pending
<1>5. QED
  BY <1>1, <1>2, <1>6, <1>4 DEF CInv

(* dw << quote: every instance's last sample in the store is the quote,   *)
(* and the reader's cache takes it when its filter admits the ticker.      *)
LEMMA WriteAllEffect ==
  ASSUME NEW term \in BOOLEAN, WriteAll(term)
  PROVE  /\ store' = [t \in Tickers |-> Quote(t, term)]
         /\ cache' = IF sub.pc = "polling" /\ Requested \in Tickers
                        THEN Quote(Requested, term) ELSE cache
BY DEF WriteAll, Admits, Requested

LEMMA QuoteFields ==
  ASSUME NEW t \in Tickers, NEW b \in BOOLEAN
  PROVE  /\ Quote(t, b).valid /\ Quote(t, b).term = b
         /\ Quote(t, b).ticker = t
         /\ Quote(t, FALSE) # Quote(t, TRUE)
         /\ ~Disposed(t).valid /\ Disposed(t).ticker = t
BY DEF Quote, Disposed

(* take() on the reader: what one poll does to the subscriber's locals.   *)
LEMMA PollEffect ==
  ASSUME CInv, SubPoll
  PROVE  /\ sub.pc = "polling" /\ sub.due = now
         /\ sub.count < MaxPolls /\ ~sub.terminate_sample_received
         /\ cache' = None /\ UNCHANGED <<now, pub, store>>
         /\ sub' \in SubType
         /\ sub'.pc = "polling" /\ sub'.requested_ticker = sub.requested_ticker
         /\ sub'.count = sub.count + 1 /\ sub'.due = now + 1
         /\ sub'.startAt = sub.startAt /\ sub'.joined = sub.joined
         /\ sub'.result = 0
         /\ sub'.correct_quote_count = sub.correct_quote_count + Pending
         /\ sub'.terminate_sample_received =
              (cache # None /\ cache.valid /\ cache.term)
<1> USE CFTAssumption
<1>9. TypeOK /\ Shapes /\ Contents /\ Clock /\ Counts
  BY DEF CInv
<1>0. /\ sub.pc = "polling" /\ sub.due = now
      /\ sub.count < MaxPolls /\ ~sub.terminate_sample_received
      /\ cache' = None
      /\ UNCHANGED <<now, pub, store>>
      /\ sub' = [sub EXCEPT
                  !.terminate_sample_received =
                     @ \/ (cache # None /\ cache.valid /\ cache.term),
                  !.correct_quote_count =
                     IF cache # None /\ cache.valid /\ ~cache.term
                        /\ cache.ticker = sub.requested_ticker
                       THEN @ + 1 ELSE @,
                  !.result =
                     IF cache # None /\ cache.valid /\ ~cache.term
                        /\ cache.ticker # sub.requested_ticker
                       THEN 1 ELSE @,
                  !.count = @ + 1,
                  !.due = now + 1]
  BY DEF SubPoll, Poll, SubLooping
<1>1. \/ cache = None
      \/ Requested \in Tickers /\ cache.ticker = Requested
  <2>1. Requested \notin Tickers => cache = None
    BY <1>9 DEF Contents
  <2>2. cache \in {None, Quote(Requested, FALSE), Quote(Requested, TRUE),
                   Disposed(Requested)}
    BY <1>9 DEF Contents
  <2>3. CASE Requested \in Tickers
    <3>1. /\ Quote(Requested, FALSE).ticker = Requested
          /\ Quote(Requested, TRUE).ticker = Requested
          /\ Disposed(Requested).ticker = Requested
      BY <2>3, QuoteFields
    <3>2. QED
      BY <2>2, <2>3, <3>1 DEF Requested
  <2>4. QED
    BY <2>1, <2>3
<1>2. /\ sub \in SubType /\ now \in Nat /\ pub.i \in 0..Rounds
      /\ Pending \in {0, 1}
      /\ sub.correct_quote_count + Pending =< pub.i
      /\ sub.due = sub.startAt + sub.count /\ sub.result = 0
  BY <1>9, <1>0 DEF TypeOK, SubType, Counts, Pending, Clock
<1>11. /\ (cache # None /\ cache.valid /\ ~cache.term
          /\ cache.ticker = sub.requested_ticker) <=> Pending = 1
       /\ ~(cache # None /\ cache.valid /\ ~cache.term
            /\ cache.ticker # sub.requested_ticker)
  BY <1>1 DEF Pending, Requested
<1>12. /\ sub.correct_quote_count + Pending \in 0..Rounds
       /\ sub.count + 1 \in 0..MaxPolls /\ now + 1 \in Nat
       /\ sub.correct_quote_count \in Nat /\ sub.joined \in Nat
  BY <1>0, <1>2 DEF SubType
<1>4. /\ sub'.pc = "polling" /\ sub'.requested_ticker = sub.requested_ticker
      /\ sub'.count = sub.count + 1 /\ sub'.due = now + 1
      /\ sub'.startAt = sub.startAt /\ sub'.joined = sub.joined
      /\ sub'.result = 0
      /\ sub'.correct_quote_count = sub.correct_quote_count + Pending
      /\ sub'.terminate_sample_received =>
           cache # None /\ cache.valid /\ cache.term
  <2>1. /\ sub'.pc = "polling"
        /\ sub'.requested_ticker = sub.requested_ticker
        /\ sub'.count = sub.count + 1 /\ sub'.due = now + 1
        /\ sub'.startAt = sub.startAt /\ sub'.joined = sub.joined
    BY <1>0, <1>2 DEF SubType
  <2>2. sub'.result = 0
    BY <1>0, <1>2, <1>11 DEF SubType
  <2>3. sub'.correct_quote_count = sub.correct_quote_count + Pending
    BY <1>0, <1>2, <1>11 DEF SubType
  <2>4. sub'.terminate_sample_received =>
           cache # None /\ cache.valid /\ cache.term
    BY <1>0, <1>2 DEF SubType
  <2>5. QED
    BY <2>1, <2>2, <2>3, <2>4
<1>3. /\ (IF cache # None /\ cache.valid /\ ~cache.term
           /\ cache.ticker = sub.requested_ticker
          THEN sub.correct_quote_count + 1
          ELSE sub.correct_quote_count) \in 0..Rounds
      /\ (IF cache # None /\ cache.valid /\ ~cache.term
           /\ cache.ticker # sub.requested_ticker
          THEN 1 ELSE sub.result) \in {-1, 0, 1}
  BY <1>2, <1>11, <1>12
<1>5. sub' \in SubType
  BY <1>0, <1>2, <1>3, <1>12 DEF SubType
<1>6. sub'.terminate_sample_received =
        (cache # None /\ cache.valid /\ cache.term)
  BY <1>0, <1>2 DEF SubType
<1>7. QED
  BY <1>0, <1>4, <1>5, <1>6

LEMMA CInvStep == CInv /\ [Next]_vars => CInv'
<1> SUFFICES ASSUME CInv, [Next]_vars PROVE CInv'
  OBVIOUS
<1> USE CFTAssumption
<1>0. TypeOK /\ Shapes /\ Contents /\ Clock /\ Counts
  BY DEF CInv
<1>1. CASE PubStart
  <2>1. TypeOK'
    BY <1>0, <1>1, QuoteType DEF PubStart, TypeOK, Shapes, Contents, Clock, Counts, Pending, Closed, Requested, Args, ExpectedCount
  <2>2. Shapes'
    BY <1>0, <1>1, QuoteType DEF PubStart, TypeOK, Shapes, Contents, Clock, Counts, Pending, Closed, Requested, Args, ExpectedCount
  <2>3. Contents'
    BY <1>0, <1>1, QuoteType DEF PubStart, TypeOK, Shapes, Contents, Clock, Counts, Pending, Closed, Requested, Args, ExpectedCount
  <2>4. Clock'
    BY <1>0, <1>1, QuoteType DEF PubStart, TypeOK, Shapes, Contents, Clock, Counts, Pending, Closed, Requested, Args, ExpectedCount
  <2>5. Counts'
    BY <1>0, <1>1, QuoteType DEF PubStart, TypeOK, Shapes, Contents, Clock, Counts, Pending, Closed, Requested, Args, ExpectedCount
  <2>6. QED
    BY <2>1, <2>2, <2>3, <2>4, <2>5 DEF CInv
<1>2. CASE PubWrite
  <2>0. /\ pub.pc = "writing" /\ pub.due = now /\ pub.i < Rounds
        /\ pub' = [pub EXCEPT !.i = @ + 1, !.due = now + PubPeriod]
        /\ UNCHANGED <<now, sub>>
        /\ store' = [t \in Tickers |-> Quote(t, FALSE)]
        /\ cache' = IF sub.pc = "polling" /\ Requested \in Tickers
                       THEN Quote(Requested, FALSE) ELSE cache
    BY <1>2, WriteAllEffect DEF PubWrite
  <2>1. /\ store' \in [Tickers -> Sample \cup {None}]
        /\ \A t \in Tickers : store'[t] = Quote(t, FALSE)
        /\ \A t \in Tickers : store'[t] # Quote(t, TRUE)
    BY <2>0, QuoteType, QuoteFields
  <2>7. /\ pub'.i = pub.i + 1 /\ pub'.i # 0 /\ pub'.pc = pub.pc
        /\ pub'.due = now + PubPeriod
    BY <1>0, <2>0 DEF TypeOK
  <2>13. pub \in PubType /\ pub.i + 1 \in 0..Rounds /\ now + PubPeriod \in Nat
    BY <1>0, <2>0 DEF TypeOK, PubType
  <2>8. pub' \in [pc : {"idle", "writing", "closing", "done"}, i : 0..Rounds,
                  due : Nat, termAt : Nat]
    BY <2>0, <2>13 DEF PubType
  <2>9. Pending \in {0, 1}
    BY DEF Pending
  <2>2. /\ pub'.i = pub.i + 1 /\ pub'.i # 0 /\ pub'.pc = pub.pc
        /\ pub' \in [pc : {"idle", "writing", "closing", "done"}, i : 0..Rounds,
                     due : Nat, termAt : Nat]
        /\ Pending \in {0, 1}
    BY <2>7, <2>8, <2>9
  <2>10. sub.pc # "polling" => cache' = cache
    BY <2>0
  <2>11. Shapes'
    BY <1>0, <2>0, <2>7, <2>10 DEF Shapes, Closed
  <2>12. Clock'
    BY <1>0, <2>0, <2>7 DEF Clock, Requested, ExpectedCount, TypeOK
  <2>3. Shapes' /\ Clock'
    BY <2>11, <2>12
  <2>4. CASE sub.pc = "polling" /\ Requested \in Tickers
    <3>1. /\ cache' = Quote(Requested', FALSE)
          /\ cache' \in Sample /\ cache' # None
          /\ cache'.valid /\ ~cache'.term
      BY <2>0, <2>4, QuoteType, QuoteFields DEF Requested
    <3>2. Pending' = 1
      BY <3>1 DEF Pending
    <3>3. TypeOK'
      BY <1>0, <2>0, <2>1, <2>2, <3>1 DEF TypeOK
    <3>4. Contents'
      BY <2>0, <2>1, <2>2, <2>4, <3>1 DEF Contents, Requested
    <3>5. Counts'
      BY <1>0, <2>0, <2>2, <3>2 DEF Counts, TypeOK
    <3>6. QED
      BY <2>3, <3>3, <3>4, <3>5 DEF CInv
  <2>5. CASE ~(sub.pc = "polling" /\ Requested \in Tickers)
    <3>1. cache' = cache /\ Pending' = Pending
      BY <2>0, <2>5 DEF Pending
    <3>2. TypeOK'
      BY <1>0, <2>0, <2>1, <2>2, <3>1 DEF TypeOK
    <3>3. Contents'
      BY <1>0, <2>0, <2>1, <2>2, <3>1 DEF Contents, Closed, Requested
    <3>4. Counts'
      BY <1>0, <2>0, <2>2, <3>1 DEF Counts, TypeOK
    <3>5. QED
      BY <2>3, <3>2, <3>3, <3>4 DEF CInv
  <2>6. QED
    BY <2>4, <2>5
<1>3. CASE PubTerminate
  <2>0. /\ pub.pc = "writing" /\ pub.due = now /\ pub.i >= Rounds
        /\ pub' = [pub EXCEPT !.pc = "closing", !.due = now + PubPeriod,
                                !.termAt = now]
        /\ UNCHANGED <<now, sub>>
        /\ store' = [t \in Tickers |-> Quote(t, TRUE)]
        /\ cache' = IF sub.pc = "polling" /\ Requested \in Tickers
                       THEN Quote(Requested, TRUE) ELSE cache
    BY <1>3, WriteAllEffect DEF PubTerminate
  <2>1. /\ store' \in [Tickers -> Sample \cup {None}]
        /\ \A t \in Tickers : store'[t] = Quote(t, TRUE)
    BY <2>0, QuoteType, QuoteFields
  <2>7. /\ pub'.i = Rounds /\ pub.i = Rounds /\ pub'.pc = "closing"
        /\ pub'.termAt = now /\ pub'.due = now + PubPeriod
    BY <1>0, <2>0 DEF TypeOK
  <2>13. /\ pub \in PubType /\ now \in Nat /\ now + PubPeriod \in Nat
         /\ Pending \in {0, 1}
         /\ sub.correct_quote_count \in Nat /\ sub.joined \in Nat
    BY <1>0 DEF TypeOK, PubType, Pending
  <2>8. pub' \in [pc : {"idle", "writing", "closing", "done"}, i : 0..Rounds,
                  due : Nat, termAt : Nat]
    BY <2>0, <2>13 DEF PubType
  <2>2. /\ pub'.i = Rounds /\ pub.i = Rounds /\ Closed' /\ pub'.termAt = now
        /\ pub' \in [pc : {"idle", "writing", "closing", "done"}, i : 0..Rounds,
                     due : Nat, termAt : Nat]
    BY <2>7, <2>8 DEF Closed
  <2>10. sub.pc # "polling" => cache' = cache
    BY <2>0
  <2>14. (sub.pc = "idle" => sub = SubInit /\ cache = None)'
    BY <1>0, <2>0, <2>10 DEF Shapes
  <2>15. (Closed => pub.i = Rounds /\ pub.termAt =< now)'
    BY <2>0, <2>7, <2>13
  <2>11. Shapes'
    BY <2>7, <2>14, <2>15 DEF Shapes, Closed
  <2>12. Clock'
    BY <1>0, <2>0, <2>7 DEF Clock, Requested, ExpectedCount, TypeOK
  <2>3. Shapes' /\ Clock'
    BY <2>11, <2>12
  <2>4. CASE sub.pc = "polling" /\ Requested \in Tickers
    <3>1. /\ cache' = Quote(Requested', TRUE)
          /\ cache' \in Sample /\ cache' # None
          /\ cache'.valid /\ cache'.term
      BY <2>0, <2>4, QuoteType, QuoteFields DEF Requested
    <3>2. Pending' = 0
      BY <3>1 DEF Pending
    <3>3. TypeOK'
      BY <1>0, <2>0, <2>1, <2>2, <3>1 DEF TypeOK
    <3>4. Contents'
      BY <2>0, <2>1, <2>2, <2>4, <3>1 DEF Contents, Requested
    <3>5. Counts'
      BY <1>0, <2>0, <2>7, <2>13, <3>2 DEF Counts
    <3>6. QED
      BY <2>3, <3>3, <3>4, <3>5 DEF CInv
  <2>5. CASE ~(sub.pc = "polling" /\ Requested \in Tickers)
    <3>1. cache' = cache /\ Pending' = Pending
      BY <2>0, <2>5 DEF Pending
    <3>2. TypeOK'
      BY <1>0, <2>0, <2>1, <2>2, <3>1 DEF TypeOK
    <3>3. Contents'
      BY <1>0, <2>0, <2>1, <2>2, <3>1 DEF Contents, Requested
    <3>4. Counts'
      BY <1>0, <2>0, <2>2, <3>1 DEF Counts, TypeOK
    <3>5. QED
      BY <2>3, <3>2, <3>3, <3>4 DEF CInv
  <2>6. QED
    BY <2>4, <2>5
<1>4. CASE PubExit
  <2>0. /\ pub.pc = "closing"
        /\ pub' = [pub EXCEPT !.pc = "done"]
        /\ UNCHANGED <<now, sub>>
        /\ store' = [t \in Tickers |-> None] \/ UNCHANGED store
        /\ cache' = IF sub.pc = "polling" /\ Requested \in Tickers
                       /\ cache = None
                       THEN Disposed(Requested) ELSE cache
    BY <1>4 DEF PubExit, Admits, Requested
  <2>1. /\ Pending' = Pending
        /\ cache' \in Sample \cup {None}
        /\ cache' \in {None, Quote(Requested, FALSE), Quote(Requested, TRUE),
                       Disposed(Requested)}
        /\ cache' # None /\ cache'.valid => cache' = cache
    BY <1>0, <2>0, QuoteType, QuoteFields DEF Pending, Contents, TypeOK,
                                               Requested
  <2>2. /\ store' \in [Tickers -> Sample \cup {None}]
        /\ \A t \in Tickers : store'[t] \in {None, Quote(t, FALSE), Quote(t, TRUE)}
        /\ Closed' /\ pub'.i = pub.i
        /\ pub' \in [pc : {"idle", "writing", "closing", "done"}, i : 0..Rounds,
                     due : Nat, termAt : Nat]
    BY <1>0, <2>0 DEF TypeOK, Contents, Closed
  <2>3. TypeOK'
    BY <1>0, <2>0, <2>1, <2>2 DEF TypeOK
  <2>4. Shapes' /\ Clock'
    BY <1>0, <2>0, <2>2 DEF Shapes, Clock, Closed, Requested, ExpectedCount
  <2>5. Contents'
    BY <1>0, <2>0, <2>1, <2>2 DEF Contents, Requested
  <2>6. Counts'
    BY <1>0, <2>0, <2>1, <2>2 DEF Counts
  <2>7. QED
    BY <2>3, <2>4, <2>5, <2>6 DEF CInv
<1>5. CASE SubNoArg
  <2>1. TypeOK'
    BY <1>0, <1>5, QuoteType DEF SubNoArg, SubInit, TypeOK, Shapes, Contents, Clock, Counts, Pending, Closed, Requested, Args, ExpectedCount
  <2>2. Shapes'
    BY <1>0, <1>5, QuoteType DEF SubNoArg, SubInit, TypeOK, Shapes, Contents, Clock, Counts, Pending, Closed, Requested, Args, ExpectedCount
  <2>3. Contents'
    BY <1>0, <1>5, QuoteType DEF SubNoArg, SubInit, TypeOK, Shapes, Contents, Clock, Counts, Pending, Closed, Requested, Args, ExpectedCount
  <2>4. Clock'
    BY <1>0, <1>5, QuoteType DEF SubNoArg, SubInit, TypeOK, Shapes, Contents, Clock, Counts, Pending, Closed, Requested, Args, ExpectedCount
  <2>5. Counts'
    BY <1>0, <1>5, QuoteType DEF SubNoArg, SubInit, TypeOK, Shapes, Contents, Clock, Counts, Pending, Closed, Requested, Args, ExpectedCount
  <2>6. QED
    BY <2>1, <2>2, <2>3, <2>4, <2>5 DEF CInv
<1>6. ASSUME NEW a \in Tickers \cup {OtherTicker}, SubStart(a) PROVE CInv'
  <2>0. /\ sub = SubInit /\ cache = None
        /\ sub' = [sub EXCEPT !.pc = "polling", !.requested_ticker = a,
                              !.due = now, !.startAt = now, !.joined = pub.i]
        /\ cache' = IF a \in Tickers THEN store[a] ELSE None
        /\ UNCHANGED <<now, pub, store>>
    BY <1>0, <1>6 DEF SubStart, Shapes
  <2>1. sub \in SubType /\ pub.i \in 0..Rounds /\ now \in Nat
    BY <1>0 DEF TypeOK, SubType
  <2>2. /\ sub' \in SubType
        /\ sub'.pc = "polling" /\ sub'.requested_ticker = a
        /\ sub'.due = now /\ sub'.startAt = now /\ sub'.joined = pub.i
        /\ sub'.count = 0 /\ sub'.correct_quote_count = 0 /\ sub'.result = 0
        /\ ~sub'.terminate_sample_received
    BY <2>0, <2>1 DEF SubType, SubInit, Args
  <2>3. \/ cache' = None
        \/ a \in Tickers /\ cache' \in {Quote(a, FALSE), Quote(a, TRUE)}
           /\ cache' = store[a]
    BY <1>0, <2>0 DEF Contents
  <2>4. cache' \in Sample \cup {None}
    BY <2>3, QuoteType
  <2>5. cache' # None /\ cache'.valid /\ cache'.term => Closed
    BY <1>0, <2>3, QuoteFields DEF Contents
  <2>6. Pending' \in {0, 1} /\ (Pending' = 1 => pub.i # 0)
    BY <1>0, <2>0, <2>3 DEF Pending, Contents
  <2>7. TypeOK'
    BY <1>0, <2>0, <2>2, <2>4 DEF TypeOK, SubType
  <2>8. Shapes' /\ Clock'
    BY <1>0, <2>0, <2>1, <2>2 DEF Shapes, Clock, Closed, Requested
  <2>9. Contents'
    BY <1>0, <2>0, <2>2, <2>3, <2>5 DEF Contents, Closed, Requested
  <2>10. Counts'
    BY <2>0, <2>1, <2>2, <2>6 DEF Counts
  <2>11. QED
    BY <2>7, <2>8, <2>9, <2>10 DEF CInv
<1>7. CASE SubPoll
  <2>0. /\ sub.pc = "polling" /\ sub.due = now
        /\ sub.count < MaxPolls /\ ~sub.terminate_sample_received
        /\ cache' = None /\ UNCHANGED <<now, pub, store>>
        /\ sub' \in SubType
        /\ sub'.pc = "polling" /\ sub'.requested_ticker = sub.requested_ticker
        /\ sub'.count = sub.count + 1 /\ sub'.due = now + 1
        /\ sub'.startAt = sub.startAt /\ sub'.joined = sub.joined
        /\ sub'.result = 0
        /\ sub'.correct_quote_count = sub.correct_quote_count + Pending
        /\ sub'.terminate_sample_received =
             (cache # None /\ cache.valid /\ cache.term)
    BY <1>7, PollEffect
  <2>1. \/ cache = None
        \/ Requested \in Tickers /\ cache.ticker = Requested
    BY <1>0, QuoteFields DEF Contents, Requested
  <2>2. /\ sub \in SubType /\ now \in Nat /\ pub.i \in 0..Rounds
        /\ Pending \in {0, 1}
        /\ sub.correct_quote_count + Pending =< pub.i
        /\ sub.due = sub.startAt + sub.count
    BY <1>0, <2>0 DEF TypeOK, SubType, Counts, Pending, Clock
  <2>12. /\ sub.count + 1 \in 0..MaxPolls /\ now + 1 \in Nat
         /\ sub.correct_quote_count \in Nat /\ sub.joined \in Nat
    BY <2>0, <2>2 DEF SubType
  <2>4. /\ sub'.pc = "polling" /\ sub'.requested_ticker = sub.requested_ticker
        /\ sub'.count = sub.count + 1 /\ sub'.due = now + 1
        /\ sub'.startAt = sub.startAt /\ sub'.joined = sub.joined
        /\ sub'.result = 0
        /\ sub'.correct_quote_count = sub.correct_quote_count + Pending
        /\ sub'.terminate_sample_received =>
             cache # None /\ cache.valid /\ cache.term
    BY <2>0
  <2>5. sub' \in SubType
    BY <2>0
  <2>6. TypeOK'
    BY <1>0, <2>0, <2>5 DEF TypeOK, SubType
  <2>7. Clock'
    <3>1. (pub.pc \in {"writing", "closing"} => now =< pub.due)'
      BY <1>0, <2>0 DEF Clock
    <3>2. /\ now' =< sub'.due /\ sub'.due =< now' + 1
          /\ sub'.due = sub'.startAt + sub'.count
      <4>1. now' = now /\ sub.due = now
        BY <2>0
      <4>2. sub.startAt \in Nat /\ sub.count \in Nat
        BY <2>2 DEF SubType
      <4>3. QED
        BY <2>2, <2>4, <4>1, <4>2
    <3>3. QED
      BY <2>4, <3>1, <3>2 DEF Clock
  <2>8. Shapes'
    BY <1>0, <2>0, <2>4 DEF Shapes, Closed
  <2>13. (Requested \notin Tickers
           => cache = None /\ ~sub.terminate_sample_received)'
    BY <2>0, <2>1, <2>4 DEF Requested
  <2>14. /\ (pub.i = 0 => \A t \in Tickers : store[t] = None)'
         /\ (\A t \in Tickers :
               store[t] \in {None, Quote(t, FALSE), Quote(t, TRUE)})'
         /\ (\A t \in Tickers : store[t] = Quote(t, TRUE) => Closed)'
    BY <1>0, <2>0 DEF Contents, Closed
  <2>9. Contents'
    BY <2>0, <2>13, <2>14 DEF Contents
  <2>10. Counts'
    BY <1>0, <2>0, <2>2, <2>4, <2>12 DEF Counts, Pending
  <2>11. QED
    BY <2>6, <2>7, <2>8, <2>9, <2>10 DEF CInv
<1>8. CASE SubFinish
  <2>1. TypeOK'
    BY <1>0, <1>8, QuoteType DEF SubFinish, SubLooping, TypeOK, Shapes, Contents, Clock, Counts, Pending, Closed, Requested, Args, ExpectedCount
  <2>2. Shapes'
    BY <1>0, <1>8, QuoteType DEF SubFinish, SubLooping, TypeOK, Shapes, Contents, Clock, Counts, Pending, Closed, Requested, Args, ExpectedCount
  <2>3. Contents'
    BY <1>0, <1>8, QuoteType DEF SubFinish, SubLooping, TypeOK, Shapes, Contents, Clock, Counts, Pending, Closed, Requested, Args, ExpectedCount
  <2>4. Clock'
    BY <1>0, <1>8, QuoteType DEF SubFinish, SubLooping, TypeOK, Shapes, Contents, Clock, Counts, Pending, Closed, Requested, Args, ExpectedCount
  <2>5. Counts'
    BY <1>0, <1>8, QuoteType DEF SubFinish, SubLooping, TypeOK, Shapes, Contents, Clock, Counts, Pending, Closed, Requested, Args, ExpectedCount
  <2>6. QED
    BY <2>1, <2>2, <2>3, <2>4, <2>5 DEF CInv
<1>9. CASE Tick
  <2>1. TypeOK'
    BY <1>0, <1>9, QuoteType DEF Tick, TypeOK, Shapes, Contents, Clock, Counts, Pending, Closed, Requested, Args, ExpectedCount
  <2>2. Shapes'
    BY <1>0, <1>9, QuoteType DEF Tick, TypeOK, Shapes, Contents, Clock, Counts, Pending, Closed, Requested, Args, ExpectedCount
  <2>3. Contents'
    BY <1>0, <1>9, QuoteType DEF Tick, TypeOK, Shapes, Contents, Clock, Counts, Pending, Closed, Requested, Args, ExpectedCount
  <2>4. Clock'
    BY <1>0, <1>9, QuoteType DEF Tick, TypeOK, Shapes, Contents, Clock, Counts, Pending, Closed, Requested, Args, ExpectedCount
  <2>5. Counts'
    BY <1>0, <1>9, QuoteType DEF Tick, TypeOK, Shapes, Contents, Clock, Counts, Pending, Closed, Requested, Args, ExpectedCount
  <2>6. QED
    BY <2>1, <2>2, <2>3, <2>4, <2>5 DEF CInv
<1>10. CASE Terminated \/ UNCHANGED vars
  <2>1. TypeOK'
    BY <1>0, <1>10, QuoteType DEF Terminated, vars, TypeOK, Shapes, Contents, Clock, Counts, Pending, Closed, Requested, Args, ExpectedCount
  <2>2. Shapes'
    BY <1>0, <1>10, QuoteType DEF Terminated, vars, TypeOK, Shapes, Contents, Clock, Counts, Pending, Closed, Requested, Args, ExpectedCount
  <2>3. Contents'
    BY <1>0, <1>10, QuoteType DEF Terminated, vars, TypeOK, Shapes, Contents, Clock, Counts, Pending, Closed, Requested, Args, ExpectedCount
  <2>4. Clock'
    BY <1>0, <1>10, QuoteType DEF Terminated, vars, TypeOK, Shapes, Contents, Clock, Counts, Pending, Closed, Requested, Args, ExpectedCount
  <2>5. Counts'
    BY <1>0, <1>10, QuoteType DEF Terminated, vars, TypeOK, Shapes, Contents, Clock, Counts, Pending, Closed, Requested, Args, ExpectedCount
  <2>6. QED
    BY <2>1, <2>2, <2>3, <2>4, <2>5 DEF CInv
<1>11. QED
  BY <1>1, <1>2, <1>3, <1>4, <1>5, <1>6, <1>7, <1>8, <1>9, <1>10 DEF Next

-----------------------------------------------------------------------------
(* Delivery to a reader created before the first quote.                    *)

LEMMA DeliveryStep ==
  ASSUME PollsBetweenWrites, CInv, Delivery, [Next]_vars
  PROVE  Delivery'
<1> USE CFTAssumption
<1>0. /\ TypeOK /\ Shapes /\ Contents /\ Clock /\ Counts
      /\ CountedAll /\ TakenBeforeNext /\ TerminatorWaits /\ CountComplete
  BY DEF CInv, Delivery
<1>1. Pending \in {0, 1}
  BY DEF Pending
(* A quote is never pending when the publisher's next write is due.       *)
<1>2. pub.pc = "writing" /\ pub.due = now /\ sub.pc = "polling"
      /\ sub.joined = 0 => Pending = 0
  BY <1>0, <1>1 DEF TakenBeforeNext, Clock, TypeOK
<1>3. CASE PubStart
  <2>0. /\ pub.pc = "idle"
        /\ pub' = [pub EXCEPT !.pc = "writing", !.due = now]
        /\ UNCHANGED <<now, sub, store, cache>>
    BY <1>3 DEF PubStart
  <2>1. pub.i = 0 /\ pub'.i = 0 /\ pub'.pc = "writing" /\ Pending = 0
    BY <1>0, <1>1, <2>0 DEF Shapes, Counts, TypeOK
  <2>2. QED
    BY <1>0, <2>0, <2>1 DEF Delivery, CountedAll, TakenBeforeNext,
                            TerminatorWaits, CountComplete, Closed, Pending,
                            Requested
<1>4. CASE PubWrite
  <2>0. /\ pub.pc = "writing" /\ pub.due = now
        /\ pub'.i = pub.i + 1 /\ pub'.pc = "writing"
        /\ pub'.due = now + PubPeriod
        /\ UNCHANGED <<now, sub>>
        /\ cache' = IF sub.pc = "polling" /\ Requested \in Tickers
                       THEN Quote(Requested, FALSE) ELSE cache
    BY <1>0, <1>4, WriteAllEffect DEF PubWrite, TypeOK
  <2>1. CASE sub.pc = "polling" /\ Requested \in Tickers
    <3>1. Pending' = 1
      BY <2>0, <2>1, QuoteType, QuoteFields DEF Pending, Requested
    <3>2. CountedAll'
      <4>1. sub.joined = 0 => Pending = 0
        BY <1>2, <2>0, <2>1
      <4>2. sub.joined = 0 => sub.correct_quote_count = pub.i
        BY <1>0, <2>1, <4>1 DEF CountedAll, Requested, TypeOK
      <4>3. QED
        BY <2>0, <2>1, <3>1, <4>2 DEF CountedAll, Requested
    <3>3. TakenBeforeNext'
      <4>1. sub.due =< now + 1 /\ now \in Nat /\ sub.due \in Nat
        BY <1>0, <2>1 DEF Clock, TypeOK
      <4>2. PubPeriod \in Nat /\ PubPeriod >= 2
        BY DEF PollsBetweenWrites
      <4>3. QED
        BY <2>0, <4>1, <4>2 DEF TakenBeforeNext
    <3>4. QED
      BY <1>0, <2>0, <3>2, <3>3 DEF Delivery, TerminatorWaits, CountComplete,
                                    Closed, Requested
  <2>2. CASE ~(sub.pc = "polling" /\ Requested \in Tickers)
    <3>1. cache' = cache /\ Pending' = Pending
      BY <2>0, <2>2 DEF Pending
    <3>2. sub.pc = "polling" => Pending = 0
      BY <1>0, <2>2 DEF Contents, Pending, Requested
    <3>3. QED
      BY <1>0, <2>0, <2>2, <3>1, <3>2 DEF Delivery, CountedAll,
            TakenBeforeNext, TerminatorWaits, CountComplete, Closed, Requested
  <2>3. QED
    BY <2>1, <2>2
<1>5. CASE PubTerminate
  <2>0. /\ pub.pc = "writing" /\ pub.due = now
        /\ pub'.i = pub.i /\ pub'.pc = "closing" /\ pub'.termAt = now
        /\ UNCHANGED <<now, sub>>
        /\ cache' = IF sub.pc = "polling" /\ Requested \in Tickers
                       THEN Quote(Requested, TRUE) ELSE cache
    BY <1>0, <1>5, WriteAllEffect DEF PubTerminate, TypeOK
  <2>1. CASE sub.pc = "polling" /\ Requested \in Tickers
    <3>1. Pending' = 0 /\ cache' = Quote(Requested, TRUE)
      BY <2>0, <2>1, QuoteType, QuoteFields DEF Pending, Requested
    <3>2. CountedAll'
      BY <1>0, <1>2, <2>0, <2>1, <3>1 DEF CountedAll, Requested
    <3>3. TerminatorWaits'
      <4>1. sub.startAt + sub.count =< now + 1
        <5>1. sub.due =< now + 1 /\ sub.due = sub.startAt + sub.count
          BY <1>0, <2>1 DEF Clock
        <5>2. now \in Nat /\ sub.startAt \in Nat /\ sub.count \in Nat
          BY <1>0 DEF TypeOK
        <5>3. QED
          BY <5>1, <5>2
      <4>2. QED
        BY <2>0, <3>1, <4>1 DEF TerminatorWaits, Requested
    <3>4. QED
      BY <1>0, <2>0, <3>2, <3>3 DEF Delivery, TakenBeforeNext, CountComplete,
                                    Requested
  <2>2. CASE ~(sub.pc = "polling" /\ Requested \in Tickers)
    <3>1. cache' = cache
      BY <2>0, <2>2
    <3>2. TerminatorWaits'
      <4>1. CASE Requested \in Tickers /\ sub.pc = "done"
        <5>1. sub.startAt + sub.count =< now
          BY <1>0, <4>1, CFTAssumption DEF Clock, Requested
        <5>2. now \in Nat /\ sub.startAt \in Nat /\ sub.count \in Nat
          BY <1>0 DEF TypeOK
        <5>3. sub.startAt + sub.count =< pub'.termAt + 1
          BY <2>0, <5>1, <5>2
        <5>4. QED
          BY <2>0, <4>1, <5>3 DEF TerminatorWaits, Requested
      <4>2. CASE ~(Requested \in Tickers /\ sub.pc = "done")
        <5>1. sub.pc \in {"idle", "polling", "done"}
          BY <1>0 DEF TypeOK
        <5>2. QED
          BY <2>0, <2>2, <4>2, <5>1 DEF TerminatorWaits, Requested
      <4>3. QED
        BY <4>1, <4>2
    <3>3. QED
      BY <1>0, <2>0, <2>2, <3>1, <3>2 DEF Delivery, CountedAll,
            TakenBeforeNext, CountComplete, Requested
  <2>3. QED
    BY <2>1, <2>2
<1>6. CASE PubExit
  <2>0. /\ pub.pc = "closing"
        /\ pub'.i = pub.i /\ pub'.pc = "done" /\ pub'.termAt = pub.termAt
        /\ UNCHANGED <<now, sub>>
        /\ cache' = IF sub.pc = "polling" /\ Requested \in Tickers
                       /\ cache = None
                       THEN Disposed(Requested) ELSE cache
    BY <1>0, <1>6 DEF PubExit, Admits, Requested, TypeOK
  <2>1. Pending' = Pending
    BY <2>0, QuoteFields DEF Pending, Requested
  <2>2. TerminatorWaits'
    <3>1. Requested \in Tickers /\ sub.joined = 0 /\ sub.pc = "polling"
          /\ ~sub.terminate_sample_received => cache' = cache
      BY <1>0, <2>0, QuoteType DEF TerminatorWaits, Closed, Requested
    <3>2. QED
      BY <1>0, <2>0, <3>1 DEF TerminatorWaits, Closed, Requested
  <2>3. QED
    BY <1>0, <2>0, <2>1, <2>2 DEF Delivery, CountedAll, TakenBeforeNext,
                                  CountComplete, Requested
<1>7. CASE SubNoArg
  <2>0. sub'.requested_ticker = NoArg /\ sub'.pc = "done"
    <3>1. sub = SubInit
      BY <1>0, <1>7 DEF SubNoArg, Shapes
    <3>2. QED
      BY <1>7, <3>1 DEF SubNoArg, SubInit
  <2>1. QED
    BY <2>0, CFTAssumption DEF Delivery, CountedAll, TakenBeforeNext,
                               TerminatorWaits, CountComplete, Requested
<1>8. ASSUME NEW a \in Tickers \cup {OtherTicker}, SubStart(a) PROVE Delivery'
  <2>0. /\ sub = SubInit
        /\ sub'.joined = pub.i /\ sub'.correct_quote_count = 0
        /\ ~sub'.terminate_sample_received /\ sub'.requested_ticker = a
        /\ cache' = IF a \in Tickers THEN store[a] ELSE None
        /\ UNCHANGED <<now, pub, store>>
    BY <1>0, <1>8 DEF SubStart, Shapes, TypeOK, SubInit
  <2>1. CASE pub.i = 0
    <3>1. cache' = None /\ Pending' = 0
      BY <1>0, <2>0, <2>1 DEF Contents, Pending
    <3>2. ~Closed
      BY <1>0, <2>1 DEF Shapes
    <3>3. CountedAll'
      BY <2>0, <2>1, <3>1 DEF CountedAll, Requested
    <3>4. TakenBeforeNext'
      BY <3>1 DEF TakenBeforeNext
    <3>5. TerminatorWaits'
      BY <2>0, <3>2 DEF TerminatorWaits, Closed
    <3>6. CountComplete'
      BY <2>0 DEF CountComplete
    <3>7. QED
      BY <3>3, <3>4, <3>5, <3>6 DEF Delivery
  <2>2. CASE pub.i # 0
    BY <2>0, <2>2 DEF Delivery, CountedAll, TakenBeforeNext, TerminatorWaits,
                      CountComplete, Requested
  <2>3. QED
    BY <2>1, <2>2
<1>9. CASE SubPoll
  <2>0. /\ sub.pc = "polling" /\ ~sub.terminate_sample_received
        /\ cache' = None
        /\ UNCHANGED <<now, pub, store>>
        /\ sub' \in SubType
        /\ sub'.pc = "polling" /\ sub'.joined = sub.joined
        /\ sub'.requested_ticker = sub.requested_ticker
        /\ sub'.correct_quote_count = sub.correct_quote_count + Pending
        /\ sub'.terminate_sample_received =
             (cache # None /\ cache.valid /\ cache.term)
    BY <1>9, PollEffect
  <2>1. Pending' = 0
    BY <2>0 DEF Pending
  <2>2. TerminatorWaits'
    <3>1. CASE Requested \in Tickers /\ sub.joined = 0 /\ Closed
      <4>1. cache = Quote(Requested, TRUE)
        BY <1>0, <2>0, <3>1 DEF TerminatorWaits
      <4>2. sub'.terminate_sample_received
        BY <2>0, <3>1, <4>1, QuoteType, QuoteFields
      <4>3. QED
        BY <4>2 DEF TerminatorWaits
    <3>2. CASE ~(Requested \in Tickers /\ sub.joined = 0 /\ Closed)
      BY <2>0, <3>2 DEF TerminatorWaits, Requested, Closed
    <3>3. QED
      BY <3>1, <3>2
  <2>3. CountComplete'
    <3>1. CASE cache # None /\ cache.valid /\ cache.term
      <4>1. Pending = 0 /\ pub.i = Rounds
        BY <1>0, <3>1 DEF Pending, Contents, Shapes
      <4>2. QED
        BY <1>0, <2>0, <4>1 DEF CountComplete, CountedAll, Requested
    <3>2. CASE ~(cache # None /\ cache.valid /\ cache.term)
      BY <2>0, <3>2 DEF CountComplete
    <3>3. QED
      BY <3>1, <3>2
  <2>4. CountedAll'
    <3>0. sub.correct_quote_count \in Nat /\ Pending \in Nat
      BY <1>0, <1>1 DEF TypeOK
    <3>1. QED
      BY <1>0, <2>0, <2>1, <3>0 DEF CountedAll, Requested
  <2>6. TakenBeforeNext'
    BY <2>1 DEF TakenBeforeNext
  <2>7. QED
    BY <2>2, <2>3, <2>4, <2>6 DEF Delivery
<1>10. CASE SubFinish
  <2>0. /\ sub.pc = "polling" /\ sub'.pc = "done"
        /\ sub'.joined = sub.joined /\ sub'.count = sub.count
        /\ sub'.startAt = sub.startAt
        /\ sub'.requested_ticker = sub.requested_ticker
        /\ sub'.correct_quote_count = sub.correct_quote_count
        /\ sub'.terminate_sample_received = sub.terminate_sample_received
        /\ UNCHANGED <<now, pub, store, cache>>
    BY <1>0, <1>10 DEF SubFinish, TypeOK
  <2>1. QED
    BY <1>0, <2>0 DEF Delivery, CountedAll, TakenBeforeNext, TerminatorWaits,
                      CountComplete, Requested, Closed
<1>11. CASE Tick \/ Terminated \/ UNCHANGED vars
  <2>0. UNCHANGED <<pub, sub, store, cache>>
    BY <1>11 DEF Tick, Terminated, vars
  <2>1. QED
    BY <1>0, <2>0 DEF Delivery, CountedAll, TakenBeforeNext, TerminatorWaits,
                      CountComplete, Requested, Closed, Pending
<1>12. QED
  BY <1>3, <1>4, <1>5, <1>6, <1>7, <1>8, <1>9, <1>10, <1>11 DEF Next

-----------------------------------------------------------------------------
(* The type invariant.                                                     *)

\* Every reachable state of the two programs is well typed; in particular
\* the subscriber's quote count never exceeds the publisher's 20 rounds
\* and its poll count never exceeds its 300-poll budget.
THEOREM TypeOKInvariant ==
  Spec => []TypeOK
<1>1. CInv => TypeOK
  BY DEF CInv
<1>2. QED
  BY <1>1, CInvInit, CInvStep, PTL DEF Spec

-----------------------------------------------------------------------------
(* The subscriber's verdict and the reader's history.                      *)

LEMMA DInvInit == Init => DInv
<1> SUFFICES ASSUME Init PROVE DInv
  OBVIOUS
<1>1. CInv
  BY CInvInit
<1>2. sub.pc = "idle" /\ ~sub.terminate_sample_received
  BY DEF Init, SubInit
<1>3. QED
  BY <1>1, <1>2 DEF DInv, Delivery, CountedAll, TakenBeforeNext,
                    TerminatorWaits, CountComplete

LEMMA DInvStep ==
  ASSUME PollsBetweenWrites, DInv, [Next]_vars
  PROVE  DInv'
BY CInvStep, DeliveryStep DEF DInv

LEMMA DInvVerdict == DInv => SubscriberVerdict
<1> USE CFTAssumption
<1> SUFFICES ASSUME DInv, sub.pc = "done", Requested # NoArg
             PROVE  SubscriberVerdict
  BY DEF SubscriberVerdict, Requested
<1>0. /\ TypeOK /\ Shapes /\ Contents /\ Clock /\ Counts
      /\ TerminatorWaits /\ CountComplete
  BY DEF DInv, CInv, Delivery
<1>1. /\ sub.result = 0 <=> sub.terminate_sample_received
                           /\ sub.correct_quote_count = ExpectedCount
      /\ ~sub.terminate_sample_received => sub.count = MaxPolls
  BY <1>0 DEF Clock
<1>2. /\ pub.i \in 0..Rounds /\ sub.joined \in 0..Rounds
      /\ sub.correct_quote_count \in 0..Rounds /\ Pending \in {0, 1}
      /\ sub.startAt \in Nat /\ pub.termAt \in Nat
  BY <1>0 DEF TypeOK, Pending
(* A returned 0 needs the terminator, so a published ticker, and all     *)
(* Rounds quotes, of which the reader can have missed one at most.        *)
<1>3. sub.result = 0 => Requested \in Tickers /\ sub.joined =< 1
  <2>1. SUFFICES ASSUME sub.result = 0 PROVE Requested \in Tickers /\ sub.joined =< 1
    OBVIOUS
  <2>2. sub.terminate_sample_received
        /\ sub.correct_quote_count = ExpectedCount
    BY <1>1, <2>1
  <2>3. Requested \in Tickers
    BY <1>0, <2>2 DEF Contents
  <2>4. sub.correct_quote_count = Rounds
    BY <2>2, <2>3 DEF ExpectedCount, Requested
  <2>5. QED
    BY <1>0, <1>2, <2>3, <2>4 DEF Counts
(* A reader created before the first quote that has not taken the         *)
(* terminator polled MaxPolls times, all before one tick after it.        *)
<1>4. Requested \in Tickers /\ sub.joined = 0 /\ TermInTime => sub.result = 0
  <2>1. SUFFICES ASSUME Requested \in Tickers, sub.joined = 0, TermInTime
                 PROVE  sub.result = 0
    OBVIOUS
  <2>2. sub.terminate_sample_received
    <3>1. SUFFICES ASSUME ~sub.terminate_sample_received PROVE FALSE
      OBVIOUS
    <3>2. sub.count = MaxPolls
      BY <1>1, <3>1
    <3>3. sub.startAt + sub.count =< pub.termAt + 1
      BY <1>0, <2>1, <3>1 DEF TerminatorWaits, TermInTime, Closed
    <3>4. pub.termAt + 2 =< sub.startAt + MaxPolls
      BY <2>1 DEF TermInTime
    <3>5. QED
      BY <1>2, <3>2, <3>3, <3>4
  <2>3. sub.correct_quote_count = ExpectedCount
    BY <1>0, <2>1, <2>2 DEF CountComplete, ExpectedCount, Requested
  <2>4. QED
    BY <1>1, <2>2, <2>3
<1>5. QED
  BY <1>3, <1>4 DEF SubscriberVerdict, Requested

\* Lines 208-221 of the subscriber: when the subscriber polls at least
\* twice per publishing period, a subscriber that returns 0 asked for a
\* published ticker and joined before the second round, and one that
\* joined before the first quote returns 0 whenever the terminator is
\* written within its poll budget.
THEOREM SubscriberVerdictInvariant ==
  ASSUME PollsBetweenWrites
  PROVE  Spec => []SubscriberVerdict
<1>1. Init => DInv
  BY DInvInit
<1>2. DInv /\ [Next]_vars => DInv'
  BY DInvStep
<1>3. DInv => SubscriberVerdict
  BY DInvVerdict
<1>4. QED
  BY <1>1, <1>2, <1>3, PTL DEF Spec

(* A valid sample is never in the cache of a reader created before the    *)
(* first quote when the publisher's next write is due.                    *)
LEMMA NoWriteOverUnread ==
  ASSUME PollsBetweenWrites, DInv, sub.joined = 0, cache # None, cache.valid,
         sub.pc = "polling", Requested \in Tickers,
         pub.pc = "writing", pub.due = now
  PROVE  FALSE
<1>0. /\ TypeOK /\ Contents /\ Clock /\ TakenBeforeNext
  BY DEF DInv, CInv, Delivery
<1>1. cache \in {Quote(Requested, FALSE), Quote(Requested, TRUE),
                 Disposed(Requested)}
  BY <1>0 DEF Contents
<1>2. CASE cache.term
  BY <1>0, <1>2 DEF Contents, Closed
<1>3. CASE ~cache.term
  <2>1. Pending = 1
    BY <1>3 DEF Pending
  <2>2. sub.due < pub.due /\ now =< sub.due
    BY <1>0, <2>1 DEF TakenBeforeNext, Clock
  <2>3. now \in Nat /\ sub.due \in Nat
    BY <1>0 DEF TypeOK
  <2>4. QED
    BY <2>2, <2>3
<1>4. QED
  BY <1>2, <1>3

LEMMA KeepsUnreadStep ==
  ASSUME PollsBetweenWrites, DInv, [Next]_vars
  PROVE  [sub.joined = 0 /\ cache # None /\ cache.valid =>
            cache' \in {cache, None}]_vars
<1> SUFFICES ASSUME sub.joined = 0, cache # None, cache.valid
             PROVE  cache' \in {cache, None}
  OBVIOUS
<1>0. /\ TypeOK /\ Shapes
  BY DEF DInv, CInv
(* The writes leave an unread sample alone: none is due while one waits.  *)
<1>1. CASE PubWrite \/ PubTerminate
  <2>1. PICK b \in BOOLEAN : WriteAll(b) /\ pub.pc = "writing" /\ pub.due = now
    BY <1>1 DEF PubWrite, PubTerminate
  <2>2. ~(sub.pc = "polling" /\ Requested \in Tickers)
    BY <2>1, NoWriteOverUnread
  <2>3. QED
    BY <2>1, <2>2, WriteAllEffect
<1>2. CASE PubExit
  BY <1>2 DEF PubExit
<1>3. ASSUME NEW a \in Tickers \cup {OtherTicker}, SubStart(a)
      PROVE  cache' \in {cache, None}
  BY <1>0, <1>3 DEF SubStart, Shapes
<1>4. CASE SubPoll
  BY <1>4 DEF SubPoll, Poll
<1>5. CASE PubStart \/ SubNoArg \/ SubFinish \/ Tick \/ Terminated
         \/ UNCHANGED vars
  BY <1>5 DEF PubStart, SubNoArg, SubFinish, Tick, Terminated, vars
<1>6. QED
  BY <1>1, <1>2, <1>3, <1>4, <1>5 DEF Next

\* KEEP_LAST(1) on the reader: when the subscriber polls at least twice
\* per publishing period, no write and no dispose ever replaces a valid
\* sample that a reader created before the first quote has not taken.
THEOREM NoUnreadOverwrittenProperty ==
  ASSUME PollsBetweenWrites
  PROVE  Spec => NoUnreadOverwritten
<1>1. Init => DInv
  BY DInvInit
<1>2. DInv /\ [Next]_vars => DInv'
  BY DInvStep
<1>3. DInv /\ [Next]_vars =>
        [sub.joined = 0 /\ cache # None /\ cache.valid =>
           cache' \in {cache, None}]_vars
  BY KeepsUnreadStep
<1>4. QED
  BY <1>1, <1>2, <1>3, PTL DEF Spec, NoUnreadOverwritten

=============================================================================
