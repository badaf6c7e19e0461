----------------------------- MODULE CFTExample -----------------------------
(***************************************************************************)
(* The ISO C++ ContentFilteredTopic example                                *)
(* (src/examples/dcps/ContentFilteredTopic/isocpp/implementation.cpp):    *)
(* publisher() writes Rounds pairs of quotes (GE, MSFT), one pair per      *)
(* second, then a pair of terminator quotes (price -1), sleeps a second    *)
(* and exits; subscriber() creates a reader on a content-filtered topic    *)
(* "ticker = '<argv[1]>'" and polls take() every 200 ms, at most MaxPolls  *)
(* times, until it sees a terminator, then checks its quote count.         *)
(*                                                                         *)
(* Time is discrete: one tick is the subscriber's 200 ms sleep, the        *)
(* publisher sleeps PubPeriod ticks. The two programs are launched at any  *)
(* ticks before LaunchWindow, in either order. The middleware is the      *)
(* environment, with the QoS the code sets: Reliable, Transient, and the   *)
(* default KEEP_LAST(1) history for the reader and the durability store.   *)
(* A quote is abstracted to its ticker and whether it is a terminator.     *)
(***************************************************************************)
EXTENDS Integers

CONSTANTS
  Tickers,        \* the tickers the publisher writes ("GE", "MSFT")
  OtherTicker,    \* a subscription string that names no published ticker
  NoArg,          \* subscriber started without a subscription string
  Rounds,         \* the publisher's loop bound (20 in the code)
  MaxPolls,       \* the subscriber's poll bound (300 in the code)
  PubPeriod,      \* exampleSleepMilliseconds(1000) in subscriber ticks
  LaunchWindow,   \* both programs are launched before this tick
  None            \* no sample

ASSUME CFTAssumption ==
  /\ Rounds \in Nat \ {0}
  /\ MaxPolls \in Nat \ {0}
  /\ PubPeriod \in Nat \ {0}
  /\ LaunchWindow \in Nat \ {0}
  /\ OtherTicker \notin Tickers
  /\ NoArg \notin Tickers \cup {OtherTicker}

Args == Tickers \cup {OtherTicker, NoArg}

\* valid is info().valid(): false for a sample that only reports a dispose.
Sample == [ticker : Tickers, term : BOOLEAN, valid : BOOLEAN]

Quote(t, term) == [ticker |-> t, term |-> term, valid |-> TRUE]

Disposed(t) == [ticker |-> t, term |-> FALSE, valid |-> FALSE]

\* The empty reader cache is no sample.
ASSUME NoneAssumption == None \notin Sample

VARIABLES
  now,     \* the clock, in subscriber ticks
  pub,     \* the publisher's control state and loop counter i
  sub,     \* the subscriber's control state and locals
  store,   \* the transient durability store: last sample per instance
  cache    \* the data reader's cache for the requested instance

vars == <<now, pub, sub, store, cache>>

PubInit == [pc |-> "idle", i |-> 0, due |-> 0, termAt |-> 0]

SubInit == [pc |-> "idle", requested_ticker |-> NoArg, count |-> 0,
            terminate_sample_received |-> FALSE, correct_quote_count |-> 0,
            result |-> 0, due |-> 0, startAt |-> 0, joined |-> 0]

Init ==
  /\ now = 0
  /\ pub = PubInit
  /\ sub = SubInit
  /\ store = [t \in Tickers |-> None]
  /\ cache = None

(* The reader exists and its content filter admits ticker t.              *)
Admits(t) == sub.pc = "polling" /\ sub.requested_ticker = t

(* dw << quote for every ticker: the store keeps the last sample of each   *)
(* instance; a reader whose filter admits it keeps only the last one.      *)
WriteAll(term) ==
  /\ store' = [t \in Tickers |-> Quote(t, term)]
  /\ cache' = IF \E t \in Tickers : Admits(t)
                THEN Quote(sub.requested_ticker, term)
                ELSE cache

(* Creation of participant, topic, publisher and writer.                   *)
PubStart ==
  /\ pub.pc = "idle"
  /\ now < LaunchWindow
  /\ pub' = [pub EXCEPT !.pc = "writing", !.due = now]
  /\ UNCHANGED <<now, sub, store, cache>>

\* Mutant: the loop runs while i <= 20, one round too many.
PubWriteOffByOne ==
  /\ pub.pc = "writing"
  /\ pub.due = now
  /\ pub.i =< Rounds
  /\ WriteAll(FALSE)
  /\ pub' = [pub EXCEPT !.i = @ + 1, !.due = now + PubPeriod]
  /\ UNCHANGED <<now, sub>>

(* One iteration of the for loop: write the two quotes, sleep a second.   *)
PubWrite ==
  /\ pub.pc = "writing"
  /\ pub.due = now
  /\ pub.i < Rounds
  /\ WriteAll(FALSE)
  /\ pub' = [pub EXCEPT !.i = @ + 1, !.due = now + PubPeriod]
  /\ UNCHANGED <<now, sub>>

(* The loop has ended: write the terminators (price -1), sleep a second.  *)
PubTerminate ==
  /\ pub.pc = "writing"
  /\ pub.due = now
  /\ pub.i >= Rounds
  /\ WriteAll(TRUE)
  /\ pub' = [pub EXCEPT !.pc = "closing", !.due = now + PubPeriod,
                        !.termAt = now]
  /\ UNCHANGED <<now, sub>>

(* Leaving the try block deletes the writer. Its QoS is                    *)
(* AutoDisposeUnregisteredInstances, so every instance is disposed: the    *)
(* durability service may drop the disposed instances from the store, and *)
(* a reader that has no unread sample of one receives an invalid sample.   *)
PubExit ==
  /\ pub.pc = "closing"
  /\ pub.due = now
  /\ \/ store' = [t \in Tickers |-> None]
     \/ UNCHANGED store
  /\ cache' = IF (\E t \in Tickers : Admits(t)) /\ cache = None
                THEN Disposed(sub.requested_ticker) ELSE cache
  /\ pub' = [pub EXCEPT !.pc = "done"]
  /\ UNCHANGED <<now, sub>>

(* argc < 2: the subscriber returns -1 at once.                            *)
SubNoArg ==
  /\ sub.pc = "idle"
  /\ now < LaunchWindow
  /\ sub' = [sub EXCEPT !.pc = "done", !.result = -1]
  /\ UNCHANGED <<now, pub, store, cache>>

(* Creation of the reader on the content-filtered topic: the transient     *)
(* store hands over the last sample of the instance the filter admits.     *)
SubStart(arg) ==
  /\ sub.pc = "idle"
  /\ now < LaunchWindow
  /\ sub' = [sub EXCEPT !.pc = "polling", !.requested_ticker = arg,
                        !.due = now, !.startAt = now, !.joined = pub.i]
  /\ cache' = IF arg \in Tickers THEN store[arg] ELSE None
  /\ UNCHANGED <<now, pub, store>>

(* The while loop's condition.                                             *)
SubLooping == sub.count < MaxPolls /\ ~sub.terminate_sample_received

(* One iteration: take() empties the cache; a valid terminator sets the    *)
(* flag, another valid sample is counted when its ticker is the requested *)
(* one and sets result to 1 otherwise; then sleep (ticks) and ++count.     *)
Poll(sleep) ==
  /\ sub.pc = "polling"
  /\ sub.due = now
  /\ SubLooping
  /\ LET s == cache
         valid == s # None /\ s.valid IN
       sub' = [sub EXCEPT
                !.terminate_sample_received = @ \/ (valid /\ s.term),
                !.correct_quote_count =
                   IF valid /\ ~s.term /\ s.ticker = sub.requested_ticker
                     THEN @ + 1 ELSE @,
                !.result =
                   IF valid /\ ~s.term /\ s.ticker # sub.requested_ticker
                     THEN 1 ELSE @,
                !.count = @ + 1,
                !.due = now + sleep]
  /\ cache' = None
  /\ UNCHANGED <<now, pub, store>>

\* Mutant: the subscriber sleeps 2 s per poll instead of 200 ms.
SubPollSlow == Poll(2 * PubPeriod)

(* The loop body with exampleSleepMilliseconds(200): one tick.             *)
SubPoll == Poll(1)

(* The count the code expects for the requested ticker.                    *)
ExpectedCount == IF sub.requested_ticker \in Tickers THEN Rounds ELSE 0

\* Mutant: "Market Closed" without the quote count check.
SubFinishNoCountCheck ==
  /\ sub.pc = "polling"
  /\ sub.due = now
  /\ ~SubLooping
  /\ sub' = [sub EXCEPT !.pc = "done",
               !.result = IF sub.terminate_sample_received THEN @ ELSE 1]
  /\ UNCHANGED <<now, pub, store, cache>>

(* After the loop: "Market Closed" and the count check, or "Timed out".    *)
SubFinish ==
  /\ sub.pc = "polling"
  /\ sub.due = now
  /\ ~SubLooping
  /\ sub' = [sub EXCEPT !.pc = "done",
               !.result = IF sub.terminate_sample_received
                               /\ sub.correct_quote_count = ExpectedCount
                            THEN @ ELSE 1]
  /\ UNCHANGED <<now, pub, store, cache>>

(* Time advances when neither program has a step due now; a program not   *)
(* yet launched is launched before LaunchWindow.                           *)
Tick ==
  /\ pub.pc \in {"writing", "closing"} => pub.due > now
  /\ sub.pc = "polling" => sub.due > now
  /\ ~(pub.pc = "done" /\ sub.pc = "done")
  /\ (pub.pc = "idle" \/ sub.pc = "idle") => now + 1 < LaunchWindow
  /\ now' = now + 1
  /\ UNCHANGED <<pub, sub, store, cache>>

(* Both programs have returned.                                            *)
Terminated ==
  /\ pub.pc = "done" /\ sub.pc = "done"
  /\ UNCHANGED vars

Next ==
  \/ PubStart \/ PubWrite \/ PubTerminate \/ PubExit
  \/ SubNoArg \/ \E a \in Tickers \cup {OtherTicker} : SubStart(a)
  \/ SubPoll \/ SubFinish
  \/ Tick
  \/ Terminated

Spec == Init /\ [][Next]_vars


-----------------------------------------------------------------------------
(* Properties                                                              *)

TypeOK ==
  /\ now \in Nat
  /\ pub \in [pc : {"idle", "writing", "closing", "done"}, i : 0..Rounds,
              due : Nat, termAt : Nat]
  /\ sub \in [pc : {"idle", "polling", "done"}, requested_ticker : Args,
              count : 0..MaxPolls, terminate_sample_received : BOOLEAN,
              correct_quote_count : 0..Rounds, result : {-1, 0, 1},
              due : Nat, startAt : Nat, joined : 0..Rounds]
  /\ store \in [Tickers -> Sample \cup {None}]
  /\ cache \in Sample \cup {None}

(* The terminator was written while the subscriber still had a poll left  *)
(* that is sure to see it (a poll in the same tick may precede the write). *)
TermInTime ==
  /\ pub.pc \in {"closing", "done"}
  /\ pub.termAt + 2 =< sub.startAt + MaxPolls

(* The subscriber's verdict (lines 208-221): it returns 0 only for a      *)
(* published ticker and a reader created before the second round of       *)
(* quotes (the transient store hands over one missed round, no more); and *)
(* a reader created before the first quote returns 0 whenever the         *)
(* publisher's terminator comes within its poll budget.                   *)
SubscriberVerdict ==
  sub.pc = "done" /\ sub.requested_ticker # NoArg =>
    /\ sub.result = 0 =>
         sub.requested_ticker \in Tickers /\ sub.joined =< 1
    /\ sub.requested_ticker \in Tickers /\ sub.joined = 0 /\ TermInTime =>
         sub.result = 0

(* With the reader's KEEP_LAST(1) history a write replaces any unread      *)
(* sample of its instance. For a reader created before the first quote,   *)
(* the subscriber's 200 ms poll against the publisher's 1 s loop means a   *)
(* valid sample is always taken before the next one arrives. (A reader    *)
(* created later can lose the sample the store handed it to a write in    *)
(* the same tick.)                                                         *)
NoUnreadOverwritten ==
  [][sub.joined = 0 /\ cache # None /\ cache.valid =>
       cache' \in {cache, None}]_vars

(* Line 211 expects 0 quotes for a ticker nobody publishes, so a timely   *)
(* publisher should let such a subscriber return 0.                        *)
OtherTickerSucceeds ==
  sub.pc = "done" /\ sub.requested_ticker = OtherTicker /\ TermInTime =>
    sub.result = 0

(* Lines 56-59: transient durability lets a subscriber that joins after   *)
(* the samples were written still receive them and succeed.                *)
LateJoinerSucceeds ==
  sub.pc = "done" /\ sub.requested_ticker \in Tickers /\ TermInTime =>
    sub.result = 0

(* Lines 77-80: the publisher may run and exit before the subscriber       *)
(* starts, and the subscriber still receives the terminator.               *)
ExitBeforeSubscriberTerminates ==
  sub.pc = "done" /\ sub.requested_ticker \in Tickers
    /\ sub.joined = Rounds /\ pub.pc = "done" /\ pub.termAt < sub.startAt =>
    sub.terminate_sample_received

=============================================================================
