--------------------------- MODULE MarketDataProofs ---------------------------
(***************************************************************************)
(* Proofs about the market data path: its types, that the circuit the      *)
(* dashboard shows is that of the connection, and that a scan finds the    *)
(* best opportunity, for any venues, exchanges, symbols, books and limits. *)
(***************************************************************************)
EXTENDS MarketData, SequenceTheorems, FiniteSetTheorems, TLAPS

-------------------------------------------------------------------------------
(* Types *)

Quotes == [bid : Int, ask : Int, age : 0..(MaxQuoteAge + 1)]

Ticks == [venue : Venues, symbol : Symbols, book : Books]

Good(q) == q.bid > 0 /\ q.ask > 0 /\ \E b \in Books : q.bid = b.bid /\ q.ask = b.ask

\* What TypeOK says of the detector, with the domains of its functions, and that
\* a fresh quote is what a message said.
DetectorTypes ==
    /\ detector \in {"starting", "running", "stopped"}
    /\ tickCh \in Seq(Ticks) /\ Len(tickCh) <= TickCap
    /\ quotes \in [Exchanges -> [Symbols -> Quotes]]
    /\ sinceOpp \in [Symbols -> 0..OppCooldown]
    /\ sending \subseteq Venues

QuotesGood ==
    \A v \in Exchanges, s \in Symbols : quotes[v][s].age <= MaxQuoteAge => Good(quotes[v][s])

TypeInv == FeedTypeOK /\ DetectorTypes /\ QuotesGood

LEMMA FeedKeepsTypes ==
    ASSUME FeedTypeOK, NEW v \in Venues, RunFeed(v), ctxDone' = ctxDone
    PROVE  FeedTypeOK'
<1>1. NextAttempt(v) => attempt' \in [Venues -> 0..MaxAttempts]
    BY FeedAssumption DEF FeedTypeOK, NextAttempt
<1>2. \A point \in {"top", "backoff", "dial", "read", "dropped", "stopped"} :
          At(v, point) => feed' \in [Venues -> {"top", "backoff", "dial", "read", "dropped", "stopped"}]
    BY DEF FeedTypeOK, At
<1>3. \A state \in {"OPEN", "CLOSED", "HALF_OPEN"} :
          SetState(v, state) => circuit' \in [Venues -> {"OPEN", "CLOSED", "HALF_OPEN"}]
    BY DEF FeedTypeOK, SetState
<1>4. CASE FeedStops(v)
    BY <1>2, <1>3, <1>4 DEF FeedTypeOK, FeedStops
<1>5. CASE StartAttempt(v)
    BY <1>2, <1>3, <1>5 DEF FeedTypeOK, StartAttempt
<1>6. CASE BackoffOver(v) \/ BackoffCancelled(v)
    BY <1>2, <1>6 DEF FeedTypeOK, BackoffOver, BackoffCancelled
<1>7. CASE DialFails(v)
    BY <1>1, <1>2, <1>7 DEF FeedTypeOK, DialFails
<1>8. CASE DialSucceeds(v)
    BY <1>2, <1>3, <1>8, FeedAssumption DEF FeedTypeOK, DialSucceeds, CircuitOnConnect
<1>9. CASE ReadDrops(v) \/ ReadCancelled(v)
    BY <1>2, <1>9 DEF FeedTypeOK, ReadDrops, ReadCancelled
<1>10. CASE Dropped(v)
    BY <1>1, <1>2, <1>3, <1>10 DEF FeedTypeOK, Dropped, AfterDrop
<1> QED BY <1>4, <1>5, <1>6, <1>7, <1>8, <1>9, <1>10 DEF RunFeed

LEMMA PublishKeepsTypes ==
    ASSUME DetectorTypes, NEW v \in Venues, PublishTick(v) \/ SendTick(v)
    PROVE  DetectorTypes'
<1>1. CASE UNCHANGED tickCh
    BY <1>1 DEF DetectorTypes, PublishTick, SendTick
<1>2. ASSUME NEW s \in Symbols, NEW b \in Books, TickRoom, SendTick(v),
             tickCh' = Append(tickCh, [venue |-> v, symbol |-> s, book |-> b])
      PROVE  DetectorTypes'
    <2>1. [venue |-> v, symbol |-> s, book |-> b] \in Ticks
        BY DEF Ticks
    <2>2. tickCh' \in Seq(Ticks) /\ Len(tickCh') = Len(tickCh) + 1 /\ Len(tickCh) \in Nat
        BY <1>2, <2>1, AppendProperties, LenProperties DEF DetectorTypes
    <2>3. Len(tickCh') <= TickCap
        BY <1>2, <2>2, DetectorAssumption DEF TickRoom
    <2>4. sending' \subseteq Venues /\ UNCHANGED <<detector, quotes, sinceOpp>>
        BY <1>2 DEF SendTick, DetectorTypes
    <2> QED BY <2>2, <2>3, <2>4 DEF DetectorTypes
<1> QED BY <1>1, <1>2 DEF PublishTick, SendTick

LEMMA TimeKeepsTypes ==
    ASSUME DetectorTypes, QuotesGood, TimePasses
    PROVE  DetectorTypes' /\ QuotesGood'
<1>1. MaxQuoteAge \in Nat /\ OppCooldown \in Nat
    BY DetectorAssumption
<1>2. ASSUME NEW v \in Exchanges, NEW s \in Symbols
      PROVE  /\ quotes'[v][s] \in Quotes
             /\ quotes'[v][s].age <= MaxQuoteAge => Good(quotes'[v][s])
    <2>1. quotes[v][s] \in Quotes
        BY DEF DetectorTypes
    <2>2. CASE quotes[v][s].age < MaxQuoteAge
        <3>1. quotes'[v][s] = [quotes[v][s] EXCEPT !.age = @ + 1]
            BY <2>2 DEF TimePasses
        <3>2. /\ quotes'[v][s].bid = quotes[v][s].bid /\ quotes'[v][s].ask = quotes[v][s].ask
              /\ quotes'[v][s] \in Quotes
            BY <1>1, <2>1, <2>2, <3>1 DEF Quotes
        <3>3. Good(quotes[v][s])
            BY <1>1, <2>1, <2>2 DEF QuotesGood, Quotes
        <3> QED BY <3>2, <3>3 DEF Good
    <2>3. CASE ~(quotes[v][s].age < MaxQuoteAge)
        <3>1. quotes'[v][s] = NoQuote
            BY <2>3 DEF TimePasses
        <3> QED BY <1>1, <3>1 DEF NoQuote, Quotes
    <2> QED BY <2>2, <2>3
<1>3. quotes' \in [Exchanges -> [Symbols -> Quotes]]
    BY <1>2 DEF TimePasses
<1>4. sinceOpp' \in [Symbols -> 0..OppCooldown]
    BY <1>1 DEF TimePasses, Older, DetectorTypes
<1> QED BY <1>2, <1>3, <1>4 DEF TimePasses, DetectorTypes, QuotesGood

LEMMA OnTickKeepsTypes ==
    ASSUME DetectorTypes, QuotesGood, OnTick
    PROVE  DetectorTypes' /\ QuotesGood'
<1> DEFINE tick == Head(tickCh)
           new == [bid |-> tick.book.bid, ask |-> tick.book.ask, age |-> 0]
           known == [quotes EXCEPT ![tick.venue][tick.symbol] = new]
<1>1. /\ tickCh' \in Seq(Ticks) /\ Len(tickCh') <= TickCap /\ tick \in Ticks
      /\ detector' = detector /\ sending' = sending
    <2>1. tickCh # <<>> /\ tickCh' = Tail(tickCh) /\ tickCh \in Seq(Ticks) /\ Len(tickCh) <= TickCap
          /\ detector' = detector /\ sending' = sending /\ TickCap \in Nat
        BY DetectorAssumption DEF OnTick, DetectorTypes
    <2>2. /\ Head(tickCh) \in Ticks /\ Tail(tickCh) \in Seq(Ticks)
          /\ Len(Tail(tickCh)) = Len(tickCh) - 1 /\ Len(tickCh) \in Nat
        BY <2>1, HeadTailProperties, LenProperties
    <2> QED BY <2>1, <2>2
<1>2. /\ tick.venue \in Exchanges /\ tick.symbol \in Symbols /\ tick.book \in Books
      /\ tick.book.bid \in Int /\ tick.book.ask \in Int
    BY <1>1, FeedsAreExchanges, DetectorAssumption DEF Ticks
<1>3. MaxQuoteAge \in Nat /\ OppCooldown \in Nat
    BY DetectorAssumption
<1>4. CASE UNCHANGED <<quotes, sinceOpp>>
    BY <1>1, <1>4 DEF DetectorTypes, QuotesGood
<1>5. CASE /\ tick.book.bid > 0 /\ tick.book.ask > 0
           /\ quotes' = known
           /\ sinceOpp' = sinceOpp \/ sinceOpp' = [sinceOpp EXCEPT ![tick.symbol] = 0]
    <2>1. new \in Quotes /\ Good(new)
        BY <1>2, <1>3, <1>5 DEF Quotes, Good
    <2>2. quotes \in [Exchanges -> [Symbols -> Quotes]]
        BY DEF DetectorTypes
    <2> HIDE DEF new, tick
    <2>3. quotes' \in [Exchanges -> [Symbols -> Quotes]]
        BY <1>2, <1>5, <2>1, <2>2
    <2>4. \A v \in Exchanges, s \in Symbols : quotes'[v][s] = new \/ quotes'[v][s] = quotes[v][s]
        BY <1>2, <1>5, <2>2
    <2>5. QuotesGood'
        BY <2>1, <2>4 DEF QuotesGood
    <2>6. sinceOpp' \in [Symbols -> 0..OppCooldown]
        BY <1>2, <1>3, <1>5 DEF DetectorTypes
    <2> QED BY <1>1, <2>3, <2>5, <2>6 DEF DetectorTypes
<1>6. QED
    <2>1. CASE tick.book.bid <= 0 \/ tick.book.ask <= 0
        BY <1>4, <2>1 DEF OnTick
    <2>2. CASE ~(tick.book.bid <= 0 \/ tick.book.ask <= 0)
        <3>1. tick.book.bid > 0 /\ tick.book.ask > 0
            BY <1>2, <2>2
        <3>2. /\ quotes' = known
              /\ IF sinceOpp[tick.symbol] < OppCooldown
                 THEN UNCHANGED sinceOpp
                 ELSE \E opp \in Scan([v \in Exchanges |-> known[v][tick.symbol]]) :
                          IF opp = NoOpp THEN UNCHANGED sinceOpp ELSE CoolDown(tick.symbol)
            BY <2>2 DEF OnTick
        <3> HIDE DEF tick, known
        <3>3. sinceOpp' = sinceOpp \/ sinceOpp' = [sinceOpp EXCEPT ![tick.symbol] = 0]
            BY <3>2 DEF CoolDown
        <3> QED BY <1>5, <3>1, <3>2, <3>3
    <2> QED BY <2>1, <2>2

-------------------------------------------------------------------------------
(* Circuits *)

\* There is a connection exactly while readLoop runs.  At the top of runFeed the
\* circuit is still open only when the context ended the connection, and then
\* runFeed returns without another attempt; half open it is from an attempt that
\* failed, and runFeed leaves it so only when it is cancelled in the backoff.
CircuitAt(v) ==
    /\ conn[v] <=> feed[v] = "read"
    /\ conn[v] => circuit[v] = "OPEN"
    /\ circuit[v] = "OPEN" => feed[v] \in {"read", "dropped", "top"}
    /\ circuit[v] = "OPEN" /\ feed[v] = "top" => ctxDone
    /\ circuit[v] = "HALF_OPEN" =>
          feed[v] \in {"top", "backoff", "dial"} \/ (feed[v] = "stopped" /\ ctxDone)

CircuitInv == \A v \in Venues : CircuitAt(v)

LEMMA FeedKeepsCircuit ==
    ASSUME FeedTypeOK, CircuitInv, NEW v \in Venues, RunFeed(v), ctxDone' = ctxDone
    PROVE  CircuitInv'
<1>1. \A w \in Venues : w # v =>
          /\ feed'[w] = feed[w] /\ circuit'[w] = circuit[w]
          /\ attempt'[w] = attempt[w] /\ conn'[w] = conn[w]
    BY DEF FeedTypeOK, RunFeed, FeedStops, StartAttempt, BackoffOver, BackoffCancelled, DialFails,
           DialSucceeds, ReadDrops, Dropped, ReadCancelled, At, SetState, NextAttempt,
           CircuitOnConnect, AfterDrop
<1>2. CircuitAt(v)'
    <2>0. /\ feed \in [Venues -> {"top", "backoff", "dial", "read", "dropped", "stopped"}]
          /\ circuit \in [Venues -> {"OPEN", "CLOSED", "HALF_OPEN"}]
          /\ attempt \in [Venues -> 0..MaxAttempts] /\ conn \in [Venues -> BOOLEAN]
        BY DEF FeedTypeOK
    <2>1. CircuitAt(v)
        BY DEF CircuitInv
    <2>2. CASE FeedStops(v)
        BY <2>0, <2>1, <2>2 DEF CircuitAt, FeedStops, At, SetState
    <2>3. CASE StartAttempt(v)
        BY <2>0, <2>1, <2>3 DEF CircuitAt, StartAttempt, At, SetState, Cancelled
    <2>4. CASE BackoffOver(v) \/ BackoffCancelled(v)
        BY <2>0, <2>1, <2>4 DEF CircuitAt, BackoffOver, BackoffCancelled, At, Cancelled
    <2>5. CASE DialFails(v)
        BY <2>0, <2>1, <2>5 DEF CircuitAt, DialFails, At
    <2>6. CASE DialSucceeds(v)
        BY <2>0, <2>1, <2>6 DEF CircuitAt, DialSucceeds, CircuitOnConnect, At, SetState
    <2>7. CASE ReadDrops(v)
        BY <2>0, <2>1, <2>7 DEF CircuitAt, ReadDrops, At
    <2>8. CASE ReadCancelled(v)
        BY <2>0, <2>1, <2>8 DEF CircuitAt, ReadCancelled, At, Cancelled
    <2>9. CASE Dropped(v)
        BY <2>0, <2>1, <2>9 DEF CircuitAt, Dropped, AfterDrop, At, SetState
    <2> QED BY <2>2, <2>3, <2>4, <2>5, <2>6, <2>7, <2>8, <2>9 DEF RunFeed
<1>3. ASSUME NEW w \in Venues, w # v PROVE CircuitAt(w)'
    BY <1>1, <1>3 DEF CircuitInv, CircuitAt
<1> QED BY <1>2, <1>3 DEF CircuitInv

-------------------------------------------------------------------------------
(* The tick channel *)

\* Who is about to send has a detector to send to, and is still reading.
SendingInv ==
    /\ sending # {} => detector = "running"
    /\ \A v \in sending : feed[v] = "read"

\* A feed's step is not one of a feed that is sending.
LEMMA FeedKeepsSending ==
    ASSUME FeedTypeOK, sending \subseteq Venues, SendingInv, NEW v \in Venues, v \notin sending,
           RunFeed(v), UNCHANGED detectorVars
    PROVE  SendingInv'
<1>1. \A w \in Venues : w # v => feed'[w] = feed[w]
    BY DEF FeedTypeOK, RunFeed, FeedStops, StartAttempt, BackoffOver, BackoffCancelled, DialFails,
           DialSucceeds, ReadDrops, Dropped, ReadCancelled, At, AfterDrop
<1>2. sending' = sending /\ detector' = detector
    BY DEF detectorVars
<1>3. ASSUME NEW w \in sending PROVE feed'[w] = "read"
    BY <1>1, <1>3 DEF SendingInv
<1> QED BY <1>2, <1>3 DEF SendingInv

-------------------------------------------------------------------------------
(* Every step *)

MarketInv == TypeInv /\ CircuitInv /\ SendingInv

LEMMA InvInit == Init => MarketInv
<1> SUFFICES ASSUME Init PROVE MarketInv
    OBVIOUS
<1>1. FeedTypeOK /\ CircuitInv
    <2>1. /\ feed \in [Venues -> {"top"}] /\ circuit \in [Venues -> {"CLOSED"}]
          /\ attempt \in [Venues -> 0..MaxAttempts]
        BY FeedAssumption DEF Init, FeedInit
    <2>2. conn \in [Venues -> {FALSE}] /\ ctxDone \in BOOLEAN
        BY Zenon DEF Init, FeedInit
    <2>3. \A v \in Venues : ~conn[v] /\ feed[v] = "top" /\ circuit[v] = "CLOSED"
        BY <2>1, <2>2
    <2>4. conn \in [Venues -> BOOLEAN]
        BY <2>2
    <2> QED BY <2>1, <2>2, <2>3, <2>4 DEF FeedTypeOK, CircuitInv, CircuitAt
<1>2. NoQuote \in Quotes /\ ~(NoQuote.age <= MaxQuoteAge)
    BY DetectorAssumption DEF NoQuote, Quotes
<1>3. DetectorTypes
    BY <1>2, EmptySeq, DetectorAssumption DEF Init, DetectorInit, DetectorTypes
<1>4. QuotesGood
    BY <1>2 DEF Init, DetectorInit, QuotesGood
<1>5. SendingInv
    BY DEF Init, DetectorInit, SendingInv
<1> QED BY <1>1, <1>3, <1>4, <1>5 DEF TypeInv, MarketInv

LEMMA InvStep == MarketInv /\ [Next]_vars => MarketInv'
<1> SUFFICES ASSUME MarketInv, [Next]_vars PROVE MarketInv'
    OBVIOUS
<1>0. FeedTypeOK /\ DetectorTypes /\ QuotesGood /\ CircuitInv /\ SendingInv
    BY DEF TypeInv, MarketInv
<1>1. ASSUME UNCHANGED feedVars, ctxDone' = ctxDone \/ ctxDone' = TRUE
      PROVE  FeedTypeOK' /\ CircuitInv'
    BY <1>0, <1>1 DEF FeedTypeOK, CircuitInv, CircuitAt, feedVars
<1>2. ASSUME UNCHANGED detectorVars PROVE DetectorTypes' /\ QuotesGood'
    BY <1>0, <1>2 DEF DetectorTypes, QuotesGood, detectorVars
<1>3. ASSUME NEW v \in Venues, FeedStep(v) PROVE MarketInv'
    <2>1. RunFeed(v) /\ v \notin sending /\ ctxDone' = ctxDone /\ UNCHANGED detectorVars
        BY <1>3 DEF FeedStep
    <2>2. sending \subseteq Venues
        BY <1>0 DEF DetectorTypes
    <2> QED BY <1>0, <1>2, <2>1, <2>2, FeedKeepsTypes, FeedKeepsCircuit, FeedKeepsSending
            DEF TypeInv, MarketInv
<1>4. ASSUME NEW v \in Venues, ReadMessage(v) \/ HandOver(v) PROVE MarketInv'
    <2>1. /\ PublishTick(v) \/ SendTick(v)
          /\ ctxDone' = ctxDone /\ UNCHANGED <<feedVars, quotes, detector>>
        BY <1>4 DEF ReadMessage, HandOver, PublishTick, SendTick
    <2>2. DetectorTypes' /\ QuotesGood'
        BY <1>0, <2>1, PublishKeepsTypes DEF QuotesGood
    <2>3. SendingInv'
        BY <1>0, <1>4 DEF SendingInv, ReadMessage, HandOver, PublishTick, SendTick, feedVars
    <2> QED BY <1>1, <2>1, <2>2, <2>3 DEF TypeInv, MarketInv
<1>5. CASE Detect
    <2>1. UNCHANGED feedVars /\ ctxDone' = ctxDone
        BY <1>5 DEF Detect
    <2>2. CASE OnTick
        <3>1. SendingInv'
            BY <1>0, <2>1, <2>2 DEF SendingInv, OnTick, feedVars
        <3> QED BY <1>0, <1>1, <2>1, <2>2, <3>1, OnTickKeepsTypes DEF TypeInv, MarketInv
    <2>3. CASE Subscribe
        BY <1>0, <1>1, <2>1, <2>3
           DEF TypeInv, MarketInv, SendingInv, DetectorTypes, QuotesGood, Subscribe, feedVars
    <2>4. CASE Stop
        <3>1. SendingInv'
            BY <1>0, <2>4 DEF SendingInv, Stop, TickWriteLock
        <3>2. DetectorTypes' /\ QuotesGood'
            BY <1>0, <2>4, EmptySeq, DetectorAssumption DEF DetectorTypes, QuotesGood, Stop
        <3> QED BY <1>1, <2>1, <3>1, <3>2 DEF TypeInv, MarketInv
    <2> QED BY <1>5, <2>2, <2>3, <2>4 DEF Detect
<1>6. CASE Elapse
    <2>1. UNCHANGED feedVars /\ ctxDone' = ctxDone /\ TimePasses
        BY <1>6 DEF Elapse
    <2>2. SendingInv'
        BY <1>0, <2>1 DEF SendingInv, TimePasses, feedVars
    <2> QED BY <1>0, <1>1, <2>1, <2>2, TimeKeepsTypes DEF TypeInv, MarketInv
<1>7. ASSUME UNCHANGED <<feedVars, detectorVars>> PROVE SendingInv'
    BY <1>0, <1>7 DEF SendingInv, feedVars, detectorVars
<1>8. CASE Cancel
    BY <1>1, <1>2, <1>7, <1>8 DEF Cancel, TypeInv, MarketInv
<1>9. CASE UNCHANGED vars
    BY <1>1, <1>2, <1>7, <1>9 DEF vars, TypeInv, MarketInv
<1> QED BY <1>3, <1>4, <1>5, <1>6, <1>8, <1>9 DEF Next

\* Every variable of the path keeps its type; in particular the tick channel
\* never holds more than its capacity, whatever the feeds read.
THEOREM TypeCorrect == Spec => []TypeOK
<1>1. MarketInv => TypeOK
    <2> SUFFICES ASSUME TypeInv PROVE TypeOK
        BY DEF MarketInv
    <2>1. \A i \in DOMAIN tickCh : tickCh[i] \in [venue : Venues, symbol : Symbols, book : Books]
        <3>1. tickCh \in Seq(Ticks)
            BY DEF TypeInv, DetectorTypes
        <3>2. \A i \in DOMAIN tickCh : tickCh[i] \in Ticks
            BY <3>1
        <3> QED BY <3>2 DEF Ticks
    <2>2. \A v \in Exchanges, s \in Symbols :
              quotes[v][s] \in [bid : Int, ask : Int, age : 0..(MaxQuoteAge + 1)]
        BY DEF TypeInv, DetectorTypes, Quotes
    <2> QED BY <2>1, <2>2 DEF TypeInv, DetectorTypes, TypeOK
<1> QED BY <1>1, InvInit, InvStep, PTL DEF Spec

\* However the connections of the venues come up and drop, and wherever the
\* context is cancelled, the circuit shown for a venue is that of its
\* connection.
THEOREM CircuitIsTheConnections == Spec => []CircuitFollowsFeed
<1>1. MarketInv => CircuitFollowsFeed
    <2> SUFFICES ASSUME MarketInv, NEW v \in Venues
                 PROVE  /\ v \in sending => circuit[v] = "OPEN"
                        /\ circuit[v] = "OPEN" =>
                              conn[v] \/ feed[v] = "dropped" \/ (feed[v] = "top" /\ ctxDone)
                        /\ circuit[v] = "HALF_OPEN" =>
                              \/ feed[v] \in {"top", "backoff", "dial"}
                              \/ feed[v] = "stopped" /\ ctxDone
        BY DEF CircuitFollowsFeed
    <2> QED BY DEF MarketInv, CircuitInv, CircuitAt, SendingInv
<1> QED BY <1>1, InvInit, InvStep, PTL DEF Spec

\* No feed ever sends a tick on the channel the detector has closed, however many
\* feeds publish while it leaves.
THEOREM TicksFindTheChannelOpen == Spec => []NeverTicksClosed
<1>1. MarketInv => NeverTicksClosed
    BY DEF MarketInv, SendingInv, NeverTicksClosed
<1> QED BY <1>1, InvInit, InvStep, PTL DEF Spec

-------------------------------------------------------------------------------
(* The scan *)

Positive == Nat \ {0}

LEMMA TimesMonotone ==
    ASSUME NEW k \in Nat, NEW x \in Int, NEW y \in Int, x <= y
    PROVE  k * x <= k * y
<1>1. k * (y - x) >= 0
    BY SMT
<1> QED BY <1>1, SMT

LEMMA TimesCancel ==
    ASSUME NEW k \in Positive, NEW x \in Int, NEW y \in Int, k * x <= k * y
    PROVE  x <= y
<1>1. CASE x > y
    <2>1. k * (x - y) > 0
        BY <1>1, SMT DEF Positive
    <2> QED BY <2>1, SMT DEF Positive
<1> QED BY <1>1, SMT

\* A spread that is wide enough stays so at a lower ask and a higher bid.
LEMMA SpreadMonotone ==
    ASSUME NEW a \in Positive, NEW b \in Positive, NEW a1 \in Positive, NEW b1 \in Positive,
           a <= a1, b1 <= b,
           SpreadNum(a1, b1) >= MinSpreadBps * SpreadDen(a1, b1)
    PROVE  SpreadNum(a, b) >= MinSpreadBps * SpreadDen(a, b)
<1> DEFINE m == MinSpreadBps
<1>0. m \in Nat /\ m > 0
    BY DetectorAssumption
<1> HIDE DEF m
<1>1. 20000 * (b1 - a1) >= m * (a1 + b1)
    BY DEF SpreadNum, SpreadDen, m
<1>2. m < 20000
    <2>1. CASE m >= 20000
        <3>1. (a1 + b1) * 20000 <= (a1 + b1) * m
            BY <1>0, <2>1, TimesMonotone DEF Positive
        <3>2. 20000 * (b1 - a1) >= (a1 + b1) * 20000
            BY <1>0, <1>1, <3>1, SMT DEF Positive
        <3> QED BY <3>2, SMT DEF Positive
    <2> QED BY <1>0, <2>1
<1>3. (20000 - m) * b1 <= (20000 - m) * b
    BY <1>0, <1>2, TimesMonotone DEF Positive
<1>4. (20000 + m) * a <= (20000 + m) * a1
    BY <1>0, TimesMonotone DEF Positive
<1>5. (20000 + m) * a1 <= (20000 - m) * b1
    BY <1>0, <1>1, SMT DEF Positive
<1>6. (20000 + m) * a <= (20000 - m) * b
    BY <1>0, <1>3, <1>4, <1>5, SMT DEF Positive
<1>7. 20000 * (b - a) >= m * (a + b)
    BY <1>0, <1>6, SMT DEF Positive
<1> QED BY <1>7 DEF SpreadNum, SpreadDen, m

\* The confidence in the spread, in fractions of Unit.
Scaled(ask, bid) ==
    LET unit == Unit(ask, bid)
        wide == MinSpreadBps * SpreadDen(ask, bid) + SpreadNum(ask, bid)
    IN CASE wide > 2 * unit -> 2 * unit [] wide < unit -> unit [] OTHER -> wide

Base == IF BaseNotional > 0 THEN BaseNotional ELSE MinPositionUSD

LEMMA UnitPositive ==
    ASSUME NEW a \in Positive, NEW b \in Positive
    PROVE  Unit(a, b) \in Positive /\ SpreadDen(a, b) \in Positive
           /\ Unit(a, b) = 2 * (MinSpreadBps * SpreadDen(a, b))
           /\ MinSpreadBps * SpreadDen(a, b) \in Positive
<1> DEFINE m == MinSpreadBps
           d == SpreadDen(a, b)
<1>1. m \in Nat /\ m > 0 /\ d \in Nat /\ d > 0
    BY DetectorAssumption DEF SpreadDen, Positive
<1> HIDE DEF m, d
<1>2. m * d \in Nat /\ m * d > 0
    BY <1>1, SMT
<1>3. Unit(a, b) = 2 * m * d /\ 2 * m * d = 2 * (m * d)
    BY <1>1, SMT DEF Unit, m, d
<1> QED BY <1>1, <1>2, <1>3 DEF Positive, m, d

\* The wider of two spreads that are wide enough is not trusted less.
LEMMA ScaledMonotone ==
    ASSUME NEW a \in Positive, NEW b \in Positive, NEW a1 \in Positive, NEW b1 \in Positive,
           a <= a1, b1 <= b,
           SpreadNum(a1, b1) >= MinSpreadBps * SpreadDen(a1, b1),
           SpreadNum(a, b) >= MinSpreadBps * SpreadDen(a, b)
    PROVE  /\ Scaled(a, b) \in Positive /\ Scaled(a1, b1) \in Positive
           /\ Unit(a, b) <= Scaled(a, b) /\ Unit(a1, b1) <= Scaled(a1, b1)
           /\ Scaled(a1, b1) * Unit(a, b) <= Scaled(a, b) * Unit(a1, b1)
<1> DEFINE e == MinSpreadBps * SpreadDen(a, b)
           e1 == MinSpreadBps * SpreadDen(a1, b1)
           n == SpreadNum(a, b)
           n1 == SpreadNum(a1, b1)
<1>1. e \in Positive /\ e1 \in Positive /\ Unit(a, b) = 2 * e /\ Unit(a1, b1) = 2 * e1
    BY UnitPositive
<1>2. n \in Int /\ n1 \in Int /\ n >= e /\ n1 >= e1
    BY DEF SpreadNum, Positive
<1>3. /\ Scaled(a, b) = IF e + n > 4 * e THEN 4 * e ELSE e + n
      /\ Scaled(a1, b1) = IF e1 + n1 > 4 * e1 THEN 4 * e1 ELSE e1 + n1
    BY <1>1, <1>2 DEF Scaled, Positive
<1>4. n1 * SpreadDen(a, b) <= n * SpreadDen(a1, b1)
    <2>1. b1 * a <= b * a1
        <3>1. a * b1 <= a * b
            BY TimesMonotone DEF Positive
        <3>2. b * a <= b * a1
            BY TimesMonotone DEF Positive
        <3> QED BY <3>1, <3>2, SMT DEF Positive
    <2> QED BY <2>1, SMT DEF SpreadNum, SpreadDen, Positive
<1>5. n1 * e <= n * e1
    <2> DEFINE d == SpreadDen(a, b)
               d1 == SpreadDen(a1, b1)
               m == MinSpreadBps
    <2>1. m \in Nat /\ d \in Int /\ d1 \in Int
        BY DetectorAssumption, UnitPositive DEF Positive
    <2>2. n1 * d \in Int /\ n * d1 \in Int /\ n1 * d <= n * d1
        BY <1>2, <1>4, <2>1
    <2>3. m * (n1 * d) <= m * (n * d1)
        BY <2>1, <2>2, TimesMonotone
    <2>4. e = m * d /\ e1 = m * d1
        OBVIOUS
    <2> HIDE DEF e, e1, n, n1, m, d, d1
    <2>5. n1 * (m * d) = m * (n1 * d) /\ n * (m * d1) = m * (n * d1)
        BY <1>2, <2>1, SMT
    <2> QED BY <2>3, <2>4, <2>5
<1> HIDE DEF e, e1, n, n1
<1>6. (IF e1 + n1 > 4 * e1 THEN 4 * e1 ELSE e1 + n1) * (2 * e)
        <= (IF e + n > 4 * e THEN 4 * e ELSE e + n) * (2 * e1)
    <2>1. (e1 + n1) * (2 * e) <= (e + n) * (2 * e1)
        BY <1>1, <1>2, <1>5, SMT DEF Positive
    <2>2. CASE e + n > 4 * e
        <3>1. (2 * e) * (IF e1 + n1 > 4 * e1 THEN 4 * e1 ELSE e1 + n1) <= (2 * e) * (4 * e1)
            BY <1>1, <1>2, TimesMonotone DEF Positive
        <3> QED BY <1>1, <1>2, <2>2, <3>1, SMT DEF Positive
    <2>3. CASE ~(e + n > 4 * e)
        <3>1. (2 * e) * (IF e1 + n1 > 4 * e1 THEN 4 * e1 ELSE e1 + n1) <= (2 * e) * (e1 + n1)
            BY <1>1, <1>2, TimesMonotone DEF Positive
        <3> QED BY <1>1, <1>2, <2>1, <2>3, <3>1, SMT DEF Positive
    <2> QED BY <2>2, <2>3
<1> QED BY <1>1, <1>2, <1>3, <1>6 DEF Positive

LEMMA NotionalIs ==
    ASSUME NEW a \in Positive, NEW b \in Positive, Scaled(a, b) \in Positive
    PROVE  LET unit == Unit(a, b)
               size == Base * Scaled(a, b)
               limited == IF size > MaxPositionUSD * unit THEN MaxPositionUSD * unit ELSE size
           IN /\ Notional(a, b) = IF limited < MinPositionUSD * unit THEN 0 ELSE limited
              /\ size \in Nat /\ MaxPositionUSD * unit \in Nat /\ MinPositionUSD * unit \in Nat
              /\ unit \in Positive /\ Base \in Nat
<1>1. Unit(a, b) \in Positive
    BY UnitPositive
<1>2. Base \in Nat /\ MinPositionUSD \in Nat /\ MaxPositionUSD \in Nat
    BY DetectorAssumption DEF Base
<1>3. Sized(a, b) = Base * Scaled(a, b)
    BY DEF Sized, Base, Scaled
<1>4. Base * Scaled(a, b) \in Nat
    BY <1>2 DEF Positive
<1>5. MaxPositionUSD * Unit(a, b) \in Nat /\ MinPositionUSD * Unit(a, b) \in Nat
    BY <1>1, <1>2 DEF Positive
<1> QED BY <1>1, <1>2, <1>3, <1>4, <1>5 DEF Notional, Limited

\* What is worth an opportunity stays so at a lower ask and a higher bid: the
\* best prices are worth one if any are.
LEMMA WorthwhileMonotone ==
    ASSUME NEW a \in Positive, NEW b \in Positive, NEW a1 \in Positive, NEW b1 \in Positive,
           a <= a1, b1 <= b, Worthwhile(a1, b1)
    PROVE  Worthwhile(a, b)
<1>1. SpreadNum(a, b) >= MinSpreadBps * SpreadDen(a, b)
    BY SpreadMonotone DEF Worthwhile
<1>2. /\ Scaled(a, b) \in Positive /\ Scaled(a1, b1) \in Positive
      /\ Scaled(a1, b1) * Unit(a, b) <= Scaled(a, b) * Unit(a1, b1)
    BY <1>1, ScaledMonotone DEF Worthwhile
<1> DEFINE c == Scaled(a, b)
           c1 == Scaled(a1, b1)
           u == Unit(a, b)
           u1 == Unit(a1, b1)
           min == MinPositionUSD
           max == MaxPositionUSD
<1>3. /\ Base \in Nat /\ u \in Positive /\ u1 \in Positive
      /\ Base * c \in Nat /\ Base * c1 \in Nat
      /\ Notional(a, b) = IF (IF Base * c > max * u THEN max * u ELSE Base * c) < min * u
                          THEN 0 ELSE (IF Base * c > max * u THEN max * u ELSE Base * c)
      /\ Notional(a1, b1) = IF (IF Base * c1 > max * u1 THEN max * u1 ELSE Base * c1) < min * u1
                            THEN 0 ELSE (IF Base * c1 > max * u1 THEN max * u1 ELSE Base * c1)
    BY <1>2, NotionalIs
<1>4. Notional(a1, b1) > 0
    BY DEF Worthwhile
<1>5. c \in Positive /\ c1 \in Positive /\ c1 * u <= c * u1
    BY <1>2
<1>6. min \in Nat /\ max \in Nat
    BY DetectorAssumption
<1> HIDE DEF c, c1, u, u1, min, max
<1>7. /\ max * u1 \in Int /\ min * u1 \in Int /\ max * u \in Int /\ min * u \in Int
    BY <1>3, <1>6 DEF Positive
<1>8. Base * c1 >= min * u1 /\ max * u1 >= min * u1 /\ Base * c1 > 0 /\ max * u1 > 0
    BY <1>3, <1>4, <1>7
<1>9. Base \in Positive /\ max \in Positive
    BY <1>3, <1>5, <1>6, <1>8, SMT DEF Positive
<1>10. u * (min * u1) <= u * (Base * c1)
    BY <1>3, <1>7, <1>8, TimesMonotone DEF Positive
<1>11. Base * (c1 * u) <= Base * (c * u1)
    BY <1>3, <1>5, TimesMonotone DEF Positive
<1>12. u1 * (min * u) <= u1 * (Base * c)
    <2>1. u1 * (min * u) = u * (min * u1) /\ u * (Base * c1) = Base * (c1 * u)
          /\ u1 * (Base * c) = Base * (c * u1)
        BY <1>3, <1>5, <1>6, SMT DEF Positive
    <2>2. u * (min * u1) \in Int /\ u * (Base * c1) \in Int /\ Base * (c * u1) \in Int
        BY <1>3, <1>5, <1>6, SMT DEF Positive
    <2> QED BY <1>10, <1>11, <2>1, <2>2
<1>13. min * u <= Base * c
    BY <1>3, <1>7, <1>12, TimesCancel
<1>14. min * u <= max * u
    <2>1. u1 * min <= u1 * max
        BY <1>3, <1>6, <1>8, SMT DEF Positive
    <2>2. min <= max
        BY <1>3, <1>6, <2>1, TimesCancel
    <2>3. u * min <= u * max
        BY <1>3, <1>6, <2>2, TimesMonotone DEF Positive
    <2> QED BY <1>3, <1>6, <2>3, SMT DEF Positive
<1>15. Base * c > 0 /\ max * u > 0
    BY <1>3, <1>5, <1>9, SMT DEF Positive
<1>16. Notional(a, b) > 0
    BY <1>3, <1>7, <1>13, <1>14, <1>15
<1> QED BY <1>1, <1>16 DEF Worthwhile

LEMMA SizeWithinLimits ==
    ASSUME NEW a \in Positive, NEW b \in Positive, Worthwhile(a, b)
    PROVE  /\ Notional(a, b) >= MinPositionUSD * Unit(a, b)
           /\ Notional(a, b) <= MaxPositionUSD * Unit(a, b)
<1>1. Scaled(a, b) \in Positive
    BY ScaledMonotone DEF Worthwhile, Positive
<1> DEFINE size == Base * Scaled(a, b)
           top == MaxPositionUSD * Unit(a, b)
           bottom == MinPositionUSD * Unit(a, b)
<1>2. /\ Notional(a, b) = IF (IF size > top THEN top ELSE size) < bottom
                          THEN 0 ELSE (IF size > top THEN top ELSE size)
      /\ size \in Nat /\ top \in Nat /\ bottom \in Nat
    BY <1>1, NotionalIs
<1>3. Notional(a, b) > 0
    BY DEF Worthwhile
<1> HIDE DEF size, top, bottom
<1>4. Notional(a, b) >= bottom /\ Notional(a, b) <= top
    BY <1>2, <1>3
<1> QED BY <1>4 DEF top, bottom

\* A fresh quote is two prices, and not crossed by its own venue.
Sane(q) ==
    \A v \in Exchanges : q[v].age <= MaxQuoteAge =>
        q[v].bid \in Positive /\ q[v].ask \in Positive /\ q[v].bid <= q[v].ask

LEMMA NotWorthCrossing ==
    ASSUME NEW a \in Positive, NEW b \in Positive, b <= a
    PROVE  ~Worthwhile(a, b)
<1>1. MinSpreadBps * SpreadDen(a, b) > 0
    BY UnitPositive DEF Positive
<1>2. SpreadNum(a, b) <= 0
    BY SMT DEF SpreadNum, Positive
<1>3. SpreadNum(a, b) \in Int /\ MinSpreadBps * SpreadDen(a, b) \in Int
    BY UnitPositive DEF SpreadNum, Positive
<1> QED BY <1>1, <1>2, <1>3 DEF Worthwhile

LEMMA TooFewQuotes ==
    ASSUME IsFiniteSet(Exchanges), NEW q, Cardinality(Fresh(q)) < 2
    PROVE  Profitable(q) = {}
<1> SUFFICES ASSUME NEW pair \in Profitable(q) PROVE FALSE
    OBVIOUS
<1>1. pair[1] # pair[2] /\ pair[1] \in Fresh(q) /\ pair[2] \in Fresh(q)
    BY DEF Profitable, Fresh
<1>2. IsFiniteSet(Fresh(q)) /\ Cardinality(Fresh(q)) \in Nat
    BY FS_Subset, FS_CardinalityType DEF Fresh
<1>3. Cardinality({pair[1], pair[2]}) <= Cardinality(Fresh(q))
    BY <1>1, <1>2, FS_Subset
<1>4. Cardinality({pair[1], pair[2]}) = 2
    <2>1. IsFiniteSet({pair[1]}) /\ Cardinality({pair[1]}) = 1
        BY FS_Singleton
    <2>2. {pair[1]} \cup {pair[2]} = {pair[1], pair[2]} /\ pair[2] \notin {pair[1]}
        BY <1>1
    <2>3. Cardinality({pair[1]} \cup {pair[2]}) = Cardinality({pair[1]}) + 1
        BY <2>1, <2>2, FS_AddElement, Zenon
    <2> QED BY <2>1, <2>2, <2>3
<1> QED BY <1>2, <1>3, <1>4

\* The two best prices decide for every pair.
LEMMA ScanIsRight ==
    ASSUME IsFiniteSet(Exchanges), NEW q, Sane(q), NEW opp \in Scan(q)
    PROVE  IF Profitable(q) = {} THEN opp = NoOpp
           ELSE /\ <<opp.buy, opp.sell>> \in Profitable(q)
                /\ \A pair \in Profitable(q) :
                      opp.bid - opp.ask >= q[pair[2]].bid - q[pair[1]].ask
                /\ opp.size >= MinPositionUSD * Unit(opp.ask, opp.bid)
                /\ opp.size <= MaxPositionUSD * Unit(opp.ask, opp.bid)
<1>1. CASE Cardinality(Fresh(q)) < 2
    BY <1>1, TooFewQuotes DEF Scan
<1>2. CASE ~(Cardinality(Fresh(q)) < 2)
    <2>1. PICK b \in BestBuy(q), s \in BestSell(q) :
              opp = IF b # s /\ Worthwhile(q[b].ask, q[s].bid) THEN Opp(q, b, s) ELSE NoOpp
        BY <1>2 DEF Scan
    <2>2. /\ b \in Exchanges /\ q[b].age <= MaxQuoteAge
          /\ s \in Exchanges /\ q[s].age <= MaxQuoteAge
          /\ q[b].ask \in Positive /\ q[b].bid \in Positive /\ q[b].bid <= q[b].ask
          /\ q[s].ask \in Positive /\ q[s].bid \in Positive /\ q[s].bid <= q[s].ask
        BY DEF BestBuy, BestSell, Fresh, Sane
    <2>3. ASSUME NEW pair \in Profitable(q)
          PROVE  /\ q[pair[1]].ask \in Positive /\ q[pair[2]].bid \in Positive
                 /\ q[b].ask <= q[pair[1]].ask /\ q[pair[2]].bid <= q[s].bid
                 /\ Worthwhile(q[pair[1]].ask, q[pair[2]].bid)
        <3>1. /\ pair[1] \in Fresh(q) /\ pair[2] \in Fresh(q)
              /\ pair[1] \in Exchanges /\ pair[2] \in Exchanges
              /\ Worthwhile(q[pair[1]].ask, q[pair[2]].bid)
            BY DEF Profitable, Fresh
        <3>2. q[pair[1]].ask \in Positive /\ q[pair[2]].bid \in Positive
            BY <3>1 DEF Fresh, Sane
        <3>3. q[b].ask <= q[pair[1]].ask /\ q[s].bid >= q[pair[2]].bid
            BY <3>1 DEF BestBuy, BestSell
        <3> QED BY <2>2, <3>1, <3>2, <3>3 DEF Positive
    <2>4. CASE b # s /\ Worthwhile(q[b].ask, q[s].bid)
        <3>1. /\ opp.buy = b /\ opp.sell = s /\ opp.ask = q[b].ask /\ opp.bid = q[s].bid
              /\ opp.size = Notional(q[b].ask, q[s].bid)
            BY <2>1, <2>4 DEF Opp
        <3>2. <<b, s>> \in Profitable(q)
            BY <2>2, <2>4 DEF Profitable
        <3>3. \A pair \in Profitable(q) :
                  q[s].bid - q[b].ask >= q[pair[2]].bid - q[pair[1]].ask
            BY <2>2, <2>3 DEF Positive
        <3>4. /\ Notional(q[b].ask, q[s].bid) >= MinPositionUSD * Unit(q[b].ask, q[s].bid)
              /\ Notional(q[b].ask, q[s].bid) <= MaxPositionUSD * Unit(q[b].ask, q[s].bid)
            BY <2>2, <2>4, SizeWithinLimits
        <3> QED BY <3>1, <3>2, <3>3, <3>4
    <2>5. CASE ~(b # s /\ Worthwhile(q[b].ask, q[s].bid))
        <3>1. opp = NoOpp
            BY <2>1, <2>5
        <3>2. ASSUME NEW pair \in Profitable(q) PROVE FALSE
            <4>1. Worthwhile(q[b].ask, q[s].bid)
                BY <2>2, <2>3, WorthwhileMonotone
            <4>2. b = s
                BY <2>5, <4>1
            <4> QED BY <2>2, <4>1, <4>2, NotWorthCrossing
        <3>3. Profitable(q) = {}
            BY <3>2
        <3> QED BY <3>1, <3>3
    <2> QED BY <2>4, <2>5
<1> QED BY <1>1, <1>2

\* Looking only at the best ask and the best bid misses nothing: whatever the
\* quotes, a scan submits an opportunity exactly when some pair of venues is
\* worth one, then one of the widest, and of a size within the limits.  The
\* premise is that no book has its bid above its ask: of a crossed one the
\* detector makes both best prices, and it gives up although others may do.
THEOREM ScanIsBest ==
    ASSUME IsFiniteSet(Exchanges), \A b \in Books : b.bid <= b.ask
    PROVE  Spec => []ScanFindsTheBest
<1>1. ASSUME TypeInv, NEW s \in Symbols, NEW other \in [Exchanges \ Venues -> Known]
      PROVE  Sane([v \in Exchanges |-> IF v \in Venues THEN quotes[v][s] ELSE other[v]])
    <2> DEFINE q == [v \in Exchanges |-> IF v \in Venues THEN quotes[v][s] ELSE other[v]]
    <2>1. ASSUME NEW v \in Exchanges, q[v].age <= MaxQuoteAge PROVE Good(q[v])
        <3>1. CASE v \in Venues
            BY <1>1, <2>1, <3>1 DEF TypeInv, QuotesGood
        <3>2. CASE v \notin Venues
            <4>1. q[v] \in Known
                BY <3>2
            <4>2. NoQuote.age = MaxQuoteAge + 1 /\ MaxQuoteAge \in Nat
                BY DetectorAssumption DEF NoQuote
            <4>3. q[v] # NoQuote
                BY <2>1, <4>2
            <4>4. PICK b \in Books : b.bid > 0 /\ b.ask > 0
                                     /\ q[v] = [bid |-> b.bid, ask |-> b.ask, age |-> 0]
                BY <4>1, <4>3 DEF Known
            <4> QED BY <4>4 DEF Good
        <3> QED BY <3>1, <3>2
    <2>2. ASSUME NEW x, Good(x)
          PROVE  x.bid \in Positive /\ x.ask \in Positive /\ x.bid <= x.ask
        BY <2>2, DetectorAssumption DEF Good, Positive
    <2> QED BY <2>1, <2>2 DEF Sane
<1>2. MarketInv => ScanFindsTheBest
    BY <1>1, ScanIsRight DEF ScanFindsTheBest, MarketInv
<1> QED BY <1>2, InvInit, InvStep, PTL DEF Spec
===============================================================================
