------------------------------ MODULE MarketData ------------------------------
(***************************************************************************)
(* From the venues' connections to the execution engine's Submit: the feed *)
(* manager and the detector, joined by PublishTick's fan-out of            *)
(* internal/redis/pipeline.go, of which the detector is the only           *)
(* subscriber.                                                             *)
(***************************************************************************)
EXTENDS FeedManager, Detector

\* A feed publishes its ticks under the name of its venue.
ASSUME FeedsAreExchanges == Venues \subseteq Exchanges

vars == <<feedVars, detectorVars, ctxDone>>

Init ==
    /\ FeedInit
    /\ DetectorInit
    /\ ctxDone = FALSE

\* A feed inside PublishTick takes no other step.
FeedStep(v) ==
    /\ v \notin sending
    /\ RunFeed(v)
    /\ UNCHANGED <<detectorVars, ctxDone>>

\* A message is read and published by the feed's goroutine.
ReadMessage(v) ==
    /\ feed[v] = "read"
    /\ PublishTick(v)
    /\ UNCHANGED <<feedVars, ctxDone>>

HandOver(v) ==
    /\ SendTick(v)
    /\ UNCHANGED <<feedVars, ctxDone>>

Detect ==
    /\ Subscribe \/ OnTick \/ (ctxDone /\ Stop)
    /\ UNCHANGED <<feedVars, ctxDone>>

Elapse ==
    /\ TimePasses
    /\ UNCHANGED <<feedVars, ctxDone>>

Cancel ==
    /\ ~ctxDone
    /\ ctxDone' = TRUE
    /\ UNCHANGED <<feedVars, detectorVars>>

Next ==
    \/ \E v \in Venues : FeedStep(v) \/ ReadMessage(v) \/ HandOver(v)
    \/ Detect \/ Elapse \/ Cancel

Spec == Init /\ [][Next]_vars

\* A feed owes a step unless it waits for a message, which the venue need not
\* send; the detector owes its subscription and its end.
FeedOwes(v) == FeedStep(v) /\ (feed[v] = "read" => ctxDone)

DetectorOwes ==
    /\ Subscribe \/ (ctxDone /\ Stop)
    /\ UNCHANGED <<feedVars, ctxDone>>

\* Every goroutine is scheduled, and one of several dials succeeds.  A feed whose
\* context is cancelled is told so each time it comes back to the head of its
\* read loop, however many messages there are: strong fairness.
Fairness ==
    /\ \A v \in Venues :
          /\ SF_vars(FeedOwes(v))
          /\ WF_vars(HandOver(v))
          /\ SF_vars(DialSucceeds(v) /\ UNCHANGED <<detectorVars, ctxDone>>)
    /\ WF_vars(DetectorOwes)

FairSpec == Spec /\ Fairness

-------------------------------------------------------------------------------
TypeOK ==
    /\ FeedTypeOK
    /\ detector \in {"starting", "running", "stopped"}
    /\ Len(tickCh) <= TickCap
    /\ sending \subseteq Venues
    /\ \A i \in DOMAIN tickCh : tickCh[i] \in [venue : Venues, symbol : Symbols, book : Books]
    /\ \A v \in Exchanges, s \in Symbols :
          quotes[v][s] \in [bid : Int, ask : Int, age : 0..(MaxQuoteAge + 1)]
    /\ sinceOpp \in [Symbols -> 0..OppCooldown]

\* The circuit the dashboard shows goes with the connection: it is open while a
\* venue's ticks are handed on, and never without a connection except until
\* runFeed has taken note of its end; it is half open only while runFeed tries to
\* connect again, or was told to stop while it did.
CircuitFollowsFeed ==
    \A v \in Venues :
        /\ v \in sending => circuit[v] = "OPEN"
        /\ circuit[v] = "OPEN" => conn[v] \/ feed[v] = "dropped" \/ (feed[v] = "top" /\ ctxDone)
        /\ circuit[v] = "HALF_OPEN" =>
              feed[v] \in {"top", "backoff", "dial"} \/ (feed[v] = "stopped" /\ ctxDone)

\* A feed about to send a tick never finds the channel closed, which would end
\* the process: the detector cannot leave between a feed's look at the
\* subscribers and its send.
NeverTicksClosed == sending # {} => detector = "running"

\* Pairs of venues a careful reader of the quotes q would trade.
Profitable(q) ==
    {pair \in Exchanges \X Exchanges :
        LET b == pair[1] s == pair[2] IN
        /\ b # s
        /\ q[b].age <= MaxQuoteAge /\ q[s].age <= MaxQuoteAge
        /\ Worthwhile(q[b].ask, q[s].bid)}

\* What the detector may hold for a venue: no quote, or a fresh one.
Known ==
    {NoQuote} \union {[bid |-> b.bid, ask |-> b.ask, age |-> 0] :
                         b \in {x \in Books : x.bid > 0 /\ x.ask > 0}}

\* A scan submits an opportunity if and only if some pair of distinct venues
\* with fresh quotes is worth one, and then one of the widest, although the
\* code looks only at the best price of each side and gives up when both are
\* one venue's: with the quotes at hand, and any that exchanges without a feed
\* of their own may have.  (No venue's own bid is above its ask.)  Its size is
\* within the position limits, whatever the spread.
ScanFindsTheBest ==
    \A s \in Symbols, other \in [Exchanges \ Venues -> Known] :
        LET q == [v \in Exchanges |-> IF v \in Venues THEN quotes[v][s] ELSE other[v]] IN
        \A opp \in Scan(q) :
            IF Profitable(q) = {} THEN opp = NoOpp
            ELSE /\ <<opp.buy, opp.sell>> \in Profitable(q)
                 /\ \A pair \in Profitable(q) :
                       opp.bid - opp.ask >= q[pair[2]].bid - q[pair[1]].ask
                 /\ opp.size >= MinPositionUSD * Unit(opp.ask, opp.bid)
                 /\ opp.size <= MaxPositionUSD * Unit(opp.ask, opp.bid)

\* A feed that is not connected is connected again, unless told to stop.
FeedReconnects == \A v \in Venues : ~conn[v] ~> (conn[v] \/ ctxDone)

\* Cancelling the context stops every feed and the detector, wherever they are.
AllStop ==
    ctxDone ~> (detector = "stopped" /\ \A v \in Venues : feed[v] = "stopped" /\ ~conn[v])
===============================================================================
