------------------------------- MODULE Detector -------------------------------
(***************************************************************************)
(* The arbitrage detector of internal/execution/detector.go: one goroutine *)
(* that receives ticks, keeps the latest quote of each venue and symbol,   *)
(* and on each tick scans the fresh quotes of its symbol for a pair of     *)
(* venues worth an opportunity.                                            *)
(*                                                                         *)
(* Time passes in steps: a quote is fresh up to MaxQuoteAge of them, and a *)
(* symbol cools down for OppCooldown.  Prices are integers, and a size is  *)
(* held as a fraction whose denominator is Unit.                           *)
(***************************************************************************)
EXTENDS Integers, Sequences, FiniteSets

CONSTANTS
    Exchanges,        \* the values of tick.Exchange
    Symbols,
    Books,            \* [bid, ask] pairs a message may carry
    TickCap,          \* capacity of the tick channel
    MaxQuoteAge,      \* maxQuoteAgeMs, in steps of time
    OppCooldown,      \* oppCooldown, in steps of time
    MinSpreadBps,     \* Detector.minSpreadBps
    BaseNotional,     \* RiskParams.BaseRiskPct * RiskParams.DailyLossLimit
    MinPositionUSD,
    MaxPositionUSD

ASSUME DetectorAssumption ==
    /\ Books \subseteq [bid : Int, ask : Int]
    /\ TickCap \in Nat /\ MaxQuoteAge \in Nat /\ OppCooldown \in Nat
    /\ MinSpreadBps \in Nat \ {0}
    /\ BaseNotional \in Nat /\ MinPositionUSD \in Nat /\ MaxPositionUSD \in Nat

VARIABLES
    detector,         \* starting, running or stopped
    tickCh,           \* the channel SubscribeTicks returned
    sending,          \* callers of PublishTick whose send to it is ahead
    quotes,           \* quotes[v][s]: NoQuote, or bid, ask and age
    sinceOpp          \* sinceOpp[s]: time since lastOpp[s], up to OppCooldown

detectorVars == <<detector, tickCh, sending, quotes, sinceOpp>>

NoQuote == [bid |-> 0, ask |-> 0, age |-> MaxQuoteAge + 1]
NoOpp   == [buy |-> "none", sell |-> "none", ask |-> 0, bid |-> 0, size |-> 0]

DetectorInit ==
    /\ detector = "starting"
    /\ tickCh = <<>>
    /\ sending = {}
    /\ quotes = [v \in Exchanges |-> [s \in Symbols |-> NoQuote]]
    /\ sinceOpp = [s \in Symbols |-> OppCooldown]

\* tickMu: PublishTick holds it for reading from its look at the subscribers to
\* its last send; subscribing and unsubscribing take it for writing.
\* Mutant: the list of subscribers is changed without the lock.
NoTickLock == TRUE

TickWriteLock == sending = {}

Subscribe ==
    /\ detector = "starting"
    /\ TickWriteLock
    /\ detector' = "running"
    /\ UNCHANGED <<tickCh, sending, quotes, sinceOpp>>

\* PublishTick of a message that parses, up to its send.  A malformed message is
\* discarded, and without a subscriber there is nothing to send: no step.
PublishTick(v) ==
    /\ v \notin sending
    /\ detector = "running"
    /\ sending' = sending \union {v}
    /\ UNCHANGED <<detector, tickCh, quotes, sinceOpp>>

\* Mutant: one more than the channel holds.
TickRoomOffByOne == Len(tickCh) <= TickCap

TickRoom == Len(tickCh) < TickCap

\* A tick that finds the channel full is dropped.  What the tick says is chosen
\* here, where it is first seen by another goroutine.
SendTick(v) ==
    /\ v \in sending
    /\ sending' = sending \ {v}
    /\ IF TickRoom
       THEN \E s \in Symbols, b \in Books :
               tickCh' = Append(tickCh, [venue |-> v, symbol |-> s, book |-> b])
       ELSE UNCHANGED tickCh
    /\ UNCHANGED <<detector, quotes, sinceOpp>>

-------------------------------------------------------------------------------
(* scanSymbol, for the quotes q of one symbol *)

Fresh(q) == {v \in Exchanges : q[v].age <= MaxQuoteAge}

\* The spread in basis points of the mid is SpreadNum over SpreadDen.
SpreadNum(ask, bid) == 20000 * (bid - ask)
SpreadDen(ask, bid) == ask + bid

Unit(ask, bid) == 2 * MinSpreadBps * SpreadDen(ask, bid)

\* The base size, scaled by the confidence in the spread, between one and two.
Sized(ask, bid) ==
    LET base == IF BaseNotional > 0 THEN BaseNotional ELSE MinPositionUSD
        unit == Unit(ask, bid)
        wide == MinSpreadBps * SpreadDen(ask, bid) + SpreadNum(ask, bid)
    IN base * (CASE wide > 2 * unit -> 2 * unit [] wide < unit -> unit [] OTHER -> wide)

Limited(size, unit) == IF size > MaxPositionUSD * unit THEN MaxPositionUSD * unit ELSE size

\* calcQuantity before the division by the ask, in fractions of Unit.
Notional(ask, bid) ==
    LET unit == Unit(ask, bid)
        size == Limited(Sized(ask, bid), unit)
    IN IF size < MinPositionUSD * unit THEN 0 ELSE size

Worthwhile(ask, bid) ==
    /\ SpreadNum(ask, bid) >= MinSpreadBps * SpreadDen(ask, bid)
    /\ Notional(ask, bid) > 0

Opp(q, b, s) ==
    [buy |-> b, sell |-> s, ask |-> q[b].ask, bid |-> q[s].bid,
     size |-> Notional(q[b].ask, q[s].bid)]

\* Mutant: the venue to sell at is the one with the lowest bid.
BestSellLowest(q) == {v \in Fresh(q) : \A w \in Fresh(q) : q[v].bid <= q[w].bid}

\* The map of quotes is ranged over in any order: of equal quotes any may win.
BestBuy(q)  == {v \in Fresh(q) : \A w \in Fresh(q) : q[v].ask <= q[w].ask}
BestSell(q) == {v \in Fresh(q) : \A w \in Fresh(q) : q[v].bid >= q[w].bid}

\* What a scan may submit.
Scan(q) ==
    IF Cardinality(Fresh(q)) < 2 THEN {NoOpp}
    ELSE {IF b # s /\ Worthwhile(q[b].ask, q[s].bid) THEN Opp(q, b, s) ELSE NoOpp :
             b \in BestBuy(q), s \in BestSell(q)}

\* An opportunity is submitted, and its symbol cools down.
CoolDown(s) == sinceOpp' = [sinceOpp EXCEPT ![s] = 0]

\* onTick: the quote is stored with the time it is received here, not the
\* time the venue gave it, and its symbol is scanned.
OnTick ==
    /\ detector = "running"
    /\ tickCh # <<>>
    /\ tickCh' = Tail(tickCh)
    /\ LET tick  == Head(tickCh)
           s     == tick.symbol
           known == [quotes EXCEPT ![tick.venue][s] =
                        [bid |-> tick.book.bid, ask |-> tick.book.ask, age |-> 0]]
       IN IF tick.book.bid <= 0 \/ tick.book.ask <= 0
          THEN UNCHANGED <<quotes, sinceOpp>>
          ELSE /\ quotes' = known
               /\ IF sinceOpp[s] < OppCooldown
                  THEN UNCHANGED sinceOpp
                  ELSE \E opp \in Scan([v \in Exchanges |-> known[v][s]]) :
                          IF opp = NoOpp THEN UNCHANGED sinceOpp ELSE CoolDown(s)
    /\ UNCHANGED <<detector, sending>>

\* The deferred UnsubscribeTicks closes the channel.
Stop ==
    /\ detector = "running"
    /\ TickWriteLock
    /\ detector' = "stopped"
    /\ tickCh' = <<>>
    /\ UNCHANGED <<sending, quotes, sinceOpp>>

Older(n, limit) == IF n < limit THEN n + 1 ELSE n

\* A quote too old is not read again: it is as good as none.
TimePasses ==
    /\ quotes' = [v \in Exchanges |-> [s \in Symbols |->
                     IF quotes[v][s].age < MaxQuoteAge
                     THEN [quotes[v][s] EXCEPT !.age = @ + 1] ELSE NoQuote]]
    /\ sinceOpp' = [s \in Symbols |-> Older(sinceOpp[s], OppCooldown)]
    /\ UNCHANGED <<detector, tickCh, sending>>
===============================================================================
