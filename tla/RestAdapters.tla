----------------------------- MODULE RestAdapters -----------------------------
(***************************************************************************)
(* An order from submitIOC of the engine down to its venue: the goroutine  *)
(* submitIOC starts, the registry's lookup, and SubmitIOC of the adapters  *)
(* that keep no session (internal/exchange/adapters/binance.go, kraken.go, *)
(* alpaca.go, synthetic.go).  Binance and Kraken answer from the response  *)
(* to the order, Alpaca polls it; the synthetic venue answers itself.      *)
(*                                                                         *)
(* A request may be lost on either way, refused or answered in a form that *)
(* does not decode.  What the venue does after the state a response shows  *)
(* may overtake the response.                                              *)
(***************************************************************************)
EXTENDS AdapterContract, FiniteSets, Sequences

CONSTANTS
    Orders,           \* calls of submitIOC
    Quantity,         \* Quantity[o], in lots
    Names,            \* values of order.Exchange
    Adapters          \* AdapterRegistry.adapters: the kind of adapter of a name

Kinds == {"binance", "kraken", "alpaca", "synthetic"}

ASSUME RestAssumption ==
    /\ Quantity \in [Orders -> Nat \ {0}]
    /\ DOMAIN Adapters \subseteq Names /\ IsFiniteSet(DOMAIN Adapters)
    /\ \A name \in DOMAIN Adapters : Adapters[name] \in Kinds

VARIABLES
    caller,           \* caller[o]: where submitIOC is
    adapter,          \* adapter[o]: where the goroutine it started is
    route,            \* route[o]: order.Exchange
    timer,            \* timer[o]: timeoutCtx, ended by time or by the deferred cancel
    rootDone,         \* the context of the process is cancelled
    answer,           \* answer[o]: what the adapter returned, and the state it saw
    resultCh,         \* resultCh[o]: a channel of capacity 1
    result,           \* result[o]: what submitIOC returned
    venue             \* venue[o]: the order at the venue

restVars == <<caller, adapter, route, timer, rootDone, answer, resultCh, result, venue>>

Failure  == [filled |-> FALSE, reported |-> 0]

RestInit ==
    /\ caller = [o \in Orders |-> "idle"]
    /\ adapter = [o \in Orders |-> "none"]
    /\ route = [o \in Orders |-> "none"]
    /\ timer = [o \in Orders |-> "running"]
    /\ rootDone = FALSE
    /\ answer = [o \in Orders |-> [fill |-> Failure, seen |-> "none"]]
    /\ resultCh = [o \in Orders |-> <<>>]
    /\ result = [o \in Orders |-> Failure]
    /\ venue = [o \in Orders |-> [status |-> "none", events |-> <<>>]]

CtxDone(o) == timer[o] = "done" \/ rootDone

-------------------------------------------------------------------------------
(* submitIOC *)

Call(o) ==
    /\ caller[o] = "idle"
    /\ caller' = [caller EXCEPT ![o] = "waiting"]
    /\ adapter' = [adapter EXCEPT ![o] = "routing"]
    /\ \E name \in Names : route' = [route EXCEPT ![o] = name]
    /\ UNCHANGED <<timer, rootDone, answer, resultCh, result, venue>>

\* The select of the caller.  Returning cancels timeoutCtx, and with it
\* whatever the adapter is still waiting for.
Returns(o) ==
    /\ caller[o] = "waiting"
    /\ \/ /\ resultCh[o] # <<>>
          /\ result' = [result EXCEPT ![o] = Head(resultCh[o])]
          /\ resultCh' = [resultCh EXCEPT ![o] = <<>>]
       \/ /\ CtxDone(o)
          /\ UNCHANGED <<result, resultCh>>
    /\ caller' = [caller EXCEPT ![o] = "returned"]
    /\ timer' = [timer EXCEPT ![o] = "done"]
    /\ UNCHANGED <<adapter, route, rootDone, answer, venue>>

\* Mutant: an unbuffered channel, which only the waiting caller receives from.
SendsUnbuffered(o) ==
    \/ caller[o] = "waiting" /\ resultCh' = [resultCh EXCEPT ![o] = <<answer[o].fill>>]
    \/ rootDone /\ UNCHANGED resultCh

\* The select of the goroutine; its channel has room, so that it may drop the
\* answer only when the process is told to stop.
Sends(o) ==
    \/ resultCh' = [resultCh EXCEPT ![o] = <<answer[o].fill>>]
    \/ rootDone /\ UNCHANGED resultCh

Hands(o) ==
    /\ adapter[o] = "answered"
    /\ Sends(o)
    /\ adapter' = [adapter EXCEPT ![o] = "ended"]
    /\ UNCHANGED <<caller, route, timer, rootDone, answer, result, venue>>

TimerFires(o) ==
    /\ caller[o] = "waiting"
    /\ timer' = [timer EXCEPT ![o] = "done"]
    /\ UNCHANGED <<caller, adapter, route, rootDone, answer, resultCh, result, venue>>

-------------------------------------------------------------------------------
(* The registry and the adapters *)

Answered(o, fill, seen) ==
    /\ answer' = [answer EXCEPT ![o] = [fill |-> fill, seen |-> seen]]
    /\ adapter' = [adapter EXCEPT ![o] = "answered"]

\* An unknown name is an error, and so is a request that cannot be built.
Refused(o) ==
    /\ adapter[o] = "routing"
    /\ route[o] \in DOMAIN Adapters => Adapters[route[o]] # "synthetic"
    /\ Answered(o, Failure, "none")
    /\ UNCHANGED <<caller, route, timer, rootDone, resultCh, result, venue>>

Posts(o) ==
    /\ adapter[o] = "routing"
    /\ route[o] \in DOMAIN Adapters
    /\ IF Adapters[route[o]] = "synthetic"
       THEN adapter' = [adapter EXCEPT ![o] = "filling"] /\ UNCHANGED venue
       ELSE /\ adapter' = [adapter EXCEPT ![o] = "posting"]
            /\ venue' = [venue EXCEPT ![o].status = "sent"]
    /\ UNCHANGED <<caller, route, timer, rootDone, answer, resultCh, result>>

\* A transport error, a status other than 2xx, a body that does not decode, or
\* a response that says the order failed.
Fails(o) ==
    /\ adapter[o] \in {"posting", "polling"}
    /\ Answered(o, Failure, "none")
    /\ UNCHANGED <<caller, route, timer, rootDone, resultCh, result, venue>>

\* Mutant: the poll loop does not select on the context.
WaitsOnContextButPolling == {"posting", "filling"}

WaitsOnContext == {"posting", "polling", "filling"}

Aborted(o) ==
    /\ adapter[o] \in WaitsOnContext
    /\ CtxDone(o)
    /\ Answered(o, Failure, "none")
    /\ UNCHANGED <<caller, route, timer, rootDone, resultCh, result, venue>>

\* Of the events of an order those that trade (totalQty of the Kraken adapter);
\* the other venues add them up themselves.
Traded(ev) == IF ev.type = "EXECUTION" THEN ev.amount ELSE 0

Executed(events) ==
    LET upTo[n \in 0..Len(events)] == IF n = 0 THEN 0 ELSE upTo[n - 1] + Traded(events[n])
    IN  upTo[Len(events)]

\* Mutant: the amounts of all events are added.
FillOfAnyEvent(v) ==
    Flagged(Executed([n \in DOMAIN v.events |-> [v.events[n] EXCEPT !.type = "EXECUTION"]]))

KrakenFill(v) == Flagged(Executed(v.events))

\* Mutant: a quantity is only reported with the flag.
FillOrNothing(v) ==
    LET qty == Executed(v.events) IN
    Flagged(IF v.status \in {"filled", "partially_filled"} THEN qty ELSE 0)

\* Binance and Alpaca: a quantity counts as filled by the status of the order.
FillByStatus(v) ==
    LET qty == Executed(v.events) IN
    [filled |-> qty > 0 /\ v.status \in {"filled", "partially_filled"}, reported |-> qty]

\* A response to the order that decodes.  Alpaca only takes the order's id.
Responds(o) ==
    /\ adapter[o] = "posting"
    /\ venue[o].status \notin {"none", "sent"}
    /\ CASE Adapters[route[o]] = "binance" ->
              Answered(o, FillByStatus(venue[o]), venue[o].status)
         [] Adapters[route[o]] = "kraken" ->
              Answered(o, KrakenFill(venue[o]), venue[o].status)
         [] OTHER -> adapter' = [adapter EXCEPT ![o] = "polling"] /\ UNCHANGED answer
    /\ UNCHANGED <<caller, route, timer, rootDone, resultCh, result, venue>>

\* The statuses pollUntilTerminal takes as final; expired and done_for_day are
\* as canceled.
Terminal == {"filled", "partially_filled", "canceled", "rejected"}

\* A poll that finds another status, or an error with a body that decodes,
\* leads to the next.
PollEnds(o) ==
    /\ adapter[o] = "polling"
    /\ venue[o].status \in Terminal
    /\ Answered(o, FillByStatus(venue[o]), venue[o].status)
    /\ UNCHANGED <<caller, route, timer, rootDone, resultCh, result, venue>>

\* The synthetic venue executes all of the order, part of it or nothing.
SyntheticFills(o) ==
    /\ adapter[o] = "filling"
    /\ \E qty \in 0..Quantity[o] :
          /\ Answered(o, Flagged(qty), "filled")
          /\ venue' = [venue EXCEPT ![o] =
                [status |-> "filled", events |-> <<[type |-> "EXECUTION", amount |-> qty]>>]]
    /\ UNCHANGED <<caller, route, timer, rootDone, resultCh, result>>

SubmitIOC(o) ==
    Refused(o) \/ Posts(o) \/ Fails(o) \/ Aborted(o) \/ Responds(o) \/ PollEnds(o)
        \/ SyntheticFills(o)

-------------------------------------------------------------------------------
(* The venues *)

Becomes(o, status, events) ==
    /\ venue' = [venue EXCEPT ![o] = [status |-> status, events |-> events]]
    /\ UNCHANGED <<caller, adapter, route, timer, rootDone, answer, resultCh, result>>

Open == {"new", "partially_filled"}

Left(o) == Quantity[o] - Executed(venue[o].events)

\* The request may arrive long after its sender has given up.
VenueReceives(o) ==
    /\ venue[o].status = "sent"
    /\ \E status \in {"new", "rejected"} :
          Becomes(o, status, <<[type |-> "PLACE", amount |-> Quantity[o]]>>)

VenueExecutes(o) ==
    /\ venue[o].status \in Open
    /\ \E lots \in 1..Left(o) :
          Becomes(o, IF lots = Left(o) THEN "filled" ELSE "partially_filled",
                  Append(venue[o].events, [type |-> "EXECUTION", amount |-> lots]))

\* The rest of an immediate-or-cancel order.
VenueCancels(o) ==
    /\ venue[o].status \in Open
    /\ Becomes(o, "canceled", Append(venue[o].events, [type |-> "CANCEL", amount |-> Left(o)]))

Venue(o) == VenueReceives(o) \/ VenueExecutes(o) \/ VenueCancels(o)

-------------------------------------------------------------------------------
RestTypeOK ==
    /\ caller \in [Orders -> {"idle", "waiting", "returned"}]
    /\ adapter \in [Orders -> {"none", "routing", "posting", "polling", "filling",
                               "answered", "ended"}]
    /\ route \in [Orders -> Names \union {"none"}]
    /\ timer \in [Orders -> {"running", "done"}]
    /\ rootDone \in BOOLEAN
    /\ \A o \in Orders :
          /\ DOMAIN answer[o] = {"fill", "seen"}
          /\ answer[o].fill \in [filled : BOOLEAN, reported : 0..Quantity[o]]
          /\ result[o] \in [filled : BOOLEAN, reported : 0..Quantity[o]]
          /\ Len(resultCh[o]) <= 1
          /\ Executed(venue[o].events) <= Quantity[o]

\* The statuses after which a venue executes nothing more.
Through == {"filled", "canceled", "rejected"}

\* The contract the execution engine is modelled over: whatever the venue goes
\* on to do, the answer is one that the contract allows for what is executed in
\* the end; and an answer read from an order the venue was through with is
\* exact.
AnswersMeetContract ==
    \A o \in Orders : adapter[o] \in {"answered", "ended"} =>
        LET executed == Executed(venue[o].events)
            totals == IF venue[o].status \in Through THEN {executed}
                      ELSE executed..Quantity[o] IN
        /\ \A total \in totals : answer[o].fill \in Answers(Quantity[o], total)
        /\ answer[o].seen \in Through => answer[o].fill.reported = executed
===============================================================================
