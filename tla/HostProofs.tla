------------------------------ MODULE HostProofs ------------------------------
(***************************************************************************)
(* The adapters without a session and the process around them, for any     *)
(* number of calls, any quantities and any registry of venues.             *)
(***************************************************************************)
EXTENDS Host, FiniteSetTheorems, TLAPS

-------------------------------------------------------------------------------
(* Adding up the events of an order *)

\* Induction over the naturals for a set: with a gap, the numbers of the set
\* below it would be as many as those above zero.
LEMMA Induction ==
    ASSUME NEW S, 0 \in S, \A n \in Nat : n \in S => n + 1 \in S
    PROVE  Nat \subseteq S
<1> SUFFICES ASSUME NEW gap \in Nat, gap \notin S PROVE FALSE
  OBVIOUS
<1> DEFINE below == {k \in 0..gap : k \in S}
           next == [k \in below |-> k + 1]
<1>1. IsFiniteSet(below) /\ 0 \in below /\ Cardinality(below) \in Nat
  <2>1. IsFiniteSet(0..gap)
    BY FS_Interval
  <2>2. below \subseteq 0..gap /\ 0 \in below
    OBVIOUS
  <2> QED
    BY <2>1, <2>2, FS_Subset, FS_CardinalityType
<1>2. next \in Injection(below, below \ {0})
  BY DEF Injection, IsInjective
<1>3. /\ Cardinality(below \ {0}) = Cardinality(below) - 1
      /\ IsFiniteSet(below \ {0})
  BY <1>1, FS_RemoveElement
<1>4. Cardinality(below) <= Cardinality(below \ {0})
  BY <1>2, <1>3, FS_Injection
<1> HIDE DEF below
<1> QED
  BY <1>1, <1>3, <1>4

Event == [type : {"PLACE", "EXECUTION", "CANCEL"}, amount : Nat]

\* f adds up the events s, one after the other.
AddsUp(f, s) ==
    f = [n \in 0..Len(s) |-> IF n = 0 THEN 0 ELSE f[n - 1] + Traded(s[n])]

LEMMA TradedType ==
    ASSUME NEW ev \in Event
    PROVE  Traded(ev) \in Nat
BY DEF Event, Traded

LEMMA SumExists ==
    ASSUME NEW s \in Seq(Event)
    PROVE  \E f : AddsUp(f, s)
<1> DEFINE S == {m \in Nat : \A t \in Seq(Event) : Len(t) = m => \E f : AddsUp(f, t)}
<1>1. 0 \in S
  <2> SUFFICES ASSUME NEW t \in Seq(Event), Len(t) = 0 PROVE \E f : AddsUp(f, t)
    OBVIOUS
  <2>1. AddsUp([n \in 0..0 |-> 0], t)
    BY DEF AddsUp
  <2> QED
    BY <2>1
<1>2. ASSUME NEW m \in Nat, m \in S PROVE m + 1 \in S
  <2> SUFFICES ASSUME NEW t \in Seq(Event), Len(t) = m + 1 PROVE \E f : AddsUp(f, t)
    OBVIOUS
  <2> DEFINE u == [n \in 1..m |-> t[n]]
  <2>1. u \in Seq(Event) /\ Len(u) = m
    OBVIOUS
  <2>2. \A n \in 1..m : u[n] = t[n]
    OBVIOUS
  <2> HIDE DEF u
  <2>3. PICK f : AddsUp(f, u)
    BY <1>2, <2>1
  <2> DEFINE g == [n \in 0..(m + 1) |-> IF n = m + 1 THEN f[m] + Traded(t[m + 1]) ELSE f[n]]
  <2>4. ASSUME NEW n \in 0..(m + 1)
        PROVE  g[n] = IF n = 0 THEN 0 ELSE g[n - 1] + Traded(t[n])
    <3>1. CASE n = m + 1
      BY <3>1
    <3>2. CASE n \in 0..m
      <4>1. f[n] = IF n = 0 THEN 0 ELSE f[n - 1] + Traded(u[n])
        BY <2>1, <2>3, <3>2 DEF AddsUp
      <4>2. g[n] = f[n] /\ (n # 0 => g[n - 1] = f[n - 1] /\ u[n] = t[n])
        BY <2>2, <3>2
      <4> QED
        BY <4>1, <4>2
    <3> QED
      BY <3>1, <3>2
  <2>5. g = [n \in 0..Len(t) |-> g[n]]
    OBVIOUS
  <2> HIDE DEF g
  <2>6. AddsUp(g, t)
    BY <2>4, <2>5 DEF AddsUp
  <2> QED
    BY <2>6
<1> HIDE DEF S
<1>3. Len(s) \in S
  BY <1>1, <1>2, Induction
<1> QED
  BY <1>3 DEF S

\* Two sums agree as far as their events do.
LEMMA SumsAgree ==
    ASSUME NEW s \in Seq(Event), NEW t \in Seq(Event), NEW f, NEW g,
           AddsUp(f, s), AddsUp(g, t),
           NEW m \in Nat, m <= Len(s), m <= Len(t), \A n \in 1..m : s[n] = t[n]
    PROVE  f[m] = g[m]
<1> DEFINE S == {n \in Nat : n <= m => f[n] = g[n]}
<1>1. 0 \in S
  BY DEF AddsUp
<1>2. ASSUME NEW n \in Nat, n \in S PROVE n + 1 \in S
  <2> SUFFICES ASSUME n + 1 <= m PROVE f[n + 1] = g[n + 1]
    OBVIOUS
  <2>1. f[n] = g[n] /\ s[n + 1] = t[n + 1]
    BY <1>2
  <2>2. ASSUME NEW h, NEW u \in Seq(Event), AddsUp(h, u), n + 1 <= Len(u)
        PROVE  h[n + 1] = h[n] + Traded(u[n + 1])
    <3>1. n + 1 \in 0..Len(u) /\ n + 1 # 0 /\ (n + 1) - 1 = n
      BY <2>2
    <3> QED
      BY <2>2, <3>1 DEF AddsUp
  <2>3. n + 1 <= Len(s) /\ n + 1 <= Len(t)
    OBVIOUS
  <2> QED
    BY <2>1, <2>2, <2>3
<1> HIDE DEF S
<1>3. m \in S
  BY <1>1, <1>2, Induction
<1> QED
  BY <1>3 DEF S

LEMMA ExecutedIs ==
    ASSUME NEW s \in Seq(Event), NEW f, AddsUp(f, s)
    PROVE  Executed(s) = f[Len(s)]
<1> DEFINE upTo == CHOOSE g : AddsUp(g, s)
<1>1. Executed(s) = upTo[Len(s)]
  BY DEF Executed, AddsUp
<1>2. AddsUp(upTo, s)
  OBVIOUS
<1> HIDE DEF upTo
<1>3. f[Len(s)] = upTo[Len(s)]
  BY <1>2, SumsAgree
<1> QED
  BY <1>1, <1>3

LEMMA ExecutedNone == Executed(<<>>) = 0
<1> DEFINE f == [n \in 0..0 |-> 0]
<1>1. <<>> \in Seq(Event) /\ AddsUp(f, <<>>)
  BY DEF AddsUp
<1>2. Executed(<<>>) = f[Len(<<>>)]
  BY <1>1, ExecutedIs
<1> QED
  BY <1>2

LEMMA ExecutedAppend ==
    ASSUME NEW s \in Seq(Event), NEW ev \in Event
    PROVE  Executed(Append(s, ev)) = Executed(s) + Traded(ev)
<1> DEFINE t == Append(s, ev)
<1>1. /\ t \in Seq(Event) /\ Len(t) = Len(s) + 1 /\ t[Len(s) + 1] = ev
      /\ \A n \in 1..Len(s) : s[n] = t[n]
      /\ Len(s) \in Nat
  OBVIOUS
<1> HIDE DEF t
<1>2. PICK f : AddsUp(f, s)
  BY SumExists
<1>3. PICK g : AddsUp(g, t)
  BY <1>1, SumExists
<1>4. f[Len(s)] = g[Len(s)]
  BY <1>1, <1>2, <1>3, SumsAgree
<1>5. g[Len(t)] = g[Len(s)] + Traded(ev)
  BY <1>1, <1>3 DEF AddsUp
<1>6. Executed(s) = f[Len(s)] /\ Executed(t) = g[Len(t)]
  BY <1>1, <1>2, <1>3, ExecutedIs
<1> QED
  BY <1>4, <1>5, <1>6 DEF t

-------------------------------------------------------------------------------
(* What an answer says of its order *)

Answer == [filled : BOOLEAN, reported : Nat]
Status == {"none", "sent", "new", "partially_filled", "filled", "canceled", "rejected"}
AtTheVenue == [status : Status, events : Seq(Event)]

\* An adapter may answer in every way the contract knows.
AllKinds == {"exact", "early", "unflagged"} \subseteq AnswerKinds

\* The answer fits whatever the venue v may still do with an order of qty.
Meets(qty, a, v) ==
    LET executed == Executed(v.events)
        totals == IF v.status \in Through THEN {executed} ELSE executed..qty IN
    /\ \A total \in totals : a.fill \in Answers(qty, total)
    /\ a.seen \in Through => a.fill.reported = executed

\* What the venue has done with an order of qty.
VenueInv(qty, v) ==
    /\ v \in AtTheVenue
    /\ Executed(v.events) \in 0..qty
    /\ v.status \in {"none", "sent", "new", "rejected"} => Executed(v.events) = 0
    /\ v.status \in {"new", "partially_filled", "canceled"} => Executed(v.events) < qty

\* What an answer holds, and how it compares with the order.
AnswerInv(qty, a, v) ==
    /\ a.fill.reported <= qty
    /\ a.seen \in Through => v.status = a.seen
    /\ AllKinds => Meets(qty, a, v)

OrderInv(o) ==
    /\ VenueInv(Quantity[o], venue[o])
    /\ caller[o] = "idle" => adapter[o] = "none"
    /\ adapter[o] \in {"none", "routing", "filling"} => venue[o].status = "none"
    /\ answer[o].fill.reported <= Quantity[o]
    /\ adapter[o] \in {"answered", "ended"} => AnswerInv(Quantity[o], answer[o], venue[o])
    /\ Len(resultCh[o]) <= 1
    /\ \A n \in 1..Len(resultCh[o]) : resultCh[o][n].reported <= Quantity[o]
    /\ result[o].reported <= Quantity[o]

RestTypes ==
    /\ caller \in [Orders -> {"idle", "waiting", "returned"}]
    /\ adapter \in [Orders -> {"none", "routing", "posting", "polling", "filling",
                               "answered", "ended"}]
    /\ route \in [Orders -> Names \union {"none"}]
    /\ timer \in [Orders -> {"running", "done"}]
    /\ rootDone \in BOOLEAN
    /\ answer \in [Orders -> [fill : Answer, seen : Status]]
    /\ resultCh \in [Orders -> Seq(Answer)]
    /\ result \in [Orders -> Answer]
    /\ venue \in [Orders -> AtTheVenue]

RestInv == RestTypes /\ \A o \in Orders : OrderInv(o)

LEMMA FlaggedType ==
    ASSUME NEW n \in Nat
    PROVE  Flagged(n) \in Answer
BY DEF Flagged, Answer

\* A failure and a fill seen on the way fit every later total.
LEMMA EarlyMeets ==
    ASSUME AllKinds, NEW qty \in Nat, NEW v, VenueInv(qty, v), NEW n \in 0..Executed(v.events),
           NEW seen, seen \notin Through \/ n = Executed(v.events)
    PROVE  Meets(qty, [fill |-> Flagged(n), seen |-> seen], v)
<1>1. ASSUME NEW total \in Nat, Executed(v.events) <= total
      PROVE  Flagged(n) \in Answers(qty, total)
  <2>1. n \in 0..total
    BY <1>1 DEF VenueInv
  <2> QED
    BY <2>1 DEF AllKinds, Answers, EarlyAnswers
<1>2. Flagged(n).reported = n
  BY DEF Flagged
<1> QED
  BY <1>1, <1>2 DEF Meets, VenueInv

LEMMA FailureFits ==
    ASSUME NEW qty \in Nat, NEW v, VenueInv(qty, v)
    PROVE  AnswerInv(qty, [fill |-> Failure, seen |-> "none"], v)
<1>0. (0 > 0) = FALSE
  OBVIOUS
<1>1. Failure = Flagged(0) /\ 0 \in 0..Executed(v.events) /\ "none" \notin Through
  <2>1. Failure = Flagged(0)
    BY <1>0, Zenon DEF Failure, Flagged
  <2>2. 0 \in 0..Executed(v.events) /\ "none" \notin Through
    BY DEF VenueInv, Through
  <2> QED
    BY <2>1, <2>2
<1>2. AllKinds => Meets(qty, [fill |-> Failure, seen |-> "none"], v)
  BY <1>1, EarlyMeets
<1> QED
  BY <1>1, <1>2 DEF AnswerInv, Failure

LEMMA KrakenFits ==
    ASSUME NEW qty \in Nat, NEW v, VenueInv(qty, v)
    PROVE  AnswerInv(qty, [fill |-> KrakenFill(v), seen |-> v.status], v)
<1>1. Executed(v.events) \in 0..Executed(v.events) /\ Executed(v.events) <= qty
  BY DEF VenueInv
<1>2. AllKinds => Meets(qty, [fill |-> KrakenFill(v), seen |-> v.status], v)
  BY <1>1, EarlyMeets DEF KrakenFill
<1> QED
  BY <1>1, <1>2 DEF AnswerInv, KrakenFill, Flagged

\* A quantity without the flag is only reported of an order through with less
\* than was asked for.
LEMMA StatusFits ==
    ASSUME NEW qty \in Nat, NEW v, VenueInv(qty, v)
    PROVE  AnswerInv(qty, [fill |-> FillByStatus(v), seen |-> v.status], v)
<1> DEFINE e == Executed(v.events)
           fill == FillByStatus(v)
<1>0. e \in Nat /\ e <= qty /\ fill.reported = e
  BY DEF VenueInv, FillByStatus
<1>1. CASE e = 0 \/ v.status \in {"filled", "partially_filled"}
  <2>1. fill = Flagged(e)
    BY <1>0, <1>1 DEF FillByStatus, Flagged
  <2>2. AllKinds => Meets(qty, [fill |-> fill, seen |-> v.status], v)
    BY <1>0, <2>1, EarlyMeets
  <2> QED
    BY <1>0, <2>2 DEF AnswerInv
<1>2. CASE e # 0 /\ v.status \notin {"filled", "partially_filled"}
  <2>1. v.status = "canceled" /\ e < qty
    BY <1>2 DEF VenueInv, AtTheVenue, Status
  <2>2. fill = [filled |-> FALSE, reported |-> e]
    BY <1>2 DEF FillByStatus
  <2>3. AllKinds => fill \in Answers(qty, e)
    BY <1>0, <1>2, <2>1, <2>2 DEF AllKinds, Answers, UnflaggedAnswers
  <2>4. AllKinds => Meets(qty, [fill |-> fill, seen |-> v.status], v)
    BY <1>0, <2>1, <2>3 DEF Meets, Through
  <2> QED
    BY <1>0, <2>4 DEF AnswerInv
<1> QED
  BY <1>1, <1>2

\* An answer that fits what a venue may still do fits what it then does.
LEMMA StillFits ==
    ASSUME NEW qty \in Nat, NEW a, NEW v, NEW w, AnswerInv(qty, a, v),
           VenueInv(qty, v), VenueInv(qty, w),
           v.status \notin Through, Executed(v.events) <= Executed(w.events)
    PROVE  AnswerInv(qty, a, w)
<1>1. a.seen \notin Through
  BY DEF AnswerInv
<1>2. AllKinds => \A total \in Executed(w.events)..qty : a.fill \in Answers(qty, total)
  BY DEF AnswerInv, Meets, VenueInv
<1>3. Executed(w.events) \in Executed(w.events)..qty
  BY DEF VenueInv
<1> QED
  BY <1>1, <1>2, <1>3 DEF AnswerInv, Meets

-------------------------------------------------------------------------------
(* The steps of an order *)

LEMMA InitRest == RestInit => RestInv
<1> SUFFICES ASSUME RestInit PROVE RestInv
  OBVIOUS
<1>1. Failure \in Answer
  BY DEF Failure, Answer
<1>2. [status |-> "none", events |-> <<>>] \in AtTheVenue
  BY DEF AtTheVenue, Status
<1>3. RestTypes
  <2>1. [fill |-> Failure, seen |-> "none"] \in [fill : Answer, seen : Status]
    BY <1>1 DEF Status
  <2>2. <<>> \in Seq(Answer)
    OBVIOUS
  <2>3. /\ answer \in [Orders -> [fill : Answer, seen : Status]]
        /\ resultCh \in [Orders -> Seq(Answer)]
        /\ result \in [Orders -> Answer]
        /\ venue \in [Orders -> AtTheVenue]
    BY <1>1, <1>2, <2>1, <2>2, Zenon DEF RestInit
  <2>4. /\ caller \in [Orders -> {"idle", "waiting", "returned"}]
        /\ adapter \in [Orders -> {"none", "routing", "posting", "polling", "filling",
                                   "answered", "ended"}]
        /\ route \in [Orders -> Names \union {"none"}]
        /\ timer \in [Orders -> {"running", "done"}]
        /\ rootDone \in BOOLEAN
    BY DEF RestInit
  <2> QED
    BY <2>3, <2>4 DEF RestTypes
<1>4. ASSUME NEW o \in Orders PROVE OrderInv(o)
  <2>1. /\ venue[o] = [status |-> "none", events |-> <<>>] /\ adapter[o] = "none"
        /\ caller[o] = "idle"
        /\ answer[o].fill = Failure /\ resultCh[o] = <<>> /\ result[o] = Failure
    BY DEF RestInit
  <2>2. Quantity[o] \in Nat
    BY RestAssumption
  <2>3. VenueInv(Quantity[o], venue[o])
    BY <1>2, <2>1, <2>2, ExecutedNone DEF VenueInv
  <2>4. Len(resultCh[o]) = 0 /\ answer[o].fill.reported = 0 /\ result[o].reported = 0
    BY <2>1 DEF Failure
  <2> QED
    BY <2>1, <2>2, <2>3, <2>4 DEF OrderInv
<1> QED
  BY <1>3, <1>4 DEF RestInv

\* An order nothing is done about stays as it is.
LEMMA OthersStay ==
    ASSUME NEW q, OrderInv(q), caller'[q] = caller[q] \/ caller'[q] # "idle",
           adapter'[q] = adapter[q], answer'[q] = answer[q], resultCh'[q] = resultCh[q], result'[q] = result[q], venue'[q] = venue[q]
    PROVE  OrderInv(q)'
BY DEF OrderInv

\* The adapter has its answer.
LEMMA AnsweredStep ==
    ASSUME RestInv, NEW o \in Orders, NEW fill \in Answer, NEW seen \in Status,
           AnswerInv(Quantity[o], [fill |-> fill, seen |-> seen], venue[o]),
           adapter[o] # "none", Answered(o, fill, seen),
           UNCHANGED <<caller, route, timer, rootDone, resultCh, result, venue>>
    PROVE  RestInv'
<1> USE DEF RestInv
<1>1. /\ answer' = [answer EXCEPT ![o] = [fill |-> fill, seen |-> seen]]
      /\ adapter' = [adapter EXCEPT ![o] = "answered"]
  BY DEF Answered
<1>2. RestTypes'
  BY <1>1 DEF RestTypes
<1>3. /\ answer'[o] = [fill |-> fill, seen |-> seen] /\ adapter'[o] = "answered"
      /\ \A q \in Orders \ {o} : answer'[q] = answer[q] /\ adapter'[q] = adapter[q]
  BY <1>1 DEF RestTypes
<1>4. OrderInv(o)'
  <2>1. answer'[o].fill.reported <= Quantity[o]
    BY <1>3 DEF AnswerInv
  <2>2. AnswerInv(Quantity[o], answer'[o], venue'[o])
    BY <1>3
  <2>3. OrderInv(o)
    OBVIOUS
  <2> QED
    BY <1>3, <2>1, <2>2, <2>3 DEF OrderInv
<1>5. \A q \in Orders \ {o} : OrderInv(q)'
  BY <1>3, OthersStay
<1> QED
  BY <1>2, <1>4, <1>5

\* The venue has moved: on, unless the order was not sent.
LEMMA VenueStep ==
    ASSUME RestInv, NEW o \in Orders, NEW status \in Status, NEW events \in Seq(Event),
           VenueInv(Quantity[o], [status |-> status, events |-> events]),
           venue[o].status \notin Through \union {"none"},
           Executed(venue[o].events) <= Executed(events),
           Becomes(o, status, events)
    PROVE  RestInv'
<1> USE DEF RestInv
<1> DEFINE v == [status |-> status, events |-> events]
<1>1. /\ venue' = [venue EXCEPT ![o] = v] /\ v \in AtTheVenue
      /\ UNCHANGED <<caller, adapter, route, timer, rootDone, answer, resultCh, result>>
      /\ v.events = events
  BY DEF Becomes, AtTheVenue
<1> HIDE DEF v
<1>2. RestTypes'
  BY <1>1 DEF RestTypes
<1>3. venue'[o] = v /\ \A q \in Orders \ {o} : venue'[q] = venue[q]
  BY <1>1 DEF RestTypes
<1>4. OrderInv(o)'
  <2>1. OrderInv(o) /\ Quantity[o] \in Nat
    BY RestAssumption
  <2>2. adapter[o] \notin {"none", "routing", "filling"}
    BY <2>1 DEF OrderInv
  <2>3. adapter[o] \in {"answered", "ended"} => AnswerInv(Quantity[o], answer[o], v)
    BY <1>1, <2>1, StillFits DEF OrderInv, v
  <2>4. VenueInv(Quantity[o], v)
    BY DEF v
  <2> QED
    BY <1>1, <1>3, <2>1, <2>2, <2>3, <2>4 DEF OrderInv
<1>5. \A q \in Orders \ {o} : OrderInv(q)'
  BY <1>1, <1>3, OthersStay
<1> QED
  BY <1>2, <1>4, <1>5

LEMMA QuantityType ==
    ASSUME NEW o \in Orders
    PROVE  Quantity[o] \in Nat /\ Quantity[o] > 0
BY RestAssumption

LEMMA NextVenue ==
    ASSUME RestInv, NEW o \in Orders, Venue(o)
    PROVE  RestInv'
<1> DEFINE e == Executed(venue[o].events)
<1>0. /\ venue[o] \in AtTheVenue /\ VenueInv(Quantity[o], venue[o]) /\ venue[o].events \in Seq(Event)
      /\ Quantity[o] \in Nat /\ e \in 0..Quantity[o]
  BY QuantityType DEF RestInv, OrderInv, VenueInv, AtTheVenue
<1>1. CASE VenueReceives(o)
  <2>1. PICK status \in {"new", "rejected"} :
           Becomes(o, status, <<[type |-> "PLACE", amount |-> Quantity[o]]>>)
    BY <1>1 DEF VenueReceives
  <2> DEFINE place == [type |-> "PLACE", amount |-> Quantity[o]]
             events == <<place>>
  <2>2. place \in Event /\ Traded(place) = 0
    BY <1>0 DEF Event, Traded
  <2>3. events = Append(<<>>, place) /\ events \in Seq(Event) /\ <<>> \in Seq(Event)
    BY <2>2
  <2> HIDE DEF place
  <2>4. Executed(events) = 0
    <3>1. Executed(Append(<<>>, place)) = Executed(<<>>) + Traded(place)
      BY <2>2, <2>3, ExecutedAppend
    <3> QED
      BY <2>2, <2>3, <3>1, ExecutedNone
  <2> HIDE DEF events
  <2>5. e = 0 /\ venue[o].status = "sent"
    BY <1>0, <1>1 DEF VenueReceives, VenueInv
  <2>6. VenueInv(Quantity[o], [status |-> status, events |-> events])
    BY <1>0, <2>3, <2>4, QuantityType DEF VenueInv, AtTheVenue, Status
  <2>7. Becomes(o, status, events)
    BY <2>1 DEF events, place
  <2>8. status \in Status /\ venue[o].status \notin Through \union {"none"}
    BY <2>5 DEF Status, Through
  <2>9. e <= Executed(events)
    BY <2>4, <2>5
  <2> QED
    BY <2>3, <2>6, <2>7, <2>8, <2>9, VenueStep
<1>2. CASE VenueExecutes(o)
  <2>1. PICK lots \in 1..Left(o) :
           Becomes(o, IF lots = Left(o) THEN "filled" ELSE "partially_filled",
                   Append(venue[o].events, [type |-> "EXECUTION", amount |-> lots]))
    BY <1>2 DEF VenueExecutes
  <2> DEFINE trade == [type |-> "EXECUTION", amount |-> lots]
             events == Append(venue[o].events, trade)
             status == IF lots = Left(o) THEN "filled" ELSE "partially_filled"
  <2>2. Left(o) = Quantity[o] - e /\ lots \in Nat /\ lots >= 1 /\ lots <= Quantity[o] - e
    BY <1>0 DEF Left
  <2>3. trade \in Event /\ Traded(trade) = lots
    BY <2>2 DEF Event, Traded
  <2> HIDE DEF trade
  <2>4. events \in Seq(Event) /\ Executed(events) = e + lots
    BY <1>0, <2>3, ExecutedAppend
  <2>5. Becomes(o, status, events)
    BY <2>1 DEF trade
  <2>6. status \in {"filled", "partially_filled"} /\ (status = "partially_filled" => lots # Left(o))
    OBVIOUS
  <2> HIDE DEF events, status
  <2>7. VenueInv(Quantity[o], [status |-> status, events |-> events])
    BY <1>0, <2>2, <2>4, <2>6 DEF VenueInv, AtTheVenue, Status
  <2>8. status \in Status /\ venue[o].status \notin Through \union {"none"}
    BY <1>2, <2>6 DEF Status, Through, VenueExecutes, Open
  <2>9. e <= Executed(events)
    BY <1>0, <2>2, <2>4
  <2> QED
    BY <2>4, <2>5, <2>7, <2>8, <2>9, VenueStep
<1>3. CASE VenueCancels(o)
  <2> DEFINE cancel == [type |-> "CANCEL", amount |-> Left(o)]
             events == Append(venue[o].events, cancel)
  <2>1. cancel \in Event /\ Traded(cancel) = 0
    BY <1>0 DEF Event, Traded, Left
  <2>2. Becomes(o, "canceled", events)
    BY <1>3 DEF VenueCancels
  <2> HIDE DEF cancel
  <2>3. events \in Seq(Event) /\ Executed(events) = e
    BY <1>0, <2>1, ExecutedAppend
  <2> HIDE DEF events
  <2>4. e < Quantity[o]
    BY <1>0, <1>3 DEF VenueInv, VenueCancels, Open
  <2>5. VenueInv(Quantity[o], [status |-> "canceled", events |-> events])
    BY <1>0, <2>3, <2>4 DEF VenueInv, AtTheVenue, Status
  <2>6. "canceled" \in Status /\ venue[o].status \notin Through \union {"none"}
    BY <1>3 DEF Status, Through, VenueCancels, Open
  <2>7. e <= Executed(events)
    BY <1>0, <2>3
  <2> QED
    BY <2>2, <2>3, <2>5, <2>6, <2>7, VenueStep
<1> QED
  BY <1>1, <1>2, <1>3 DEF Venue

LEMMA NextAdapter ==
    ASSUME RestInv, NEW o \in Orders, SubmitIOC(o) \/ Hands(o)
    PROVE  RestInv'
<1>0. /\ RestTypes /\ OrderInv(o) /\ VenueInv(Quantity[o], venue[o]) /\ Quantity[o] \in Nat
      /\ Executed(venue[o].events) \in Nat /\ venue[o].status \in Status
      /\ \A q \in Orders : OrderInv(q)
  BY QuantityType DEF RestInv, OrderInv, VenueInv, AtTheVenue
<1>f. Failure \in Answer /\ "none" \in Status
  BY DEF Failure, Answer, Status
<1>1. CASE Refused(o) \/ Fails(o) \/ Aborted(o)
  <2>1. AnswerInv(Quantity[o], [fill |-> Failure, seen |-> "none"], venue[o])
    BY <1>0, FailureFits
  <2>2. /\ Answered(o, Failure, "none") /\ adapter[o] # "none"
        /\ UNCHANGED <<caller, route, timer, rootDone, resultCh, result, venue>>
    BY <1>1 DEF Refused, Fails, Aborted, WaitsOnContext
  <2> QED
    BY <1>f, <2>1, <2>2, AnsweredStep
<1>2. ASSUME \/ Answered(o, FillByStatus(venue[o]), venue[o].status)
             \/ Answered(o, KrakenFill(venue[o]), venue[o].status),
             adapter[o] # "none",
             UNCHANGED <<caller, route, timer, rootDone, resultCh, result, venue>>
      PROVE  RestInv'
  <2>1. FillByStatus(venue[o]) \in Answer /\ KrakenFill(venue[o]) \in Answer
    <3>1. KrakenFill(venue[o]) \in Answer
      BY <1>0, FlaggedType DEF KrakenFill
    <3>2. FillByStatus(venue[o]) \in Answer
      BY <1>0 DEF FillByStatus, Answer
    <3> QED
      BY <3>1, <3>2
  <2>2. CASE Answered(o, FillByStatus(venue[o]), venue[o].status)
    <3>1. AnswerInv(Quantity[o], [fill |-> FillByStatus(venue[o]), seen |-> venue[o].status], venue[o])
      BY <1>0, StatusFits
    <3> QED
      BY <1>0, <1>2, <2>1, <2>2, <3>1, AnsweredStep
  <2>3. CASE Answered(o, KrakenFill(venue[o]), venue[o].status)
    <3>1. AnswerInv(Quantity[o], [fill |-> KrakenFill(venue[o]), seen |-> venue[o].status], venue[o])
      BY <1>0, KrakenFits
    <3> QED
      BY <1>0, <1>2, <2>1, <2>3, <3>1, AnsweredStep
  <2> QED
    BY <1>2, <2>2, <2>3
<1>3. ASSUME NEW point \in {"filling", "posting", "polling"},
             adapter' = [adapter EXCEPT ![o] = point],
             \/ adapter[o] = "routing"
                /\ (point = "filling" => UNCHANGED venue)
                /\ (point # "filling" => venue' = [venue EXCEPT ![o].status = "sent"])
             \/ adapter[o] = "posting" /\ point = "polling" /\ UNCHANGED venue,
             UNCHANGED <<caller, route, timer, rootDone, answer, resultCh, result>>
      PROVE  RestInv'
  <2>1. adapter'[o] = point /\ \A q \in Orders \ {o} : adapter'[q] = adapter[q]
    BY <1>0, <1>3 DEF RestTypes
  <2>2. ASSUME adapter[o] = "routing", venue' = [venue EXCEPT ![o].status = "sent"]
        PROVE  /\ venue' \in [Orders -> AtTheVenue]
               /\ \A q \in Orders \ {o} : venue'[q] = venue[q]
               /\ VenueInv(Quantity[o], venue'[o])
    <3>1. [venue[o] EXCEPT !.status = "sent"] \in AtTheVenue
      <4>1. venue[o] \in [status : Status, events : Seq(Event)]
        BY <1>0 DEF RestTypes, AtTheVenue
      <4>2. [venue[o] EXCEPT !.status = "sent"] = [status |-> "sent", events |-> venue[o].events]
        BY <4>1
      <4> QED
        BY <4>1, <4>2 DEF AtTheVenue, Status
    <3>2. venue'[o] = [venue[o] EXCEPT !.status = "sent"]
      BY <1>0, <2>2 DEF RestTypes
    <3>3. venue'[o].status = "sent" /\ venue'[o].events = venue[o].events /\ venue[o].status = "none"
      BY <1>0, <2>2, <3>1, <3>2 DEF OrderInv, AtTheVenue, VenueInv
    <3>4. VenueInv(Quantity[o], venue'[o])
      BY <1>0, <3>1, <3>2, <3>3 DEF VenueInv
    <3>5. venue' \in [Orders -> AtTheVenue] /\ \A q \in Orders \ {o} : venue'[q] = venue[q]
      BY <1>0, <2>2, <3>1 DEF RestTypes
    <3> QED
      BY <3>4, <3>5
  <2>3. /\ venue' \in [Orders -> AtTheVenue]
        /\ \A q \in Orders \ {o} : venue'[q] = venue[q]
        /\ VenueInv(Quantity[o], venue'[o])
    <3>1. CASE UNCHANGED venue
      BY <1>0, <3>1 DEF RestTypes
    <3> QED
      BY <1>3, <2>2, <3>1
  <2>4. RestTypes'
    BY <1>0, <1>3, <2>3 DEF RestTypes
  <2>5. OrderInv(o)'
    BY <1>0, <1>3, <2>1, <2>3 DEF OrderInv
  <2>6. \A q \in Orders \ {o} : OrderInv(q)'
    BY <1>0, <1>3, <2>1, <2>3, OthersStay
  <2> QED
    BY <2>4, <2>5, <2>6 DEF RestInv
<1>4. CASE Posts(o)
  <2>1. CASE Adapters[route[o]] = "synthetic"
    BY <1>3, <1>4, <2>1 DEF Posts
  <2>2. CASE Adapters[route[o]] # "synthetic"
    BY <1>3, <1>4, <2>2 DEF Posts
  <2> QED
    BY <2>1, <2>2
<1>5. CASE Responds(o)
  <2>1. CASE Adapters[route[o]] \in {"binance", "kraken"}
    BY <1>2, <1>5, <2>1 DEF Responds
  <2>2. CASE Adapters[route[o]] \notin {"binance", "kraken"}
    BY <1>3, <1>5, <2>2 DEF Responds
  <2> QED
    BY <2>1, <2>2
<1>6. CASE PollEnds(o)
  BY <1>2, <1>6 DEF PollEnds
<1>7. CASE SyntheticFills(o)
  <2>1. PICK qty \in 0..Quantity[o] :
          /\ Answered(o, Flagged(qty), "filled")
          /\ venue' = [venue EXCEPT ![o] =
                [status |-> "filled", events |-> <<[type |-> "EXECUTION", amount |-> qty]>>]]
    BY <1>7 DEF SyntheticFills
  <2> DEFINE trade == [type |-> "EXECUTION", amount |-> qty]
             events == <<trade>>
             v == [status |-> "filled", events |-> events]
             a == [fill |-> Flagged(qty), seen |-> "filled"]
  <2>2. trade \in Event /\ Traded(trade) = qty /\ qty \in Nat /\ qty <= Quantity[o]
    BY <1>0 DEF Event, Traded
  <2>3. events = Append(<<>>, trade) /\ events \in Seq(Event) /\ <<>> \in Seq(Event)
    BY <2>2
  <2>4. /\ venue' = [venue EXCEPT ![o] = v] /\ v.events = events
        /\ adapter' = [adapter EXCEPT ![o] = "answered"]
        /\ answer' = [answer EXCEPT ![o] = a] /\ adapter[o] = "filling"
        /\ UNCHANGED <<caller, route, timer, rootDone, resultCh, result>>
    BY <1>7, <2>1 DEF Answered, SyntheticFills
  <2> HIDE DEF trade
  <2>5. Executed(events) = qty
    <3>1. Executed(Append(<<>>, trade)) = Executed(<<>>) + Traded(trade)
      BY <2>2, <2>3, ExecutedAppend
    <3> QED
      BY <2>2, <2>3, <3>1, ExecutedNone
  <2> HIDE DEF events
  <2>6. VenueInv(Quantity[o], v)
    BY <1>0, <2>2, <2>3, <2>5 DEF VenueInv, AtTheVenue, Status
  <2>7. v \in AtTheVenue /\ v.status = "filled"
    BY <2>6 DEF VenueInv
  <2> HIDE DEF v
  <2>8. qty \in 0..Executed(v.events) /\ Executed(v.events) = qty
    BY <2>2, <2>4, <2>5
  <2>9. AllKinds => Meets(Quantity[o], a, v)
    BY <1>0, <2>6, <2>8, EarlyMeets
  <2>10. a \in [fill : Answer, seen : Status] /\ a.fill.reported = qty /\ a.seen = "filled"
    <3>1. Flagged(qty) \in Answer /\ Flagged(qty).reported = qty
      BY <2>2, FlaggedType DEF Flagged
    <3> QED
      BY <3>1 DEF Status
  <2> HIDE DEF a
  <2>11. AnswerInv(Quantity[o], a, v)
    BY <2>2, <2>7, <2>9, <2>10 DEF AnswerInv
  <2>12. RestTypes'
    BY <1>0, <2>4, <2>7, <2>10 DEF RestTypes
  <2>13. /\ venue'[o] = v /\ adapter'[o] = "answered" /\ answer'[o] = a
         /\ \A q \in Orders \ {o} :
               venue'[q] = venue[q] /\ adapter'[q] = adapter[q] /\ answer'[q] = answer[q]
    BY <1>0, <2>4 DEF RestTypes
  <2>14. OrderInv(o)'
    BY <1>0, <2>2, <2>4, <2>6, <2>10, <2>11, <2>13 DEF OrderInv
  <2>15. \A q \in Orders \ {o} : OrderInv(q)'
    BY <1>0, <2>4, <2>13, OthersStay
  <2> QED
    BY <2>12, <2>14, <2>15 DEF RestInv
<1>8. CASE Hands(o)
  <2>1. /\ adapter' = [adapter EXCEPT ![o] = "ended"] /\ adapter[o] = "answered"
        /\ \/ resultCh' = [resultCh EXCEPT ![o] = <<answer[o].fill>>]
           \/ UNCHANGED resultCh
        /\ UNCHANGED <<caller, route, timer, rootDone, answer, result, venue>>
    BY <1>8 DEF Hands, Sends
  <2>2. answer[o].fill \in Answer /\ <<answer[o].fill>> \in Seq(Answer)
    BY <1>0 DEF RestTypes
  <2>3. RestTypes'
    <3>1. resultCh' \in [Orders -> Seq(Answer)]
      <4>1. CASE resultCh' = [resultCh EXCEPT ![o] = <<answer[o].fill>>]
        BY <1>0, <2>2, <4>1, Zenon DEF RestTypes
      <4>2. CASE UNCHANGED resultCh
        BY <1>0, <4>2 DEF RestTypes
      <4> QED
        BY <2>1, <4>1, <4>2
    <3>2. adapter' \in [Orders -> {"none", "routing", "posting", "polling", "filling",
                                   "answered", "ended"}]
      BY <1>0, <2>1 DEF RestTypes
    <3> QED
      BY <1>0, <2>1, <3>1, <3>2 DEF RestTypes
  <2>4. /\ adapter'[o] = "ended"
        /\ resultCh'[o] = resultCh[o] \/ resultCh'[o] = <<answer[o].fill>>
        /\ \A q \in Orders \ {o} : adapter'[q] = adapter[q] /\ resultCh'[q] = resultCh[q]
    BY <1>0, <2>1 DEF RestTypes
  <2>5. OrderInv(o)'
    <3>1. Len(resultCh'[o]) <= 1 /\ \A n \in 1..Len(resultCh'[o]) : resultCh'[o][n].reported <= Quantity[o]
      <4>1. CASE resultCh'[o] = resultCh[o]
        BY <1>0, <4>1 DEF OrderInv
      <4>2. CASE resultCh'[o] = <<answer[o].fill>>
        BY <1>0, <4>2 DEF OrderInv
      <4> QED
        BY <2>4, <4>1, <4>2
    <3> QED
      BY <1>0, <2>1, <2>4, <3>1 DEF OrderInv
  <2>6. \A q \in Orders \ {o} : OrderInv(q)'
    BY <1>0, <2>1, <2>4, OthersStay
  <2> QED
    BY <2>3, <2>5, <2>6 DEF RestInv
<1> QED
  BY <1>1, <1>4, <1>5, <1>6, <1>7, <1>8 DEF SubmitIOC

LEMMA NextCaller ==
    ASSUME RestInv, NEW o \in Orders, Call(o) \/ Returns(o) \/ TimerFires(o)
    PROVE  RestInv'
<1>0. RestTypes /\ OrderInv(o) /\ \A q \in Orders : OrderInv(q)
  BY DEF RestInv
<1>1. CASE Call(o)
  <2>1. PICK name \in Names : route' = [route EXCEPT ![o] = name]
    BY <1>1 DEF Call
  <2>2. RestTypes'
    BY <1>0, <1>1, <2>1 DEF Call, RestTypes
  <2>3. /\ caller'[o] = "waiting" /\ adapter'[o] = "routing"
        /\ \A q \in Orders \ {o} : caller'[q] = caller[q] /\ adapter'[q] = adapter[q]
    BY <1>0, <1>1 DEF Call, RestTypes
  <2>4. OrderInv(o)'
    BY <1>0, <1>1, <2>3 DEF Call, OrderInv
  <2>5. \A q \in Orders \ {o} : OrderInv(q)'
    BY <1>0, <1>1, <2>3, OthersStay DEF Call
  <2> QED
    BY <2>2, <2>4, <2>5 DEF RestInv
<1>2. CASE TimerFires(o)
  BY <1>0, <1>2, OthersStay DEF TimerFires, RestInv, RestTypes
<1>3. CASE Returns(o)
  <2>0. caller'[o] = "returned" /\ \A q \in Orders \ {o} : caller'[q] = caller[q]
    BY <1>0, <1>3 DEF Returns, RestTypes
  <2>1. CASE UNCHANGED <<result, resultCh>>
    <3>1. RestTypes'
      BY <1>0, <1>3, <2>1 DEF RestTypes, Returns
    <3>2. \A q \in Orders : OrderInv(q)'
      BY <1>0, <1>3, <2>0, <2>1, OthersStay DEF Returns
    <3> QED
      BY <3>1, <3>2 DEF RestInv
  <2>2. CASE /\ resultCh[o] # <<>>
             /\ result' = [result EXCEPT ![o] = Head(resultCh[o])]
             /\ resultCh' = [resultCh EXCEPT ![o] = <<>>]
    <3>1. /\ Head(resultCh[o]) = resultCh[o][1] /\ Head(resultCh[o]) \in Answer
          /\ 1 \in 1..Len(resultCh[o])
      BY <1>0, <2>2 DEF RestTypes
    <3>2. RestTypes'
      BY <1>0, <1>3, <2>2, <3>1 DEF RestTypes, Returns
    <3>3. /\ result'[o] = resultCh[o][1] /\ resultCh'[o] = <<>>
          /\ \A q \in Orders \ {o} : result'[q] = result[q] /\ resultCh'[q] = resultCh[q]
      BY <1>0, <2>2, <3>1 DEF RestTypes
    <3>4. OrderInv(o)'
      BY <1>0, <1>3, <2>0, <3>1, <3>3 DEF OrderInv, Returns
    <3>5. \A q \in Orders \ {o} : OrderInv(q)'
      BY <1>0, <1>3, <2>0, <3>3, OthersStay DEF Returns
    <3> QED
      BY <3>2, <3>4, <3>5 DEF RestInv
  <2> QED
    BY <1>3, <2>1, <2>2 DEF Returns
<1> QED
  BY <1>1, <1>2, <1>3

-------------------------------------------------------------------------------
(* The process *)

ProcessTypes ==
    /\ main \in {"connecting", "gate", "running", "grace", "closing", "exited"}
    /\ signalled \in BOOLEAN /\ copying \in BOOLEAN
    /\ check \in [by : {"none", "main", "health"}, late : BOOLEAN,
                  toAsk : 0..Cardinality(DOMAIN Adapters), allHealthy : BOOLEAN]
    /\ gateway \in {"none", "serving", "failed", "closed"}

LEMMA RegistrySize == Cardinality(DOMAIN Adapters) \in Nat
BY RestAssumption, FS_CardinalityType

LEMMA CheckTypes ==
    ASSUME ProcessTypes
    PROVE  /\ NoCheck \in [by : {"none", "main", "health"}, late : BOOLEAN,
                           toAsk : 0..Cardinality(DOMAIN Adapters), allHealthy : BOOLEAN]
           /\ \A by \in {"main", "health"} : StartCheck(by) =>
                 check' \in [by : {"none", "main", "health"}, late : BOOLEAN,
                             toAsk : 0..Cardinality(DOMAIN Adapters), allHealthy : BOOLEAN]
<1>1. 0 \in 0..Cardinality(DOMAIN Adapters)
      /\ Cardinality(DOMAIN Adapters) \in 0..Cardinality(DOMAIN Adapters)
  BY RegistrySize
<1> QED
  BY <1>1 DEF NoCheck, StartCheck

LEMMA NextProcess == ProcessTypes /\ [Next]_vars => ProcessTypes'
<1> SUFFICES ASSUME ProcessTypes, [Next]_vars PROVE ProcessTypes'
  OBVIOUS
<1>1. CASE UNCHANGED hostVars
  BY <1>1 DEF hostVars, ProcessTypes
<1>2. CASE Connects
  BY <1>2, CheckTypes DEF Connects, ProcessTypes
<1>3. CASE PassesGate
  BY <1>3, CheckTypes DEF PassesGate, ProcessTypes
<1>4. CASE Signal \/ Cancels \/ GraceEnds \/ ClosesPool \/ StartsCopy \/ EndsCopy
  BY <1>4 DEF Signal, Cancels, GraceEnds, ClosesPool, StartsCopy, EndsCopy, ProcessTypes
<1>5. CASE HealthRequest \/ HealthAnswered
  BY <1>5, CheckTypes DEF HealthRequest, HealthAnswered, ProcessTypes
<1>6. CASE ServerEnds
  BY <1>6 DEF ServerEnds, ProcessTypes
<1>7. CASE DeadlinePasses
  BY <1>7 DEF DeadlinePasses, ProcessTypes
<1>8. CASE HealthCheck
  <2>1. PICK ok \in BOOLEAN : check' = [check EXCEPT !.toAsk = @ - 1, !.allHealthy = @ /\ ok]
    BY <1>8 DEF HealthCheck
  <2>2. check.toAsk - 1 \in 0..Cardinality(DOMAIN Adapters)
    BY <1>8, RegistrySize DEF HealthCheck, ProcessTypes
  <2>3. (check.allHealthy /\ ok) \in BOOLEAN
    OBVIOUS
  <2>4. check' \in [by : {"none", "main", "health"}, late : BOOLEAN,
                    toAsk : 0..Cardinality(DOMAIN Adapters), allHealthy : BOOLEAN]
    BY <2>1, <2>2, <2>3, Zenon DEF ProcessTypes
  <2> QED
    BY <1>8, <2>4 DEF HealthCheck, ProcessTypes
<1>9. CASE UNCHANGED vars
  BY <1>1, <1>9 DEF vars
<1>10. ASSUME NEW o \in Orders, Caller(o) \/ Timeout(o) \/ Adapter(o) \/ AtVenue(o)
       PROVE  ProcessTypes'
  BY <1>1, <1>10 DEF Caller, Timeout, Adapter, AtVenue
<1> QED
  BY <1>2, <1>3, <1>4, <1>5, <1>6, <1>7, <1>8, <1>9, <1>10 DEF Next, Main

\* What is not about an order leaves the orders alone; the context is cancelled
\* by main only.
LEMMA NextRest == RestInv /\ [Next]_vars => RestInv'
<1> SUFFICES ASSUME RestInv, [Next]_vars PROVE RestInv'
  OBVIOUS
<1>1. CASE /\ UNCHANGED <<caller, adapter, route, timer, answer, resultCh, result, venue>>
           /\ rootDone' \in BOOLEAN
  BY <1>1, OthersStay DEF RestInv, RestTypes
<1>2. CASE UNCHANGED restVars
  BY <1>1, <1>2 DEF restVars, RestInv, RestTypes
<1>3. ASSUME NEW o \in Orders, Caller(o) \/ Timeout(o) \/ Adapter(o) \/ AtVenue(o)
      PROVE  RestInv'
  BY <1>3, NextCaller, NextAdapter, NextVenue DEF Caller, Timeout, Adapter, AtVenue
<1>4. CASE Main
  BY <1>1, <1>2, <1>4 DEF Main, Connects, PassesGate, Cancels, GraceEnds, ClosesPool
<1>5. CASE Signal \/ HealthCheck \/ DeadlinePasses \/ StartsCopy \/ EndsCopy \/ HealthRequest
           \/ HealthAnswered \/ ServerEnds
  BY <1>2, <1>5 DEF Signal, HealthCheck, DeadlinePasses, StartsCopy, EndsCopy, HealthRequest,
                    HealthAnswered, ServerEnds
<1>6. CASE UNCHANGED vars
  BY <1>2, <1>6 DEF vars
<1> QED
  BY <1>3, <1>4, <1>5, <1>6 DEF Next

LEMMA InitHost == Init => RestInv /\ ProcessTypes
<1>1. Init => RestInv
  BY InitRest DEF Init
<1>2. Init => ProcessTypes
  <2>1. 0 \in 0..Cardinality(DOMAIN Adapters)
    BY RegistrySize
  <2>2. NoCheck \in [by : {"none", "main", "health"}, late : BOOLEAN,
                     toAsk : 0..Cardinality(DOMAIN Adapters), allHealthy : BOOLEAN]
    BY <2>1 DEF NoCheck
  <2> QED
    BY <2>2 DEF Init, ProcessTypes
<1> QED
  BY <1>1, <1>2

\* An adapter that may answer in every way the contract knows answers in no
\* other: whatever is lost, refused, cancelled or overtaken on the way, the
\* engine is told something that fits what the venue will have executed in the
\* end, and the exact figure once the venue is through.
THEOREM ContractMet ==
    ASSUME AllKinds
    PROVE  Spec => []AnswersMeetContract
<1>1. RestInv /\ [Next]_vars => RestInv'
  BY NextRest
<1>2. RestInv => AnswersMeetContract
  BY DEF RestInv, OrderInv, AnswerInv, Meets, AnswersMeetContract
<1>3. Init => RestInv
  BY InitHost
<1> QED
  BY <1>1, <1>2, <1>3, PTL DEF Spec

\* The state of the calls, the venues and the process has its types: no call
\* is told of, and no venue executes, more than was asked for.
THEOREM HostTypes == Spec => []TypeOK
<1>1. RestInv /\ [Next]_vars => RestInv'
  BY NextRest
<1>2. RestInv => RestTypeOK
  <2> SUFFICES ASSUME RestInv, NEW o \in Orders
               PROVE  /\ DOMAIN answer[o] = {"fill", "seen"}
                      /\ answer[o].fill \in [filled : BOOLEAN, reported : 0..Quantity[o]]
                      /\ result[o] \in [filled : BOOLEAN, reported : 0..Quantity[o]]
                      /\ Len(resultCh[o]) <= 1
                      /\ Executed(venue[o].events) <= Quantity[o]
    BY DEF RestTypeOK, RestInv, RestTypes
  <2>1. /\ answer[o] \in [fill : Answer, seen : Status] /\ result[o] \in Answer
        /\ OrderInv(o) /\ Quantity[o] \in Nat
    BY QuantityType DEF RestInv, RestTypes
  <2>2. \A a \in Answer : a.reported <= Quantity[o] => a \in [filled : BOOLEAN, reported : 0..Quantity[o]]
    BY <2>1 DEF Answer
  <2> QED
    BY <2>1, <2>2 DEF OrderInv, VenueInv
<1>3. RestTypeOK /\ ProcessTypes => TypeOK
  BY DEF ProcessTypes, TypeOK
<1> QED
  BY <1>1, <1>2, <1>3, InitHost, NextProcess, PTL DEF Spec
===============================================================================
