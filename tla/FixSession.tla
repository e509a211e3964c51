------------------------------ MODULE FixSession ------------------------------
(***************************************************************************)
(* The FIX session of internal/exchange/adapters/fix.go: one connection    *)
(* shared by the goroutines that submit orders, the read loop and the      *)
(* heartbeat loop.  A message gets its sequence number under seqMu and is  *)
(* written under connMu; the read loop hands an execution report to the    *)
(* channel that the order's goroutine registered in pending.  A write has  *)
(* no deadline: it waits, with connMu held, for room in the socket.        *)
(*                                                                         *)
(* The venue executes an order in any number of fills, may report each, and*)
(* may log out; the connection may break at any time.                      *)
(***************************************************************************)
EXTENDS Integers, Sequences, FiniteSets

CONSTANTS
    Orders,           \* orders submitted, one goroutine each
    Quantity,         \* Quantity[o], in lots
    SendBuf,          \* messages the sockets hold that the venue has not read
    MaxBeats          \* bound: our heartbeats, and those and TestRequests of the venue

ASSUME FixAssumption ==
    /\ IsFiniteSet(Orders) /\ {"reader", "heart", "logon"} \intersect Orders = {}
    /\ Quantity \in [Orders -> Nat \ {0}]
    /\ SendBuf \in Nat \ {0}
    /\ MaxBeats \in Nat

VARIABLES
    connected,        \* FIXAdapter.connected
    up,               \* the TCP connection: none, open, broken
    seqNum,           \* FIXAdapter.seqNum
    pc,               \* pc[o]: where SubmitIOC of o is
    held,             \* held[w]: the sequence number of the message w has built
    pending,          \* the orders registered in FIXAdapter.pending
    ch,               \* ch[o]: the order's channel, of capacity 1
    result,           \* result[o]: what SubmitIOC returns
    reader,           \* where readLoop is
    report,           \* the report handleExecutionReport is delivering
    heart,            \* where heartbeatLoop is
    beats,            \* heartbeats sent, and asked for or received
    heard,            \* lastHeartbeat is less than two intervals ago
    wire,             \* messages written: who wrote them, with which number
    unread,           \* how many of them, the last ones, the venue has not read
    inbound,          \* messages of the venue not read yet
    venue             \* venue[o]: the order at the venue

socket  == <<up, wire, unread>>
session == <<connected, seqNum, held, socket>>
submits == <<pc, pending, ch, result>>
loops   == <<reader, report, heart, beats, heard>>
vars    == <<session, submits, loops, inbound, venue>>

Writers == Orders \union {"reader", "heart"}

NoReport == [order |-> "none", status |-> "none", cum |-> 0]
NoResult == [filled |-> FALSE, qty |-> 0]

Init ==
    /\ connected = FALSE /\ up = "none" /\ seqNum = 1
    /\ held = [w \in Writers |-> 0]
    /\ wire = <<>> /\ unread = 0
    /\ pc = [o \in Orders |-> "idle"]
    /\ pending = {}
    /\ ch = [o \in Orders |-> <<>>]
    /\ result = [o \in Orders |-> NoResult]
    /\ reader = "none" /\ report = NoReport
    /\ heart = "none" /\ beats = [sent |-> 0, asked |-> 0]
    /\ heard = FALSE
    /\ inbound = <<>>
    /\ venue = [o \in Orders |-> [status |-> "none", executed |-> 0]]

\* Mutant: the number is read and not incremented.
SeqNumKept(n) == n

SeqNumAfter(n) == n + 1

\* buildMessage: one critical section of seqMu.
BuildMessage(w) ==
    /\ held' = [held EXCEPT ![w] = seqNum]
    /\ seqNum' = SeqNumAfter(seqNum)

\* writeMessage: one critical section of connMu, which lasts until the sockets
\* have room.  On a broken connection the message is lost, whether or not the
\* write reports it.
WriteMessage(w) ==
    /\ \/ /\ up = "open" /\ unread < SendBuf
          /\ wire' = Append(wire, [from |-> w, seq |-> held[w]])
          /\ unread' = unread + 1
       \/ up = "broken" /\ UNCHANGED <<wire, unread>>
    /\ held' = [held EXCEPT ![w] = 0]

-------------------------------------------------------------------------------
\* main connects once, before anything else uses the session.  The answer to
\* the Logon is not waited for.
Connect ==
    /\ up = "none"
    /\ up' = "open" /\ connected' = TRUE
    /\ wire' = <<[from |-> "logon", seq |-> 1]>> /\ unread' = 1
    /\ seqNum' = SeqNumAfter(1)
    /\ reader' = "reading" /\ heart' = "waiting" /\ heard' = TRUE
    /\ UNCHANGED <<held, submits, report, beats, inbound, venue>>

-------------------------------------------------------------------------------
(* SubmitIOC *)

CheckConnected(o) ==
    /\ pc[o] = "idle"
    /\ up # "none"
    /\ pc' = [pc EXCEPT ![o] = IF connected THEN "checked" ELSE "done"]
    /\ UNCHANGED <<session, pending, ch, result, loops, inbound, venue>>

Register(o) ==
    /\ pc[o] = "checked"
    /\ pending' = pending \union {o}
    /\ pc' = [pc EXCEPT ![o] = "registered"]
    /\ UNCHANGED <<session, ch, result, loops, inbound, venue>>

BuildOrder(o) ==
    /\ pc[o] = "registered"
    /\ BuildMessage(o)
    /\ pc' = [pc EXCEPT ![o] = "built"]
    /\ UNCHANGED <<connected, socket, pending, ch, result, loops, inbound, venue>>

WriteOrder(o) ==
    /\ pc[o] = "built"
    /\ WriteMessage(o)
    /\ \/ pc' = [pc EXCEPT ![o] = "sent"]
       \/ up = "broken" /\ pc' = [pc EXCEPT ![o] = "leaving"]
    /\ UNCHANGED <<connected, up, seqNum, pending, ch, result, loops, inbound, venue>>

TakeReport(o) ==
    /\ pc[o] = "sent"
    /\ ch[o] # <<>>
    /\ result' = [result EXCEPT ![o] = Head(ch[o])]
    /\ ch' = [ch EXCEPT ![o] = Tail(@)]
    /\ pc' = [pc EXCEPT ![o] = "leaving"]
    /\ UNCHANGED <<session, pending, loops, inbound, venue>>

\* Mutant: the wait does not select on the context.
NeverDone(o) == FALSE

\* The context of the call is cancelled or its timeout has passed.
ContextDone(o) == pc[o] = "sent"

GiveUp(o) ==
    /\ ContextDone(o)
    /\ pc' = [pc EXCEPT ![o] = "leaving"]
    /\ UNCHANGED <<session, pending, ch, result, loops, inbound, venue>>

\* The deferred delete.
Deregister(o) ==
    /\ pc[o] = "leaving"
    /\ pending' = pending \ {o}
    /\ pc' = [pc EXCEPT ![o] = "done"]
    /\ UNCHANGED <<session, ch, result, loops, inbound, venue>>

SubmitIOC(o) ==
    \/ CheckConnected(o) \/ Register(o) \/ BuildOrder(o) \/ WriteOrder(o)
    \/ TakeReport(o) \/ GiveUp(o) \/ Deregister(o)

-------------------------------------------------------------------------------
(* readLoop *)

Read(kind) ==
    /\ reader = "reading"
    /\ inbound # <<>>
    /\ Head(inbound).kind = kind
    /\ inbound' = Tail(inbound)

\* The channel is looked up under pendingMu; a report nobody waits for is
\* dropped.
ReadReport ==
    /\ Read("report")
    /\ IF Head(inbound).order \in pending
       THEN /\ reader' = "delivering"
            /\ report' = [order |-> Head(inbound).order, status |-> Head(inbound).status,
                          cum |-> Head(inbound).cum]
       ELSE UNCHANGED <<reader, report>>
    /\ UNCHANGED <<session, submits, heart, beats, heard, venue>>

\* Mutant: the quantity is the order's (38) instead of the cumulated one (14).
OrderedQty(r) == Quantity[r.order]

FilledQty(r) == r.cum

\* 1 PartiallyFilled and 2 Filled are fills; New, Cancelled and Rejected not.
Fill(r) ==
    [filled |-> r.status \in {"partial", "filled"} /\ r.cum > 0, qty |-> FilledQty(r)]

\* Mutant: the send waits for a receiver.
DeliverOrWait(o) ==
    /\ ch[o] = <<>>
    /\ ch' = [ch EXCEPT ![o] = <<Fill(report)>>]

\* Mutant: the channel has no capacity to respect.
DeliverAlways(o) == ch' = [ch EXCEPT ![o] = Append(@, Fill(report))]

\* The first report of an order is final: a second one finds the channel full,
\* or is never received.
Deliver(o) ==
    IF ch[o] = <<>> THEN ch' = [ch EXCEPT ![o] = <<Fill(report)>>] ELSE UNCHANGED ch

DeliverReport ==
    /\ reader = "delivering"
    /\ Deliver(report.order)
    /\ reader' = "reading"
    /\ report' = NoReport
    /\ UNCHANGED <<session, pc, pending, result, heart, beats, heard, inbound, venue>>

ReadTestRequest ==
    /\ Read("testRequest")
    /\ BuildMessage("reader")
    /\ reader' = "replying"
    /\ UNCHANGED <<connected, socket, submits, report, heart, beats, heard, venue>>

Reply ==
    /\ reader = "replying"
    /\ WriteMessage("reader")
    /\ reader' = "reading" /\ heard' = TRUE
    /\ UNCHANGED <<connected, up, seqNum, submits, report, heart, beats, inbound, venue>>

ReadHeartbeat ==
    /\ Read("heartbeat")
    /\ heard' = TRUE
    /\ UNCHANGED <<session, submits, reader, report, heart, beats, venue>>

ReadLogout ==
    /\ Read("logout")
    /\ connected' = FALSE
    /\ reader' = "stopped"
    /\ UNCHANGED <<seqNum, held, socket, submits, report, heart, beats, heard, venue>>

\* Mutant: the reader ends without marking the session.
ReadFailsSilently ==
    /\ reader = "reading"
    /\ up = "broken"
    /\ reader' = "stopped"
    /\ UNCHANGED <<session, submits, report, heart, beats, heard, inbound, venue>>

ReadFails ==
    /\ reader = "reading"
    /\ up = "broken"
    /\ connected' = FALSE
    /\ reader' = "stopped"
    /\ UNCHANGED <<seqNum, held, socket, submits, report, heart, beats, heard, inbound, venue>>

ReadLoop ==
    \/ ReadReport \/ DeliverReport
    \/ ReadTestRequest \/ Reply \/ ReadHeartbeat
    \/ ReadLogout \/ ReadFails

-------------------------------------------------------------------------------
(* heartbeatLoop *)

Beat ==
    /\ heart = "waiting"
    /\ beats.sent < MaxBeats \/ ~connected
    /\ IF connected
       THEN heart' = "checked" /\ beats' = [beats EXCEPT !.sent = @ + 1]
       ELSE heart' = "ended" /\ UNCHANGED beats
    /\ UNCHANGED <<session, submits, reader, report, heard, inbound, venue>>

BuildHeartbeat ==
    /\ heart = "checked"
    /\ BuildMessage("heart")
    /\ heart' = "built"
    /\ UNCHANGED <<connected, socket, submits, reader, report, beats, heard, inbound, venue>>

WriteHeartbeat ==
    /\ heart = "built"
    /\ WriteMessage("heart")
    /\ heart' = "waiting"
    /\ UNCHANGED <<connected, up, seqNum, submits, reader, report, beats, heard, inbound, venue>>

HeartbeatLoop == Beat \/ BuildHeartbeat \/ WriteHeartbeat

-------------------------------------------------------------------------------
(* The venue and the network *)

VenueReads ==
    /\ unread > 0
    /\ unread' = unread - 1
    /\ UNCHANGED <<connected, up, seqNum, held, wire, submits, loops, inbound, venue>>

HasRead(o) == \E i \in 1..(Len(wire) - unread) : wire[i].from = o

\* A message the venue sends arrives while the connection is open.
Says(msg) == inbound' = IF up = "open" THEN Append(inbound, msg) ELSE inbound

Report(o, status, cum) == [kind |-> "report", order |-> o, status |-> status, cum |-> cum]

VenueAccepts(o) ==
    /\ HasRead(o) /\ venue[o].status = "none"
    /\ venue' = [venue EXCEPT ![o].status = "working"]
    /\ \/ Says(Report(o, "new", 0))
       \/ UNCHANGED inbound
    /\ UNCHANGED <<session, submits, loops>>

VenueFills(o) ==
    /\ venue[o].status = "working"
    /\ \E total \in (venue[o].executed + 1)..Quantity[o] :
          LET full == total = Quantity[o] IN
          /\ venue' = [venue EXCEPT ![o] = [status |-> IF full THEN "final" ELSE "working",
                                            executed |-> total]]
          /\ Says(Report(o, IF full THEN "filled" ELSE "partial", total))
    /\ UNCHANGED <<session, submits, loops>>

\* The rest of an IOC order is cancelled, or the order rejected.
VenueEnds(o) ==
    /\ venue[o].status = "working"
    /\ venue' = [venue EXCEPT ![o].status = "final"]
    /\ \/ Says(Report(o, "cancelled", venue[o].executed))
       \/ venue[o].executed = 0 /\ Says(Report(o, "rejected", 0))
    /\ UNCHANGED <<session, submits, loops>>

VenueBeats ==
    /\ up = "open"
    /\ beats.asked < MaxBeats
    /\ beats' = [beats EXCEPT !.asked = @ + 1]
    /\ \E kind \in {"testRequest", "heartbeat"} : Says([kind |-> kind])
    /\ UNCHANGED <<session, submits, reader, report, heart, heard, venue>>

VenueLogsOut ==
    /\ up = "open"
    /\ \A i \in DOMAIN inbound : inbound[i].kind # "logout"
    /\ Says([kind |-> "logout"])
    /\ UNCHANGED <<session, submits, loops, venue>>

\* What was on its way to us is lost with the connection.
Break ==
    /\ up = "open"
    /\ up' = "broken"
    /\ inbound' = <<>>
    /\ UNCHANGED <<connected, seqNum, held, wire, unread, submits, loops, venue>>

\* Two intervals pass since the last heartbeat or TestRequest; other messages
\* do not count.
HeartbeatAges ==
    /\ heard
    /\ heard' = FALSE
    /\ UNCHANGED <<session, submits, reader, report, heart, beats, inbound, venue>>

-------------------------------------------------------------------------------
Next ==
    \/ Connect
    \/ \E o \in Orders : SubmitIOC(o) \/ VenueAccepts(o) \/ VenueFills(o) \/ VenueEnds(o)
    \/ ReadLoop \/ HeartbeatLoop
    \/ VenueReads \/ VenueBeats \/ VenueLogsOut \/ Break \/ HeartbeatAges

Spec == Init /\ [][Next]_vars

\* The goroutines of the session are scheduled, and a context ends in the end.
Fairness ==
    /\ \A o \in Orders : WF_vars(SubmitIOC(o))
    /\ WF_vars(ReadLoop)
    /\ WF_vars(HeartbeatLoop)

\* The venue goes on reading what is sent to it.  Nothing in the code makes up
\* for a venue that does not: no write has a deadline.
VenueKeepsReading == WF_vars(VenueReads)

FairSpec == Spec /\ Fairness /\ VenueKeepsReading

StallingSpec == Spec /\ Fairness

-------------------------------------------------------------------------------
TypeOK ==
    /\ connected \in BOOLEAN /\ up \in {"none", "open", "broken"} /\ seqNum \in Nat \ {0}
    /\ pc \in [Orders -> {"idle", "checked", "registered", "built", "sent", "leaving", "done"}]
    /\ held \in [Writers -> Nat]
    /\ pending \subseteq Orders
    /\ ch \in [Orders -> Seq([filled : BOOLEAN, qty : Nat])]
    /\ \A o \in Orders : Len(ch[o]) <= 1
    /\ unread \in 0..Len(wire) /\ unread <= SendBuf
    /\ heard \in BOOLEAN
    /\ result \in [Orders -> [filled : BOOLEAN, qty : Nat]]
    /\ reader \in {"none", "reading", "delivering", "replying", "stopped"}
    /\ reader = "delivering" => report.order \in Orders
    /\ heart \in {"none", "waiting", "checked", "built", "ended"}
    /\ wire \in Seq([from : Writers \union {"logon"}, seq : Nat \ {0}])
    /\ venue \in [Orders -> [status : {"none", "working", "final"}, executed : Nat]]
    /\ \A o \in Orders : venue[o].executed <= Quantity[o]

\* Goroutines that have taken a sequence number and not yet written it.
Holders == {w \in Writers : held[w] # 0}

WireSeqs == {wire[i].seq : i \in DOMAIN wire}

\* A session survives only if its sequence numbers have neither gap nor
\* repetition: while the connection is open every number taken is on the wire
\* once or held by one goroutine that is about to write it.
SequenceAccounted ==
    up = "open" =>
        /\ WireSeqs \union {held[w] : w \in Holders} = 1..(seqNum - 1)
        /\ Len(wire) + Cardinality(Holders) = seqNum - 1

\* What the execution engine assumes of its adapters: a result never claims
\* more than the venue executes, a fill has a quantity, and a quantity that is
\* not flagged as filled is that of an order cut short.
ResultMatchesVenue ==
    \A o \in Orders :
        /\ result[o].qty <= venue[o].executed
        /\ result[o].filled => result[o].qty > 0
        /\ ~result[o].filled /\ result[o].qty > 0 =>
              venue[o].status = "final" /\ result[o].qty = venue[o].executed
                /\ venue[o].executed < Quantity[o]

\* HealthCheck reports no error.
Healthy == connected /\ heard

\* Once the connection is broken, or the reader has stopped, HealthCheck fails
\* for good: nothing hides a lost session, and nothing connects it again.
LossIsSeen == [](up = "broken" \/ reader = "stopped" => <>[]~Healthy)

\* Every SubmitIOC returns and removes its entry, whatever becomes of the
\* session.
SubmitReturns ==
    \A o \in Orders : pc[o] = "checked" ~> (pc[o] = "done" /\ o \notin pending)

\* "When ctx is Done, any in-flight network I/O must be aborted immediately": an
\* order that has something to write writes it, or gives up, in the end.
ContextAbortsWrite == \A o \in Orders : pc[o] = "built" ~> pc[o] # "built"

\* Late and repeated reports never wedge the read loop.
ReaderKeepsUp == inbound # <<>> ~> (inbound = <<>> \/ reader = "stopped")

===============================================================================
