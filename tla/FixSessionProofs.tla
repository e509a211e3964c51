--------------------------- MODULE FixSessionProofs ---------------------------
(***************************************************************************)
(* Proofs about the FIX session: its types, its sequence numbers, and that *)
(* a result never claims more than the venue executed, for any number of   *)
(* orders and of lots, and however full the sockets are.                   *)
(***************************************************************************)
EXTENDS FixSession, SequenceTheorems, FiniteSetTheorems, TLAPS

-------------------------------------------------------------------------------
(* The invariant *)

Statuses == {"new", "partial", "filled", "cancelled", "rejected"}

Messages ==
    [kind : {"report"}, order : Orders, status : Statuses, cum : Nat]
        \union [kind : {"testRequest", "heartbeat", "logout"}]

PCs == {"idle", "checked", "registered", "built", "sent", "leaving", "done"}

Results == [filled : BOOLEAN, qty : Nat]

WireMessages == [from : Writers \union {"logon"}, seq : Nat \ {0}]

\* What TypeOK leaves out because TLC need not enumerate it.
QueueTypes ==
    /\ inbound \in Seq(Messages)
    /\ beats \in [sent : Nat, asked : Nat]
    /\ reader = "delivering" =>
          report.order \in Orders /\ report.status \in Statuses /\ report.cum \in Nat

\* A number is held exactly between buildMessage and writeMessage, and before
\* the session is connected nothing is.
HeldInv ==
    /\ \A o \in Orders : pc[o] = "built" <=> held[o] # 0
    /\ reader = "replying" <=> held["reader"] # 0
    /\ heart = "built" <=> held["heart"] # 0
    /\ up = "none" => seqNum = 1 /\ \A o \in Orders : pc[o] = "idle"
    /\ up = "none" => reader = "none" /\ heart = "none"

TypeInv == TypeOK /\ QueueTypes /\ HeldInv

-------------------------------------------------------------------------------
(* What a message is *)

LEMMA ReportIsMessage ==
    ASSUME NEW o \in Orders, NEW s \in Statuses, NEW n \in Nat
    PROVE  /\ Report(o, s, n) \in Messages
           /\ Report(o, s, n).kind = "report" /\ Report(o, s, n).order = o
           /\ Report(o, s, n).status = s /\ Report(o, s, n).cum = n
BY DEF Report, Messages

LEMMA OtherIsMessage ==
    ASSUME NEW k \in {"testRequest", "heartbeat", "logout"}
    PROVE  [kind |-> k] \in Messages /\ [kind |-> k].kind # "report"
BY DEF Messages

LEMMA MessageFields ==
    ASSUME NEW msg \in Messages, msg.kind = "report"
    PROVE  msg.order \in Orders /\ msg.status \in Statuses /\ msg.cum \in Nat
BY DEF Messages

LEMMA SaysKeeps ==
    ASSUME inbound \in Seq(Messages), NEW msg \in Messages, Says(msg)
    PROVE  inbound' \in Seq(Messages)
<1>1. Append(inbound, msg) \in Seq(Messages)
    BY AppendProperties
<1> QED BY <1>1 DEF Says

LEMMA ReadKeeps ==
    ASSUME inbound \in Seq(Messages), NEW k, Read(k)
    PROVE  /\ inbound' \in Seq(Messages)
           /\ Head(inbound) \in Messages /\ Head(inbound).kind = k
           /\ \A i \in DOMAIN inbound' : i + 1 \in DOMAIN inbound /\ inbound'[i] = inbound[i + 1]
           /\ 1 \in DOMAIN inbound /\ Head(inbound) = inbound[1]
BY HeadTailProperties DEF Read

-------------------------------------------------------------------------------
(* buildMessage and writeMessage *)

LEMMA BuildKeeps ==
    ASSUME TypeInv, NEW w \in Writers, held[w] = 0, BuildMessage(w)
    PROVE  /\ held' \in [Writers -> Nat] /\ seqNum' \in Nat \ {0}
           /\ held'[w] = seqNum /\ held'[w] # 0
           /\ \A v \in Writers \ {w} : held'[v] = held[v]
           /\ seqNum' = seqNum + 1
BY DEF TypeInv, TypeOK, BuildMessage, SeqNumAfter

LEMMA WriteKeeps ==
    ASSUME TypeInv, NEW w \in Writers, held[w] # 0, WriteMessage(w)
    PROVE  /\ held' \in [Writers -> Nat]
           /\ held'[w] = 0
           /\ \A v \in Writers \ {w} : held'[v] = held[v]
           /\ wire' \in Seq(WireMessages)
           /\ unread' \in 0..Len(wire') /\ unread' <= SendBuf
           /\ up = "open" \/ up = "broken"
<1>1. held \in [Writers -> Nat] /\ wire \in Seq(WireMessages)
    BY DEF TypeInv, TypeOK, WireMessages
<1>2. /\ held' \in [Writers -> Nat] /\ held'[w] = 0
      /\ \A v \in Writers \ {w} : held'[v] = held[v]
    BY <1>1 DEF WriteMessage
<1>3. [from |-> w, seq |-> held[w]] \in WireMessages
    BY <1>1 DEF WireMessages
<1>4. /\ wire' \in Seq(WireMessages)
      /\ unread' \in 0..Len(wire') /\ unread' <= SendBuf
    <2>1. CASE up = "open" /\ unread < SendBuf /\ unread' = unread + 1
               /\ wire' = Append(wire, [from |-> w, seq |-> held[w]])
        BY <2>1, <1>1, <1>3, AppendProperties, FixAssumption DEF TypeInv, TypeOK
    <2>2. CASE up = "broken" /\ UNCHANGED <<wire, unread>>
        BY <2>2, <1>1 DEF TypeInv, TypeOK
    <2> QED BY <2>1, <2>2 DEF WriteMessage
<1> QED BY <1>2, <1>4 DEF WriteMessage

-------------------------------------------------------------------------------
(* Types *)

LEMMA NotWriters == "reader" \notin Orders /\ "heart" \notin Orders
                    /\ Orders \subseteq Writers /\ "reader" \in Writers /\ "heart" \in Writers
BY FixAssumption DEF Writers

LEMMA TypeInit == Init => TypeInv
<1> SUFFICES ASSUME Init PROVE TypeInv
    OBVIOUS
<1>1. /\ wire \in Seq(WireMessages) /\ Len(wire) = 0
      /\ inbound \in Seq(Messages)
      /\ ch \in [Orders -> Seq(Results)] /\ \A o \in Orders : Len(ch[o]) = 0
    BY EmptySeq DEF Init
<1>2. TypeOK
    <2>1. venue \in [Orders -> [status : {"none", "working", "final"}, executed : Nat]]
        BY DEF Init
    <2>2. \A o \in Orders : venue[o].executed = 0 /\ 0 <= Quantity[o]
        BY FixAssumption DEF Init
    <2>3. result \in [Orders -> Results]
        BY DEF Init, NoResult, Results
    <2>4. unread \in 0..Len(wire) /\ unread <= SendBuf
        BY <1>1, FixAssumption DEF Init
    <2>5. /\ pc \in [Orders -> PCs] /\ held \in [Writers -> Nat]
          /\ \A o \in Orders : Len(ch[o]) <= 1 /\ venue[o].executed <= Quantity[o]
        BY <1>1, <2>2 DEF Init, PCs
    <2>6. connected \in BOOLEAN /\ heard \in BOOLEAN
        BY Zenon DEF Init
    <2>7. /\ up \in {"none", "open", "broken"} /\ seqNum \in Nat \ {0}
          /\ pending \subseteq Orders
          /\ reader = "none" /\ heart = "none"
        BY DEF Init
    <2> QED
        BY <1>1, <2>1, <2>3, <2>4, <2>5, <2>6, <2>7 DEF TypeOK, WireMessages, Results, PCs
<1>3. QueueTypes
    BY <1>1 DEF Init, QueueTypes
<1>4. HeldInv
    BY NotWriters DEF Init, HeldInv
<1> QED BY <1>2, <1>3, <1>4 DEF TypeInv

LEMMA ConnectKeepsTypes == TypeInv /\ Connect => TypeInv'
<1> SUFFICES ASSUME TypeInv, Connect PROVE TypeInv'
    OBVIOUS
<1>0. TypeOK /\ QueueTypes /\ HeldInv
    BY DEF TypeInv
<1>1. /\ wire' = <<[from |-> "logon", seq |-> 1]>> /\ Len(wire') = 1
      /\ wire' \in Seq(WireMessages)
    BY DEF Connect, WireMessages
<1>2. TypeOK'
    BY <1>0, <1>1, FixAssumption DEF TypeOK, Connect, SeqNumAfter, submits, WireMessages
<1>3. QueueTypes'
    BY <1>0 DEF QueueTypes, Connect
<1>4. HeldInv'
    BY <1>0, NotWriters DEF HeldInv, Connect, submits
<1> QED BY <1>2, <1>3, <1>4 DEF TypeInv

LEMMA SubmitKeepsTypes ==
    ASSUME TypeInv, NEW o \in Orders, SubmitIOC(o)
    PROVE  TypeInv'
<1>0. TypeOK /\ QueueTypes /\ HeldInv
    BY DEF TypeInv
<1> USE NotWriters
<1>1. CASE CheckConnected(o)
    BY <1>0, <1>1 DEF TypeInv, TypeOK, QueueTypes, HeldInv, CheckConnected, session, socket, loops
<1>2. CASE Register(o)
    BY <1>0, <1>2 DEF TypeInv, TypeOK, QueueTypes, HeldInv, Register, session, socket, loops
<1>3. CASE BuildOrder(o)
    <2>1. held[o] = 0 /\ o \in Writers /\ BuildMessage(o) /\ up # "none"
        BY <1>0, <1>3 DEF HeldInv, BuildOrder
    <2>2. /\ held' \in [Writers -> Nat] /\ seqNum' \in Nat \ {0}
          /\ held'[o] # 0 /\ \A v \in Writers \ {o} : held'[v] = held[v]
        BY <2>1, BuildKeeps
    <2>3. /\ pc' \in [Orders -> PCs]
          /\ pc'[o] = "built" /\ \A p \in Orders \ {o} : pc'[p] = pc[p]
        BY <1>0, <1>3 DEF BuildOrder, TypeOK, PCs
    <2>4. TypeOK'
        BY <1>0, <1>3, <2>2, <2>3 DEF BuildOrder, TypeOK, socket, loops, PCs
    <2>5. QueueTypes'
        BY <1>0, <1>3 DEF QueueTypes, BuildOrder, loops
    <2>6. \A p \in Orders : pc'[p] = "built" <=> held'[p] # 0
        BY <1>0, <2>2, <2>3 DEF HeldInv
    <2>7. HeldInv'
        BY <1>0, <1>3, <2>1, <2>2, <2>6 DEF HeldInv, BuildOrder, socket, loops
    <2> QED BY <2>4, <2>5, <2>7 DEF TypeInv
<1>4. CASE WriteOrder(o)
    <2>1. held[o] # 0 /\ o \in Writers /\ WriteMessage(o) /\ up' = up
        BY <1>0, <1>4 DEF HeldInv, WriteOrder
    <2>2. /\ held' \in [Writers -> Nat] /\ wire' \in Seq(WireMessages)
          /\ unread' \in 0..Len(wire') /\ unread' <= SendBuf
          /\ held'[o] = 0 /\ \A v \in Writers \ {o} : held'[v] = held[v]
        BY <2>1, WriteKeeps
    <2>3. /\ pc' \in [Orders -> PCs]
          /\ pc'[o] # "built" /\ \A p \in Orders \ {o} : pc'[p] = pc[p]
        BY <1>0, <1>4 DEF WriteOrder, TypeOK, PCs
    <2>4. TypeOK'
        BY <1>0, <1>4, <2>2, <2>3 DEF WriteOrder, TypeOK, loops, PCs, WireMessages
    <2>5. QueueTypes'
        BY <1>0, <1>4 DEF QueueTypes, WriteOrder, loops
    <2>6. \A p \in Orders : pc'[p] = "built" <=> held'[p] # 0
        BY <1>0, <2>2, <2>3 DEF HeldInv
    <2>7. up # "none"
        BY <1>0, <1>4 DEF HeldInv, WriteOrder
    <2>8. HeldInv'
        BY <1>0, <1>4, <2>1, <2>2, <2>6, <2>7 DEF HeldInv, WriteOrder, loops
    <2> QED BY <2>4, <2>5, <2>8 DEF TypeInv
<1>5. CASE TakeReport(o)
    <2>1. ch[o] \in Seq(Results) /\ ch[o] # <<>> /\ Len(ch[o]) <= 1
        BY <1>0, <1>5 DEF TypeOK, TakeReport, Results
    <2>2. Head(ch[o]) \in Results /\ Tail(ch[o]) \in Seq(Results) /\ Len(Tail(ch[o])) <= 1
        BY <2>1, HeadTailProperties, LenProperties
    <2>3. /\ ch' \in [Orders -> Seq(Results)] /\ result' \in [Orders -> Results]
          /\ \A p \in Orders : Len(ch'[p]) <= 1
        BY <1>0, <1>5, <2>2 DEF TypeOK, TakeReport, Results
    <2>4. TypeOK'
        BY <1>0, <1>5, <2>3 DEF TypeOK, TakeReport, session, socket, loops, Results
    <2>5. QueueTypes' /\ HeldInv'
        BY <1>0, <1>5 DEF TypeOK, QueueTypes, HeldInv, TakeReport, session, socket, loops
    <2> QED BY <2>4, <2>5 DEF TypeInv
<1>6. CASE GiveUp(o)
    BY <1>0, <1>6 DEF TypeInv, TypeOK, QueueTypes, HeldInv, GiveUp, ContextDone, session, socket, loops
<1>7. CASE Deregister(o)
    BY <1>0, <1>7 DEF TypeInv, TypeOK, QueueTypes, HeldInv, Deregister, session, socket, loops
<1> QED BY <1>1, <1>2, <1>3, <1>4, <1>5, <1>6, <1>7 DEF SubmitIOC

LEMMA ReadLoopKeepsTypes == TypeInv /\ ReadLoop => TypeInv'
<1> SUFFICES ASSUME TypeInv, ReadLoop PROVE TypeInv'
    OBVIOUS
<1>0. TypeOK /\ QueueTypes /\ HeldInv /\ inbound \in Seq(Messages)
    BY DEF TypeInv, QueueTypes
<1> USE NotWriters
<1>1. CASE ReadReport
    <2>1. /\ inbound' \in Seq(Messages)
          /\ Head(inbound) \in Messages /\ Head(inbound).kind = "report"
        BY <1>0, <1>1, ReadKeeps DEF ReadReport
    <2>2. /\ Head(inbound).order \in Orders /\ Head(inbound).status \in Statuses
          /\ Head(inbound).cum \in Nat
        BY <2>1, MessageFields
    <2>3. TypeOK'
        <3>1. reader' \in {"reading", "delivering"}
              /\ (reader' = "delivering" => report'.order \in Orders)
            BY <1>1, <2>2 DEF ReadReport, Read
        <3> QED BY <1>0, <1>1, <3>1 DEF TypeOK, ReadReport, session, socket, submits
    <2>4. QueueTypes'
        BY <1>0, <1>1, <2>1, <2>2 DEF QueueTypes, ReadReport, Read
    <2>5. HeldInv'
        BY <1>0, <1>1 DEF HeldInv, ReadReport, Read, session, socket, submits
    <2> QED BY <2>3, <2>4, <2>5 DEF TypeInv
<1>2. CASE DeliverReport
    <2>1. report.order \in Orders /\ report.cum \in Nat
        BY <1>0, <1>2 DEF QueueTypes, DeliverReport
    <2>2. Fill(report) \in Results
        BY <2>1 DEF Fill, FilledQty, Results
    <2>3. <<Fill(report)>> \in Seq(Results) /\ Len(<<Fill(report)>>) = 1
        BY <2>2
    <2>4. ch' \in [Orders -> Seq(Results)] /\ \A p \in Orders : Len(ch'[p]) <= 1
        <3> DEFINE sent == <<Fill(report)>>
        <3>1. sent \in Seq(Results) /\ Len(sent) = 1
            BY <2>3
        <3>2. ch \in [Orders -> Seq(Results)] /\ \A p \in Orders : Len(ch[p]) <= 1
            BY <1>0 DEF TypeOK, Results
        <3>3. ch' = [ch EXCEPT ![report.order] = sent] \/ ch' = ch
            BY <1>2 DEF DeliverReport, Deliver
        <3> HIDE DEF sent
        <3>4. CASE ch' = ch
            BY <3>2, <3>4
        <3>5. CASE ch' = [ch EXCEPT ![report.order] = sent]
            <4>1. ch' \in [Orders -> Seq(Results)]
                BY <2>1, <3>1, <3>2, <3>5
            <4>2. ASSUME NEW p \in Orders PROVE Len(ch'[p]) <= 1
                <5>1. ch'[p] = IF p = report.order THEN sent ELSE ch[p]
                    BY <3>2, <3>5
                <5>2. CASE p = report.order
                    <6>1. ch'[p] = sent
                        BY <5>1, <5>2
                    <6> QED BY <6>1, <3>1
                <5>3. CASE p # report.order
                    <6>1. ch'[p] = ch[p]
                        BY <5>1, <5>3
                    <6> QED BY <6>1, <3>2
                <5> QED BY <5>2, <5>3
            <4> QED BY <4>1, <4>2
        <3> QED BY <3>3, <3>4, <3>5
    <2>5. TypeOK'
        BY <1>0, <1>2, <2>4 DEF TypeOK, DeliverReport, session, socket, Results
    <2>6. QueueTypes' /\ HeldInv'
        BY <1>0, <1>2 DEF QueueTypes, HeldInv, DeliverReport, session, socket
    <2> QED BY <2>5, <2>6 DEF TypeInv
<1>3. CASE ReadTestRequest
    <2>1. inbound' \in Seq(Messages)
        BY <1>0, <1>3, ReadKeeps DEF ReadTestRequest
    <2>2. held["reader"] = 0 /\ BuildMessage("reader") /\ up # "none"
        BY <1>0, <1>3 DEF HeldInv, TypeOK, ReadTestRequest, Read
    <2>3. /\ held' \in [Writers -> Nat] /\ seqNum' \in Nat \ {0}
          /\ held'["reader"] # 0 /\ \A v \in Writers \ {"reader"} : held'[v] = held[v]
        BY <2>2, BuildKeeps
    <2>4. TypeOK'
        BY <1>0, <1>3, <2>3 DEF TypeOK, ReadTestRequest, socket, submits
    <2>5. QueueTypes'
        BY <1>0, <1>3, <2>1 DEF QueueTypes, ReadTestRequest
    <2>6. HeldInv'
        BY <1>0, <1>3, <2>2, <2>3 DEF HeldInv, ReadTestRequest, Read, socket, submits
    <2> QED BY <2>4, <2>5, <2>6 DEF TypeInv
<1>4. CASE Reply
    <2>1. held["reader"] # 0 /\ WriteMessage("reader") /\ up' = up /\ up # "none"
        BY <1>0, <1>4 DEF HeldInv, Reply, WriteMessage
    <2>2. /\ held' \in [Writers -> Nat] /\ wire' \in Seq(WireMessages)
          /\ unread' \in 0..Len(wire') /\ unread' <= SendBuf
          /\ held'["reader"] = 0 /\ \A v \in Writers \ {"reader"} : held'[v] = held[v]
        BY <2>1, WriteKeeps
    <2>3. TypeOK'
        BY <1>0, <1>4, <2>2 DEF TypeOK, Reply, submits, WireMessages
    <2>4. QueueTypes'
        BY <1>0, <1>4 DEF QueueTypes, Reply
    <2>5. HeldInv'
        BY <1>0, <1>4, <2>1, <2>2 DEF HeldInv, Reply, submits
    <2> QED BY <2>3, <2>4, <2>5 DEF TypeInv
<1>5. CASE ReadHeartbeat
    <2>1. inbound' \in Seq(Messages)
        BY <1>0, <1>5, ReadKeeps DEF ReadHeartbeat
    <2> QED
        BY <1>0, <1>5, <2>1
           DEF TypeInv, TypeOK, QueueTypes, HeldInv, ReadHeartbeat, session, socket, submits
<1>6. CASE ReadLogout
    <2>1. inbound' \in Seq(Messages)
        BY <1>0, <1>6, ReadKeeps DEF ReadLogout
    <2> QED
        BY <1>0, <1>6, <2>1
           DEF TypeInv, TypeOK, QueueTypes, HeldInv, ReadLogout, Read, socket, submits
<1>7. CASE ReadFails
    BY <1>0, <1>7 DEF TypeInv, TypeOK, QueueTypes, HeldInv, ReadFails, socket, submits
<1> QED BY <1>1, <1>2, <1>3, <1>4, <1>5, <1>6, <1>7 DEF ReadLoop

LEMMA HeartbeatLoopKeepsTypes == TypeInv /\ HeartbeatLoop => TypeInv'
<1> SUFFICES ASSUME TypeInv, HeartbeatLoop PROVE TypeInv'
    OBVIOUS
<1>0. TypeOK /\ QueueTypes /\ HeldInv
    BY DEF TypeInv
<1> USE NotWriters
<1>1. CASE Beat
    <2>1. beats' \in [sent : Nat, asked : Nat] /\ heart' \in {"checked", "ended"}
        BY <1>0, <1>1 DEF QueueTypes, Beat
    <2>2. TypeOK'
        BY <1>0, <1>1, <2>1 DEF TypeOK, Beat, session, socket, submits
    <2>3. QueueTypes'
        BY <1>0, <1>1, <2>1 DEF QueueTypes, Beat
    <2>4. HeldInv'
        BY <1>0, <1>1, <2>1 DEF HeldInv, Beat, session, socket, submits
    <2> QED BY <2>2, <2>3, <2>4 DEF TypeInv
<1>2. CASE BuildHeartbeat
    <2>1. held["heart"] = 0 /\ BuildMessage("heart") /\ up # "none"
        BY <1>0, <1>2 DEF HeldInv, BuildHeartbeat
    <2>2. /\ held' \in [Writers -> Nat] /\ seqNum' \in Nat \ {0}
          /\ held'["heart"] # 0 /\ \A v \in Writers \ {"heart"} : held'[v] = held[v]
        BY <2>1, BuildKeeps
    <2>3. TypeOK'
        BY <1>0, <1>2, <2>2 DEF TypeOK, BuildHeartbeat, socket, submits
    <2>4. QueueTypes'
        BY <1>0, <1>2 DEF QueueTypes, BuildHeartbeat
    <2>5. HeldInv'
        BY <1>0, <1>2, <2>1, <2>2 DEF HeldInv, BuildHeartbeat, socket, submits
    <2> QED BY <2>3, <2>4, <2>5 DEF TypeInv
<1>3. CASE WriteHeartbeat
    <2>1. held["heart"] # 0 /\ WriteMessage("heart") /\ up' = up /\ up # "none"
        BY <1>0, <1>3 DEF HeldInv, WriteHeartbeat, WriteMessage
    <2>2. /\ held' \in [Writers -> Nat] /\ wire' \in Seq(WireMessages)
          /\ unread' \in 0..Len(wire') /\ unread' <= SendBuf
          /\ held'["heart"] = 0 /\ \A v \in Writers \ {"heart"} : held'[v] = held[v]
        BY <2>1, WriteKeeps
    <2>3. TypeOK'
        BY <1>0, <1>3, <2>2 DEF TypeOK, WriteHeartbeat, submits, WireMessages
    <2>4. QueueTypes'
        BY <1>0, <1>3 DEF QueueTypes, WriteHeartbeat
    <2>5. HeldInv'
        BY <1>0, <1>3, <2>1, <2>2 DEF HeldInv, WriteHeartbeat, submits
    <2> QED BY <2>3, <2>4, <2>5 DEF TypeInv
<1> QED BY <1>1, <1>2, <1>3 DEF HeartbeatLoop

LEMMA VenueKeepsTypes ==
    ASSUME TypeInv, NEW o \in Orders, VenueAccepts(o) \/ VenueFills(o) \/ VenueEnds(o)
    PROVE  TypeInv'
<1>0. TypeOK /\ QueueTypes /\ HeldInv /\ inbound \in Seq(Messages)
    BY DEF TypeInv, QueueTypes
<1> DEFINE Statused == [status : {"none", "working", "final"}, executed : Nat]
<1>1. venue \in [Orders -> Statused] /\ Quantity \in [Orders -> Nat \ {0}]
      /\ \A p \in Orders : venue[p].executed <= Quantity[p]
    BY <1>0, FixAssumption DEF TypeOK
<1>2. /\ venue' \in [Orders -> Statused]
      /\ \A p \in Orders : venue'[p].executed <= Quantity[p]
    <2>1. PICK s \in {"working", "final"}, n \in Nat :
              n <= Quantity[o] /\ venue' = [venue EXCEPT ![o] = [status |-> s, executed |-> n]]
        <3>1. CASE VenueAccepts(o) \/ VenueEnds(o)
            <4>1. PICK s \in {"working", "final"} : venue' = [venue EXCEPT ![o].status = s]
                BY <3>1 DEF VenueAccepts, VenueEnds
            <4>2. venue' = [venue EXCEPT ![o] = [status |-> s, executed |-> venue[o].executed]]
                <5>1. [venue[o] EXCEPT !.status = s] = [status |-> s, executed |-> venue[o].executed]
                    BY <1>1
                <5> QED BY <4>1, <5>1
            <4>3. venue[o].executed \in Nat
                BY <1>1
            <4> QED BY <1>1, <4>2, <4>3
        <3>2. CASE VenueFills(o)
            <4>1. PICK total \in (venue[o].executed + 1)..Quantity[o] :
                     venue' = [venue EXCEPT ![o] =
                         [status |-> IF total = Quantity[o] THEN "final" ELSE "working",
                          executed |-> total]]
                BY <3>2 DEF VenueFills
            <4>2. total \in Nat /\ total <= Quantity[o]
                BY <1>1
            <4>3. CASE total = Quantity[o]
                BY <4>1, <4>2, <4>3
            <4>4. CASE total # Quantity[o]
                BY <4>1, <4>2, <4>4
            <4> QED BY <4>3, <4>4
        <3> QED BY <3>1, <3>2
    <2>2. [status |-> s, executed |-> n] \in Statused
        OBVIOUS
    <2> QED BY <1>1, <2>1, <2>2
<1>3. inbound' \in Seq(Messages)
    <2>1. UNCHANGED inbound \/ \E s \in Statuses, n \in Nat : Says(Report(o, s, n))
        <3>1. CASE VenueAccepts(o)
            BY <3>1 DEF VenueAccepts, Statuses
        <3>2. CASE VenueFills(o)
            BY <3>2, <1>1 DEF VenueFills, Statuses
        <3>3. CASE VenueEnds(o)
            <4>1. venue[o].executed \in Nat
                BY <1>1
            <4> QED BY <3>3, <4>1 DEF VenueEnds, Statuses
        <3> QED BY <3>1, <3>2, <3>3
    <2>2. ASSUME NEW s \in Statuses, NEW n \in Nat, Says(Report(o, s, n))
          PROVE  inbound' \in Seq(Messages)
        <3>1. Report(o, s, n) \in Messages
            BY ReportIsMessage
        <3> QED BY <1>0, <2>2, <3>1, SaysKeeps
    <2> QED BY <1>0, <2>1, <2>2
<1>4. UNCHANGED <<session, submits, loops>>
    BY DEF VenueAccepts, VenueFills, VenueEnds
<1> QED
    BY <1>0, <1>2, <1>3, <1>4
       DEF TypeInv, TypeOK, QueueTypes, HeldInv, session, socket, submits, loops

LEMMA NetworkKeepsTypes ==
    ASSUME TypeInv, VenueReads \/ VenueBeats \/ VenueLogsOut \/ Break \/ HeartbeatAges
    PROVE  TypeInv'
<1>0. TypeOK /\ QueueTypes /\ HeldInv /\ inbound \in Seq(Messages)
    BY DEF TypeInv, QueueTypes
<1>1. CASE VenueReads
    <2>1. unread' \in 0..Len(wire) /\ unread' <= SendBuf
        BY <1>0, <1>1, FixAssumption DEF TypeOK, VenueReads
    <2> QED
        BY <1>0, <1>1, <2>1 DEF TypeInv, TypeOK, QueueTypes, HeldInv, VenueReads, submits, loops
<1>2. CASE VenueBeats
    <2>1. beats' \in [sent : Nat, asked : Nat]
        BY <1>0, <1>2 DEF QueueTypes, VenueBeats
    <2>2. PICK k \in {"testRequest", "heartbeat"} : Says([kind |-> k])
        BY <1>2 DEF VenueBeats
    <2>3. inbound' \in Seq(Messages)
        <3>1. [kind |-> k] \in Messages
            BY OtherIsMessage
        <3> QED BY <1>0, <2>2, <3>1, SaysKeeps
    <2> QED
        BY <1>0, <1>2, <2>1, <2>3
           DEF TypeInv, TypeOK, QueueTypes, HeldInv, VenueBeats, session, socket, submits
<1>3. CASE VenueLogsOut
    <2>1. inbound' \in Seq(Messages)
        <3>1. [kind |-> "logout"] \in Messages
            BY OtherIsMessage
        <3> QED BY <1>0, <1>3, <3>1, SaysKeeps DEF VenueLogsOut
    <2> QED
        BY <1>0, <1>3, <2>1
           DEF TypeInv, TypeOK, QueueTypes, HeldInv, VenueLogsOut, session, socket, submits, loops
<1>4. CASE Break
    BY <1>0, <1>4, EmptySeq DEF TypeInv, TypeOK, QueueTypes, HeldInv, Break, submits, loops
<1>5. CASE HeartbeatAges
    BY <1>0, <1>5 DEF TypeInv, TypeOK, QueueTypes, HeldInv, HeartbeatAges, session, socket, submits
<1> QED BY <1>1, <1>2, <1>3, <1>4, <1>5

LEMMA TypeStep == TypeInv /\ [Next]_vars => TypeInv'
<1> SUFFICES ASSUME TypeInv, [Next]_vars PROVE TypeInv'
    OBVIOUS
<1>1. CASE UNCHANGED vars
    BY <1>1 DEF TypeInv, TypeOK, QueueTypes, HeldInv, vars, session, socket, submits, loops
<1> QED
    BY <1>1, ConnectKeepsTypes, SubmitKeepsTypes, ReadLoopKeepsTypes, HeartbeatLoopKeepsTypes,
       VenueKeepsTypes, NetworkKeepsTypes DEF Next

\* Every variable of the session keeps its type, and a channel of an order
\* never holds more than the one report it has room for, for any orders,
\* quantities and sockets.
THEOREM TypeCorrect == Spec => []TypeOK
<1>1. TypeInv => TypeOK
    BY DEF TypeInv
<1> QED BY <1>1, TypeInit, TypeStep, PTL DEF Spec

-------------------------------------------------------------------------------
(* Sequence numbers *)

LEMMA HoldersFinite ==
    ASSUME NEW held0
    PROVE  IsFiniteSet({w \in Writers : held0[w] # 0})
<1>1. IsFiniteSet({"reader", "heart"})
    <2>1. {"reader", "heart"} = {"reader"} \union {"heart"}
        OBVIOUS
    <2>2. IsFiniteSet({"reader"})
        BY FS_Singleton
    <2> QED BY <2>1, <2>2, FS_AddElement
<1>2. IsFiniteSet(Writers)
    BY <1>1, FixAssumption, FS_Union DEF Writers
<1> QED BY <1>2, FS_Subset

\* A number taken is held by the one who took it.
LEMMA BuildAccounts ==
    ASSUME TypeInv, SequenceAccounted, NEW w \in Writers, held[w] = 0, BuildMessage(w),
           UNCHANGED <<up, wire>>
    PROVE  SequenceAccounted'
<1>1. /\ held' \in [Writers -> Nat] /\ held'[w] = seqNum /\ held'[w] # 0
      /\ \A v \in Writers \ {w} : held'[v] = held[v]
      /\ seqNum' = seqNum + 1 /\ seqNum \in Nat \ {0}
    BY BuildKeeps DEF TypeInv, TypeOK
<1>2. Holders' = Holders \union {w} /\ w \notin Holders
    BY <1>1 DEF Holders
<1>3. IsFiniteSet(Holders) /\ Cardinality(Holders) \in Nat
    BY HoldersFinite, FS_CardinalityType DEF Holders
<1>4. Cardinality(Holders') = Cardinality(Holders) + 1
    BY <1>2, <1>3, FS_AddElement
<1>5. {held[v] : v \in Holders}' = {held[v] : v \in Holders} \union {seqNum}
    BY <1>1, <1>2 DEF Holders
<1>6. WireSeqs' = WireSeqs
    BY DEF WireSeqs
<1>7. 1..(seqNum' - 1) = 1..(seqNum - 1) \union {seqNum}
    BY <1>1
<1>8. wire' = wire /\ up' = up /\ Len(wire) \in Nat
    BY LenProperties DEF TypeInv, TypeOK
<1>9. SUFFICES ASSUME up = "open"
      PROVE /\ (WireSeqs \union {held[v] : v \in Holders})' = 1..(seqNum' - 1)
            /\ Len(wire') + Cardinality(Holders') = seqNum' - 1
    BY <1>8 DEF SequenceAccounted
<1>10. /\ WireSeqs \union {held[v] : v \in Holders} = 1..(seqNum - 1)
       /\ Len(wire) + Cardinality(Holders) = seqNum - 1
    BY <1>9 DEF SequenceAccounted
<1>11. (WireSeqs \union {held[v] : v \in Holders})'
          = WireSeqs \union {held[v] : v \in Holders} \union {seqNum}
    BY <1>5, <1>6
<1>12. (WireSeqs \union {held[v] : v \in Holders})' = 1..(seqNum' - 1)
    BY <1>7, <1>10, <1>11
<1>13. Len(wire') + Cardinality(Holders') = seqNum' - 1
    BY <1>1, <1>3, <1>4, <1>8, <1>10
<1> QED BY <1>12, <1>13

\* A number written passes from the one who held it to the wire.
LEMMA WriteAccounts ==
    ASSUME TypeInv, SequenceAccounted, NEW w \in Writers, held[w] # 0, WriteMessage(w),
           UNCHANGED <<up, seqNum>>
    PROVE  SequenceAccounted'
<1>1. /\ held' \in [Writers -> Nat] /\ held'[w] = 0
      /\ \A v \in Writers \ {w} : held'[v] = held[v]
    BY WriteKeeps
<1>2. Holders' = Holders \ {w} /\ w \in Holders
    BY <1>1 DEF Holders
<1>3. IsFiniteSet(Holders) /\ Cardinality(Holders) \in Nat
    BY HoldersFinite, FS_CardinalityType DEF Holders
<1>4. Cardinality(Holders') = Cardinality(Holders) - 1
    BY <1>2, <1>3, FS_RemoveElement
<1>5. SUFFICES ASSUME up = "open"
      PROVE /\ (WireSeqs \union {held[v] : v \in Holders})' = 1..(seqNum - 1)
            /\ Len(wire') + Cardinality(Holders') = seqNum - 1
    BY DEF SequenceAccounted
<1>6. /\ WireSeqs \union {held[v] : v \in Holders} = 1..(seqNum - 1)
      /\ Len(wire) + Cardinality(Holders) = seqNum - 1
    BY <1>5 DEF SequenceAccounted
<1>7. wire \in Seq(WireMessages) /\ wire' = Append(wire, [from |-> w, seq |-> held[w]])
    BY <1>5 DEF WriteMessage, TypeInv, TypeOK, WireMessages
<1>8. /\ Len(wire') = Len(wire) + 1 /\ Len(wire) \in Nat
      /\ DOMAIN wire = 1..Len(wire) /\ DOMAIN wire' = 1..(Len(wire) + 1)
      /\ \A i \in 1..Len(wire) : wire'[i] = wire[i]
      /\ wire'[Len(wire) + 1].seq = held[w]
    BY <1>7
<1>9. WireSeqs' = WireSeqs \union {held[w]}
    BY <1>8 DEF WireSeqs
<1>10. {held[v] : v \in Holders}' \union {held[w]} = {held[v] : v \in Holders}
    BY <1>1, <1>2 DEF Holders
<1>11. (WireSeqs \union {held[v] : v \in Holders})' = WireSeqs \union {held[v] : v \in Holders}
    BY <1>9, <1>10
<1> QED BY <1>3, <1>4, <1>6, <1>8, <1>11

LEMMA ConnectAccounts == TypeInv /\ Connect => SequenceAccounted'
<1> SUFFICES ASSUME TypeInv, Connect PROVE SequenceAccounted'
    OBVIOUS
<1>1. \A w \in Writers : held'[w] = 0
    BY DEF TypeInv, TypeOK, HeldInv, Connect, Writers
<1>2. Holders' = {} /\ Cardinality(Holders') = 0
    BY <1>1, FS_EmptySet DEF Holders
<1>3. wire' = <<[from |-> "logon", seq |-> 1]>> /\ seqNum' = 2
    BY DEF Connect, SeqNumAfter
<1>4. Len(wire') = 1 /\ WireSeqs' = {1}
    BY <1>3 DEF WireSeqs
<1> QED BY <1>2, <1>3, <1>4 DEF SequenceAccounted

LEMMA SequenceStep == TypeInv /\ SequenceAccounted /\ [Next]_vars => SequenceAccounted'
<1> SUFFICES ASSUME TypeInv, SequenceAccounted, [Next]_vars PROVE SequenceAccounted'
    OBVIOUS
<1>1. ASSUME UNCHANGED <<up, wire, held, seqNum>> PROVE SequenceAccounted'
    BY <1>1 DEF SequenceAccounted, WireSeqs, Holders
<1>2. ASSUME up' = "broken" PROVE SequenceAccounted'
    BY <1>2 DEF SequenceAccounted
<1>3. ASSUME NEW o \in Orders, SubmitIOC(o) PROVE SequenceAccounted'
    <2>1. CASE BuildOrder(o)
        <3>1. o \in Writers /\ held[o] = 0 /\ BuildMessage(o) /\ UNCHANGED <<up, wire>>
            BY <2>1, NotWriters DEF BuildOrder, TypeInv, HeldInv, socket
        <3> QED BY <3>1, BuildAccounts
    <2>2. CASE WriteOrder(o)
        <3>1. o \in Writers /\ held[o] # 0 /\ WriteMessage(o) /\ UNCHANGED <<up, seqNum>>
            BY <2>2, NotWriters DEF WriteOrder, TypeInv, HeldInv
        <3> QED BY <3>1, WriteAccounts
    <2>3. CASE ~BuildOrder(o) /\ ~WriteOrder(o)
        BY <1>1, <1>3, <2>3 DEF SubmitIOC, CheckConnected, Register, TakeReport, GiveUp, Deregister,
              session, socket
    <2> QED BY <2>1, <2>2, <2>3
<1>4. CASE ReadLoop
    <2>1. CASE ReadTestRequest
        <3>1. "reader" \in Writers /\ held["reader"] = 0 /\ BuildMessage("reader")
              /\ UNCHANGED <<up, wire>>
            BY <2>1, NotWriters DEF ReadTestRequest, Read, TypeInv, HeldInv, socket
        <3> QED BY <3>1, BuildAccounts
    <2>2. CASE Reply
        <3>1. "reader" \in Writers /\ held["reader"] # 0 /\ WriteMessage("reader")
              /\ UNCHANGED <<up, seqNum>>
            BY <2>2, NotWriters DEF Reply, TypeInv, HeldInv
        <3> QED BY <3>1, WriteAccounts
    <2>3. CASE ~ReadTestRequest /\ ~Reply
        BY <1>1, <1>4, <2>3 DEF ReadLoop, ReadReport, DeliverReport, ReadHeartbeat, ReadLogout,
              ReadFails, session, socket
    <2> QED BY <2>1, <2>2, <2>3
<1>5. CASE HeartbeatLoop
    <2>1. CASE BuildHeartbeat
        <3>1. "heart" \in Writers /\ held["heart"] = 0 /\ BuildMessage("heart")
              /\ UNCHANGED <<up, wire>>
            BY <2>1, NotWriters DEF BuildHeartbeat, TypeInv, HeldInv, socket
        <3> QED BY <3>1, BuildAccounts
    <2>2. CASE WriteHeartbeat
        <3>1. "heart" \in Writers /\ held["heart"] # 0 /\ WriteMessage("heart")
              /\ UNCHANGED <<up, seqNum>>
            BY <2>2, NotWriters DEF WriteHeartbeat, TypeInv, HeldInv
        <3> QED BY <3>1, WriteAccounts
    <2>3. CASE Beat
        BY <1>1, <2>3 DEF Beat, session, socket
    <2> QED BY <1>5, <2>1, <2>2, <2>3 DEF HeartbeatLoop
<1>6. ASSUME NEW o \in Orders, VenueAccepts(o) \/ VenueFills(o) \/ VenueEnds(o)
      PROVE  SequenceAccounted'
    BY <1>1, <1>6 DEF VenueAccepts, VenueFills, VenueEnds, session, socket
<1>7. CASE VenueReads \/ VenueBeats \/ VenueLogsOut \/ HeartbeatAges \/ UNCHANGED vars
    BY <1>1, <1>7 DEF VenueReads, VenueBeats, VenueLogsOut, HeartbeatAges, vars, session, socket
<1>8. CASE Break
    BY <1>2, <1>8 DEF Break
<1> QED BY <1>3, <1>4, <1>5, <1>6, <1>7, <1>8, ConnectAccounts DEF Next

\* The submitting goroutines, the reply to a TestRequest and the heartbeats
\* share one counter and one socket, and lock them one after the other: still,
\* while the connection is open the numbers taken are 1 to seqNum - 1, each on
\* the wire once or held by one goroutine about to write it, for any number of
\* goroutines.
THEOREM SequenceNumbersAccounted == Spec => []SequenceAccounted
<1>1. Init => SequenceAccounted
    BY DEF Init, SequenceAccounted
<1> QED BY <1>1, TypeInit, TypeStep, SequenceStep, PTL DEF Spec

-------------------------------------------------------------------------------
(* Results *)

Statused == [status : {"none", "working", "final"}, executed : Nat]

\* What a report with this status and this cumulated quantity, whenever it is
\* read, says of an order of q lots that is in state v at the venue.
GoodReport(v, q, s, cum) ==
    /\ cum <= v.executed
    /\ s \in {"new", "rejected"} => cum = 0
    /\ s \in {"partial", "filled"} => cum > 0
    /\ s = "cancelled" => v.status = "final" /\ cum = v.executed /\ v.executed < q

GoodResult(v, q, r) ==
    /\ r.qty <= v.executed
    /\ r.filled => r.qty > 0
    /\ ~r.filled /\ r.qty > 0 => v.status = "final" /\ r.qty = v.executed /\ v.executed < q

\* The order may have gone on to w: executions are not undone, and a final
\* order does not change.
Later(v, w) == v.executed <= w.executed /\ (v.status = "final" => w = v)

VenueInv ==
    \A o \in Orders :
        /\ venue[o].status = "none" => venue[o].executed = 0
        /\ venue[o].status # "final" => venue[o].executed < Quantity[o]

\* Everything on its way from the venue to the one who waits is true of the
\* order at the venue, and stays so.
HonestInv ==
    /\ VenueInv
    /\ \A i \in DOMAIN inbound : inbound[i].kind = "report" =>
          GoodReport(venue[inbound[i].order], Quantity[inbound[i].order],
                     inbound[i].status, inbound[i].cum)
    /\ reader = "delivering" =>
          GoodReport(venue[report.order], Quantity[report.order], report.status, report.cum)
    /\ \A o \in Orders : \A i \in DOMAIN ch[o] : GoodResult(venue[o], Quantity[o], ch[o][i])
    /\ \A o \in Orders : GoodResult(venue[o], Quantity[o], result[o])

LEMMA ReportStaysGood ==
    ASSUME NEW v \in Statused, NEW w \in Statused, NEW q \in Nat, NEW s, NEW cum \in Nat,
           GoodReport(v, q, s, cum), Later(v, w)
    PROVE  GoodReport(w, q, s, cum)
BY DEF GoodReport, Later, Statused

LEMMA ResultStaysGood ==
    ASSUME NEW v \in Statused, NEW w \in Statused, NEW q \in Nat, NEW r \in Results,
           GoodResult(v, q, r), Later(v, w)
    PROVE  GoodResult(w, q, r)
BY DEF GoodResult, Later, Statused, Results

LEMMA FillOfGoodReport ==
    ASSUME NEW v \in Statused, NEW q \in Nat, NEW r, r.cum \in Nat, r.status \in Statuses,
           GoodReport(v, q, r.status, r.cum)
    PROVE  Fill(r) \in Results /\ GoodResult(v, q, Fill(r))
<1>1. Fill(r).qty = r.cum /\ Fill(r).filled = (r.status \in {"partial", "filled"} /\ r.cum > 0)
    BY DEF Fill, FilledQty
<1>2. Fill(r) \in Results
    BY DEF Fill, FilledQty, Results
<1>3. r.cum <= v.executed
    BY DEF GoodReport
<1>4. CASE r.status \in {"partial", "filled"}
    <2>1. r.cum > 0 /\ Fill(r).filled
        BY <1>1, <1>4 DEF GoodReport
    <2> QED BY <1>1, <1>2, <1>3, <2>1 DEF GoodResult
<1>5. CASE r.status \in {"new", "rejected"}
    <2>1. Fill(r).qty = 0 /\ ~Fill(r).filled
        BY <1>1, <1>5 DEF GoodReport
    <2> QED BY <1>1, <1>2, <1>3, <2>1 DEF GoodResult
<1>6. CASE r.status = "cancelled"
    <2>1. ~Fill(r).filled /\ v.status = "final" /\ r.cum = v.executed /\ v.executed < q
        BY <1>1, <1>6 DEF GoodReport
    <2> QED BY <1>1, <1>2, <1>3, <2>1 DEF GoodResult
<1> QED BY <1>4, <1>5, <1>6 DEF Statuses

\* The parts of the invariant that a step of the venue or of the network has to
\* preserve, the queue of messages aside.
LEMMA VenueGoesOn ==
    ASSUME TypeInv, TypeInv', HonestInv, UNCHANGED <<submits, reader, report>>,
           \A o \in Orders : Later(venue[o], venue'[o]), VenueInv',
           \A i \in DOMAIN inbound' : inbound'[i].kind = "report" =>
               GoodReport(venue'[inbound'[i].order], Quantity[inbound'[i].order],
                          inbound'[i].status, inbound'[i].cum)
    PROVE  HonestInv'
<1>1. /\ venue \in [Orders -> Statused] /\ venue' \in [Orders -> Statused]
      /\ Quantity \in [Orders -> Nat]
    BY FixAssumption DEF TypeInv, TypeOK, Statused
<1>2. ch' = ch /\ result' = result /\ reader' = reader /\ report' = report
    BY DEF submits
<1>3. ASSUME reader = "delivering"
      PROVE  GoodReport(venue'[report.order], Quantity[report.order], report.status, report.cum)
    <2>1. report.order \in Orders /\ report.cum \in Nat
        BY <1>3 DEF TypeInv, QueueTypes
    <2>2. GoodReport(venue[report.order], Quantity[report.order], report.status, report.cum)
        BY <1>3 DEF HonestInv
    <2> QED BY <1>1, <2>1, <2>2, ReportStaysGood
<1>4. ASSUME NEW o \in Orders
      PROVE  /\ \A i \in DOMAIN ch[o] : GoodResult(venue'[o], Quantity[o], ch[o][i])
             /\ GoodResult(venue'[o], Quantity[o], result[o])
    <2>1. ch[o] \in Seq(Results) /\ result[o] \in Results
        BY DEF TypeInv, TypeOK, Results
    <2>2. \A i \in DOMAIN ch[o] : ch[o][i] \in Results
        BY <2>1
    <2>3. /\ \A i \in DOMAIN ch[o] : GoodResult(venue[o], Quantity[o], ch[o][i])
          /\ GoodResult(venue[o], Quantity[o], result[o])
        BY DEF HonestInv
    <2>4. Later(venue[o], venue'[o]) /\ venue[o] \in Statused /\ venue'[o] \in Statused
          /\ Quantity[o] \in Nat
        BY <1>1
    <2> QED BY <2>1, <2>2, <2>3, <2>4, ResultStaysGood
<1>5. (reader = "delivering" =>
          GoodReport(venue[report.order], Quantity[report.order], report.status, report.cum))'
    BY <1>2, <1>3
<1>6. (\A o \in Orders : \A i \in DOMAIN ch[o] : GoodResult(venue[o], Quantity[o], ch[o][i]))'
    BY <1>2, <1>4
<1>7. (\A o \in Orders : GoodResult(venue[o], Quantity[o], result[o]))'
    BY <1>2, <1>4
<1> QED BY <1>5, <1>6, <1>7 DEF HonestInv

\* Appending a message that is true of the orders keeps the queue true.
LEMMA SaysTruth ==
    ASSUME TypeInv, TypeInv', HonestInv, NEW msg \in Messages, Says(msg),
           \A o \in Orders : Later(venue[o], venue'[o]),
           msg.kind = "report" => GoodReport(venue'[msg.order], Quantity[msg.order], msg.status, msg.cum)
    PROVE  \A i \in DOMAIN inbound' : inbound'[i].kind = "report" =>
               GoodReport(venue'[inbound'[i].order], Quantity[inbound'[i].order],
                          inbound'[i].status, inbound'[i].cum)
<1>1. /\ venue \in [Orders -> Statused] /\ venue' \in [Orders -> Statused]
      /\ Quantity \in [Orders -> Nat] /\ inbound \in Seq(Messages)
    BY FixAssumption DEF TypeInv, TypeOK, QueueTypes, Statused
<1>2. ASSUME NEW i \in DOMAIN inbound, inbound[i].kind = "report"
      PROVE  GoodReport(venue'[inbound[i].order], Quantity[inbound[i].order],
                        inbound[i].status, inbound[i].cum)
    <2>1. inbound[i] \in Messages
        BY <1>1
    <2>2. inbound[i].order \in Orders /\ inbound[i].cum \in Nat
        BY <1>2, <2>1, MessageFields
    <2>3. GoodReport(venue[inbound[i].order], Quantity[inbound[i].order],
                     inbound[i].status, inbound[i].cum)
        BY <1>2 DEF HonestInv
    <2> QED BY <1>1, <2>2, <2>3, ReportStaysGood
<1>3. CASE inbound' = inbound
    BY <1>2, <1>3
<1>4. CASE inbound' = Append(inbound, msg)
    <2>1. ASSUME NEW i \in DOMAIN inbound'
          PROVE  (i \in DOMAIN inbound /\ inbound'[i] = inbound[i]) \/ inbound'[i] = msg
        BY <1>1, <1>4
    <2> QED BY <1>2, <2>1
<1> QED BY <1>3, <1>4 DEF Says

LEMMA VenueStaysHonest ==
    ASSUME TypeInv, TypeInv', HonestInv, NEW o \in Orders,
           VenueAccepts(o) \/ VenueFills(o) \/ VenueEnds(o)
    PROVE  HonestInv'
<1>1. /\ venue \in [Orders -> Statused] /\ venue' \in [Orders -> Statused]
      /\ Quantity \in [Orders -> Nat \ {0}]
    BY FixAssumption DEF TypeInv, TypeOK, Statused
<1>2. PICK s \in {"working", "final"}, n \in Nat :
          /\ venue[o].status # "final" /\ venue[o].executed <= n
          /\ s # "final" => n < Quantity[o]
          /\ venue' = [venue EXCEPT ![o] = [status |-> s, executed |-> n]]
          /\ \/ UNCHANGED inbound
             \/ \E r \in Statuses, c \in Nat :
                   GoodReport([status |-> s, executed |-> n], Quantity[o], r, c)
                     /\ Says(Report(o, r, c))
    <2>0. venue[o].executed \in Nat /\ Quantity[o] \in Nat \ {0}
          /\ (venue[o].status # "final" => venue[o].executed < Quantity[o])
        BY <1>1 DEF HonestInv, VenueInv, Statused
    <2>1. CASE VenueAccepts(o)
        <3>1. [venue[o] EXCEPT !.status = "working"] = [status |-> "working", executed |-> venue[o].executed]
            BY <1>1 DEF Statused
        <3>2. venue' = [venue EXCEPT ![o] = [status |-> "working", executed |-> venue[o].executed]]
            BY <2>1, <3>1 DEF VenueAccepts
        <3>3. GoodReport([status |-> "working", executed |-> venue[o].executed], Quantity[o], "new", 0)
            BY <2>0 DEF GoodReport
        <3>4. \/ UNCHANGED inbound
              \/ \E r \in Statuses, c \in Nat :
                    GoodReport([status |-> "working", executed |-> venue[o].executed], Quantity[o], r, c)
                      /\ Says(Report(o, r, c))
            BY <2>1, <3>3 DEF VenueAccepts, Statuses
        <3>5. venue[o].status = "none" /\ "working" \in {"working", "final"}
            BY <2>1 DEF VenueAccepts
        <3>6. venue[o].status # "final" /\ venue[o].executed <= venue[o].executed
              /\ ("working" # "final" => venue[o].executed < Quantity[o])
            BY <2>0, <3>5
        <3> QED BY <2>0, <3>2, <3>4, <3>5, <3>6
    <2>2. CASE VenueFills(o)
        <3>1. PICK total \in (venue[o].executed + 1)..Quantity[o] :
                 /\ venue' = [venue EXCEPT ![o] =
                        [status |-> IF total = Quantity[o] THEN "final" ELSE "working",
                         executed |-> total]]
                 /\ Says(Report(o, IF total = Quantity[o] THEN "filled" ELSE "partial", total))
            BY <2>2 DEF VenueFills
        <3>2. total \in Nat /\ total > 0 /\ total <= Quantity[o] /\ venue[o].executed <= total
              /\ venue[o].status # "final"
            BY <2>0, <2>2 DEF VenueFills
        <3>3. CASE total = Quantity[o]
            <4>1. GoodReport([status |-> "final", executed |-> total], Quantity[o], "filled", total)
                BY <3>2 DEF GoodReport
            <4> QED BY <3>1, <3>2, <3>3, <4>1 DEF Statuses
        <3>4. CASE total # Quantity[o]
            <4>1. GoodReport([status |-> "working", executed |-> total], Quantity[o], "partial", total)
                BY <3>2 DEF GoodReport
            <4>2. venue' = [venue EXCEPT ![o] = [status |-> "working", executed |-> total]]
                  /\ Says(Report(o, "partial", total))
                BY <3>1, <3>4
            <4>3. \E r \in Statuses, c \in Nat :
                    GoodReport([status |-> "working", executed |-> total], Quantity[o], r, c)
                      /\ Says(Report(o, r, c))
                BY <3>2, <4>1, <4>2 DEF Statuses
            <4>4. "working" # "final" => total < Quantity[o]
                BY <2>0, <3>2, <3>4
            <4>5. "working" \in {"working", "final"}
                OBVIOUS
            <4> QED BY <3>2, <4>2, <4>3, <4>4, <4>5
        <3> QED BY <3>3, <3>4
    <2>3. CASE VenueEnds(o)
        <3>1. [venue[o] EXCEPT !.status = "final"] = [status |-> "final", executed |-> venue[o].executed]
            BY <1>1 DEF Statused
        <3>2. venue' = [venue EXCEPT ![o] = [status |-> "final", executed |-> venue[o].executed]]
            BY <2>3, <3>1 DEF VenueEnds
        <3>3. venue[o].status # "final" /\ venue[o].executed < Quantity[o]
            BY <2>0, <2>3 DEF VenueEnds
        <3>4. GoodReport([status |-> "final", executed |-> venue[o].executed], Quantity[o],
                         "cancelled", venue[o].executed)
            BY <2>0, <3>3 DEF GoodReport
        <3>5. GoodReport([status |-> "final", executed |-> venue[o].executed], Quantity[o], "rejected", 0)
            BY <2>0 DEF GoodReport
        <3>6. \E r \in Statuses, c \in Nat :
                    GoodReport([status |-> "final", executed |-> venue[o].executed], Quantity[o], r, c)
                      /\ Says(Report(o, r, c))
            BY <2>0, <2>3, <3>4, <3>5 DEF VenueEnds, Statuses
        <3>7. "final" \in {"working", "final"} /\ venue[o].executed <= venue[o].executed
            BY <2>0
        <3> QED BY <2>0, <3>2, <3>3, <3>6, <3>7
    <2> QED BY <2>1, <2>2, <2>3
<1>3. venue'[o] = [status |-> s, executed |-> n] /\ \A p \in Orders \ {o} : venue'[p] = venue[p]
    BY <1>1, <1>2
<1>4. \A p \in Orders : Later(venue[p], venue'[p])
    BY <1>1, <1>2, <1>3 DEF Later, Statused
<1>5. VenueInv'
    BY <1>2, <1>3 DEF HonestInv, VenueInv
<1>6. \A i \in DOMAIN inbound' : inbound'[i].kind = "report" =>
          GoodReport(venue'[inbound'[i].order], Quantity[inbound'[i].order],
                     inbound'[i].status, inbound'[i].cum)
    <2>1. CASE UNCHANGED inbound
        <3>1. ASSUME NEW i \in DOMAIN inbound, inbound[i].kind = "report"
              PROVE  GoodReport(venue'[inbound[i].order], Quantity[inbound[i].order],
                                inbound[i].status, inbound[i].cum)
            <4>1. inbound[i] \in Messages
                BY DEF TypeInv, QueueTypes
            <4>2. inbound[i].order \in Orders /\ inbound[i].cum \in Nat
                BY <3>1, <4>1, MessageFields
            <4>3. GoodReport(venue[inbound[i].order], Quantity[inbound[i].order],
                             inbound[i].status, inbound[i].cum)
                BY <3>1 DEF HonestInv
            <4> QED BY <1>1, <1>4, <4>2, <4>3, ReportStaysGood
        <3> QED BY <2>1, <3>1
    <2>2. ASSUME NEW r \in Statuses, NEW c \in Nat, Says(Report(o, r, c)),
                 GoodReport([status |-> s, executed |-> n], Quantity[o], r, c)
          PROVE  \A i \in DOMAIN inbound' : inbound'[i].kind = "report" =>
                    GoodReport(venue'[inbound'[i].order], Quantity[inbound'[i].order],
                               inbound'[i].status, inbound'[i].cum)
        <3>1. /\ Report(o, r, c) \in Messages /\ Report(o, r, c).order = o
              /\ Report(o, r, c).status = r /\ Report(o, r, c).cum = c
            BY ReportIsMessage
        <3>2. GoodReport(venue'[Report(o, r, c).order], Quantity[Report(o, r, c).order],
                         Report(o, r, c).status, Report(o, r, c).cum)
            BY <1>3, <2>2, <3>1
        <3> QED BY <1>4, <2>2, <3>1, <3>2, SaysTruth
    <2> QED BY <1>2, <2>1, <2>2
<1>7. UNCHANGED <<submits, reader, report>>
    BY DEF VenueAccepts, VenueFills, VenueEnds, loops
<1> QED BY <1>4, <1>5, <1>6, <1>7, VenueGoesOn

\* A step that leaves the venue and what is on its way alone, or takes the head
\* of the queue away.
LEMMA QueueStaysHonest ==
    ASSUME TypeInv, HonestInv, UNCHANGED venue,
           UNCHANGED inbound \/ (\E k : Read(k)) \/ inbound' = <<>>
    PROVE  /\ VenueInv'
           /\ (\A i \in DOMAIN inbound : inbound[i].kind = "report" =>
                  GoodReport(venue[inbound[i].order], Quantity[inbound[i].order],
                             inbound[i].status, inbound[i].cum))'
<1>1. VenueInv'
    BY DEF HonestInv, VenueInv
<1>2. \A i \in DOMAIN inbound : inbound[i].kind = "report" =>
          GoodReport(venue[inbound[i].order], Quantity[inbound[i].order],
                     inbound[i].status, inbound[i].cum)
    BY DEF HonestInv
<1>3. \A i \in DOMAIN inbound' : \E j \in DOMAIN inbound : inbound'[i] = inbound[j]
    <2>1. ASSUME NEW k, Read(k) PROVE \A i \in DOMAIN inbound' : \E j \in DOMAIN inbound : inbound'[i] = inbound[j]
        <3>1. inbound \in Seq(Messages)
            BY DEF TypeInv, QueueTypes
        <3> QED BY <2>1, <3>1, ReadKeeps
    <2>2. CASE inbound' = <<>>
        BY <2>2
    <2> QED BY <2>1, <2>2
<1> QED BY <1>1, <1>2, <1>3

LEMMA HonestStep == TypeInv /\ TypeInv' /\ HonestInv /\ [Next]_vars => HonestInv'
<1> SUFFICES ASSUME TypeInv, TypeInv', HonestInv, [Next]_vars PROVE HonestInv'
    OBVIOUS
<1>0. /\ venue \in [Orders -> Statused] /\ Quantity \in [Orders -> Nat]
      /\ inbound \in Seq(Messages)
      /\ ch \in [Orders -> Seq(Results)] /\ result \in [Orders -> Results]
    BY FixAssumption DEF TypeInv, TypeOK, QueueTypes, Statused, Results
<1>1. ASSUME UNCHANGED <<venue, ch, result, reader, report>>,
             UNCHANGED inbound \/ (\E k : Read(k)) \/ inbound' = <<>>
      PROVE  HonestInv'
    <2>1. UNCHANGED venue /\ (UNCHANGED inbound \/ (\E k : Read(k)) \/ inbound' = <<>>)
        BY <1>1
    <2> QED BY <1>1, <2>1, QueueStaysHonest DEF HonestInv
<1>2. ASSUME UNCHANGED <<venue, ch, result>>, reader' # "delivering",
             UNCHANGED inbound \/ (\E k : Read(k)) \/ inbound' = <<>>
      PROVE  HonestInv'
    <2>1. UNCHANGED venue /\ (UNCHANGED inbound \/ (\E k : Read(k)) \/ inbound' = <<>>)
        BY <1>2
    <2> QED BY <1>2, <2>1, QueueStaysHonest DEF HonestInv
<1>3. ASSUME NEW o \in Orders, TakeReport(o) PROVE HonestInv'
    <2>1. UNCHANGED <<venue, inbound, reader, report>>
        BY <1>3 DEF TakeReport, loops
    <2>2. ch[o] # <<>> /\ ch' = [ch EXCEPT ![o] = Tail(ch[o])]
          /\ result' = [result EXCEPT ![o] = Head(ch[o])]
        BY <1>3 DEF TakeReport
    <2>3. 1 \in DOMAIN ch[o] /\ Head(ch[o]) = ch[o][1]
        BY <1>0, <2>2
    <2>4. \A p \in Orders : result'[p] = result[p] \/ (p = o /\ result'[p] = ch[p][1])
        BY <1>0, <2>2, <2>3
    <2>5. (\A p \in Orders : GoodResult(venue[p], Quantity[p], result[p]))'
        BY <2>1, <2>3, <2>4 DEF HonestInv
    <2>6. ASSUME NEW p \in Orders, NEW i \in DOMAIN ch'[p]
          PROVE  \E j \in DOMAIN ch[p] : ch'[p][i] = ch[p][j]
        <3>1. CASE p = o
            <4>1. ch'[p] = Tail(ch[o]) /\ ch[o] \in Seq(Results)
                BY <1>0, <2>2, <3>1
            <4>2. i + 1 \in DOMAIN ch[o] /\ Tail(ch[o])[i] = ch[o][i + 1]
                <5>1. i \in DOMAIN Tail(ch[o])
                    BY <2>6, <4>1
                <5> QED BY <2>2, <4>1, <5>1, HeadTailProperties
            <4> QED BY <3>1, <4>1, <4>2
        <3>2. CASE p # o
            BY <1>0, <2>2, <2>6, <3>2
        <3> QED BY <3>1, <3>2
    <2>7. (\A p \in Orders : \A i \in DOMAIN ch[p] : GoodResult(venue[p], Quantity[p], ch[p][i]))'
        BY <2>1, <2>6 DEF HonestInv
    <2> QED BY <2>1, <2>5, <2>7 DEF HonestInv, VenueInv
<1>4. ASSUME NEW o \in Orders, SubmitIOC(o) PROVE HonestInv'
    BY <1>1, <1>3, <1>4 DEF SubmitIOC, CheckConnected, Register, BuildOrder, WriteOrder, GiveUp,
          Deregister, loops
<1>5. CASE ReadReport
    <2>1. Read("report") /\ UNCHANGED <<venue, ch, result>>
        BY <1>5 DEF ReadReport, submits
    <2>2. 1 \in DOMAIN inbound /\ Head(inbound) = inbound[1] /\ inbound[1].kind = "report"
        BY <1>0, <2>1, ReadKeeps
    <2>3. GoodReport(venue[inbound[1].order], Quantity[inbound[1].order],
                     inbound[1].status, inbound[1].cum)
        BY <2>2 DEF HonestInv
    <2>4. \/ UNCHANGED <<reader, report>>
          \/ /\ report'.order = inbound[1].order /\ report'.status = inbound[1].status
             /\ report'.cum = inbound[1].cum
        BY <1>5, <2>2 DEF ReadReport
    <2>5. (reader = "delivering" =>
            GoodReport(venue[report.order], Quantity[report.order], report.status, report.cum))'
        BY <2>1, <2>3, <2>4 DEF HonestInv
    <2>6. UNCHANGED venue /\ (UNCHANGED inbound \/ (\E k : Read(k)) \/ inbound' = <<>>)
        BY <2>1
    <2> QED BY <2>1, <2>5, <2>6, QueueStaysHonest DEF HonestInv
<1>6. CASE DeliverReport
    <2>1. UNCHANGED <<venue, inbound, result>> /\ reader' # "delivering"
        BY <1>6 DEF DeliverReport
    <2>2. /\ report.order \in Orders /\ report.status \in Statuses /\ report.cum \in Nat
          /\ GoodReport(venue[report.order], Quantity[report.order], report.status, report.cum)
        BY <1>6 DEF DeliverReport, TypeInv, QueueTypes, HonestInv
    <2>3. GoodResult(venue[report.order], Quantity[report.order], Fill(report))
        BY <1>0, <2>2, FillOfGoodReport
    <2>4. ch' = ch \/ ch' = [ch EXCEPT ![report.order] = <<Fill(report)>>]
        BY <1>6 DEF DeliverReport, Deliver
    <2>5. (\A p \in Orders : \A i \in DOMAIN ch[p] : GoodResult(venue[p], Quantity[p], ch[p][i]))'
        <3>1. CASE ch' = ch
            BY <2>1, <3>1 DEF HonestInv
        <3>2. CASE ch' = [ch EXCEPT ![report.order] = <<Fill(report)>>]
            <4>1. ASSUME NEW p \in Orders, NEW i \in DOMAIN ch'[p]
                  PROVE  GoodResult(venue[p], Quantity[p], ch'[p][i])
                <5>1. CASE p = report.order
                    <6>1. ch'[p] = <<Fill(report)>>
                        BY <1>0, <3>2, <5>1
                    <6>2. ch'[p][i] = Fill(report)
                        BY <4>1, <6>1
                    <6> QED BY <2>3, <5>1, <6>2
                <5>2. CASE p # report.order
                    <6>1. ch'[p] = ch[p]
                        BY <1>0, <3>2, <5>2
                    <6> QED BY <4>1, <6>1 DEF HonestInv
                <5> QED BY <5>1, <5>2
            <4> QED BY <2>1, <4>1
        <3> QED BY <2>4, <3>1, <3>2
    <2> QED BY <2>1, <2>5 DEF HonestInv, VenueInv
<1>7. CASE ReadLoop
    <2>1. CASE ReadTestRequest
        BY <1>2, <2>1 DEF ReadTestRequest, submits
    <2>2. CASE Reply
        BY <1>2, <2>2 DEF Reply, submits
    <2>3. CASE ReadHeartbeat
        BY <1>1, <2>3 DEF ReadHeartbeat, submits
    <2>4. CASE ReadLogout
        BY <1>2, <2>4 DEF ReadLogout, submits
    <2>5. CASE ReadFails
        BY <1>2, <2>5 DEF ReadFails, submits
    <2> QED BY <1>5, <1>6, <1>7, <2>1, <2>2, <2>3, <2>4, <2>5 DEF ReadLoop
<1>8. CASE HeartbeatLoop
    BY <1>1, <1>8 DEF HeartbeatLoop, Beat, BuildHeartbeat, WriteHeartbeat, submits
<1>9. CASE Connect
    BY <1>2, <1>9 DEF Connect, submits
<1>10. CASE VenueReads \/ HeartbeatAges \/ Break \/ UNCHANGED vars
    BY <1>1, <1>10 DEF VenueReads, HeartbeatAges, Break, vars, submits, loops
<1>11. ASSUME NEW k \in {"testRequest", "heartbeat", "logout"}, Says([kind |-> k]),
              UNCHANGED <<submits, reader, report, venue>>
       PROVE  HonestInv'
    <2>1. [kind |-> k] \in Messages /\ [kind |-> k].kind # "report"
        BY OtherIsMessage
    <2>2. \A o \in Orders : Later(venue[o], venue'[o])
        BY <1>0, <1>11 DEF Later, Statused
    <2>3. \A i \in DOMAIN inbound' : inbound'[i].kind = "report" =>
               GoodReport(venue'[inbound'[i].order], Quantity[inbound'[i].order],
                          inbound'[i].status, inbound'[i].cum)
        BY <1>11, <2>1, <2>2, SaysTruth
    <2>4. VenueInv'
        BY <1>11 DEF HonestInv, VenueInv
    <2>5. UNCHANGED <<submits, reader, report>>
        BY <1>11
    <2> QED BY <2>2, <2>3, <2>4, <2>5, VenueGoesOn
<1>12. CASE VenueBeats \/ VenueLogsOut
    BY <1>11, <1>12 DEF VenueBeats, VenueLogsOut, loops
<1>13. ASSUME NEW o \in Orders, VenueAccepts(o) \/ VenueFills(o) \/ VenueEnds(o)
       PROVE  HonestInv'
    BY <1>13, VenueStaysHonest
<1> QED BY <1>4, <1>7, <1>8, <1>9, <1>10, <1>12, <1>13 DEF Next

\* Whatever the venue executes, reports or leaves out, however late SubmitIOC
\* gives up and however often a report is repeated, the result it returns never
\* claims more than the venue executed, a fill has a quantity, and a quantity
\* not flagged as filled is the whole of what was executed of an order cut
\* short.
THEOREM ResultsMatchVenue == Spec => []ResultMatchesVenue
<1>1. Init => HonestInv
    BY FixAssumption DEF Init, HonestInv, VenueInv, GoodResult, NoResult
<1>2. HonestInv => ResultMatchesVenue
    BY DEF HonestInv, GoodResult, ResultMatchesVenue
<1> QED BY <1>1, <1>2, TypeInit, TypeStep, HonestStep, PTL DEF Spec

-------------------------------------------------------------------------------
(* The contract of the execution engine *)

Contract == INSTANCE AdapterContract WITH AnswerKinds <- {"exact", "early", "unflagged"}

\* What the venue may have executed of an order when it is through with it.
FinalTotals(o) ==
    IF venue[o].status = "final" THEN {venue[o].executed} ELSE venue[o].executed..Quantity[o]

\* What the engine reads of the result of SubmitIOC.
AnswerOf(o) == [filled |-> result[o].filled, reported |-> result[o].qty]

FixMeetsContract ==
    \A o \in Orders : \A total \in FinalTotals(o) :
        AnswerOf(o) \in Contract!Answers(Quantity[o], total)

LEMMA GoodResultIsAnswer ==
    ASSUME NEW v \in Statused, NEW q \in Nat, NEW r \in Results, GoodResult(v, q, r),
           NEW total \in Nat, v.executed <= total, v.status = "final" => total = v.executed
    PROVE  [filled |-> r.filled, reported |-> r.qty] \in Contract!Answers(q, total)
<1>1. r.qty \in 0..total /\ r.filled \in BOOLEAN
  BY DEF GoodResult, Results, Statused
<1>2. CASE r.filled = (r.qty > 0)
  <2>1. [filled |-> r.filled, reported |-> r.qty] = Contract!Flagged(r.qty)
    BY <1>2 DEF Contract!Flagged
  <2>2. Contract!EarlyAnswers(total) = {Contract!Flagged(n) : n \in 0..total}
    BY DEF Contract!EarlyAnswers
  <2>3. Contract!Flagged(r.qty) \in Contract!EarlyAnswers(total)
    BY <1>1, <2>2
  <2> QED
    BY <2>1, <2>3 DEF Contract!Answers
<1>3. CASE r.filled # (r.qty > 0)
  <2>1. ~r.filled /\ r.qty > 0
    BY <1>1, <1>3 DEF GoodResult
  <2>2. r.qty = total /\ 0 < total /\ total < q
    BY <2>1 DEF GoodResult, Statused
  <2>3. r.filled = FALSE
    BY <1>1, <2>1
  <2>4. [filled |-> r.filled, reported |-> r.qty] = [filled |-> FALSE, reported |-> total]
    BY <2>2, <2>3
  <2>5. [filled |-> FALSE, reported |-> total] \in Contract!UnflaggedAnswers(q, total)
    BY <2>2 DEF Contract!UnflaggedAnswers
  <2> QED
    BY <2>4, <2>5 DEF Contract!Answers
<1> QED
  BY <1>2, <1>3

\* Whatever SubmitIOC of the FIX adapter returns is an answer that the contract
\* the execution engine is modelled over allows, for whatever the venue goes on
\* to execute of the order: the engine's assumption on its adapters is met here
\* as it is by the adapters without a session.
THEOREM ContractMet == Spec => []FixMeetsContract
<1>1. TypeInv /\ HonestInv => FixMeetsContract
  <2> SUFFICES ASSUME TypeInv, HonestInv, NEW o \in Orders, NEW total \in FinalTotals(o)
               PROVE  AnswerOf(o) \in Contract!Answers(Quantity[o], total)
    BY DEF FixMeetsContract
  <2>1. venue[o] \in Statused /\ result[o] \in Results /\ Quantity[o] \in Nat
    BY FixAssumption DEF TypeInv, TypeOK, Statused, Results
  <2>2. venue[o].executed \in Nat /\ venue[o].executed <= Quantity[o]
    BY <2>1 DEF TypeInv, TypeOK, Statused
  <2>3. /\ total \in Nat /\ venue[o].executed <= total
        /\ venue[o].status = "final" => total = venue[o].executed
    BY <2>1, <2>2 DEF FinalTotals
  <2>4. GoodResult(venue[o], Quantity[o], result[o])
    BY DEF HonestInv
  <2> QED
    BY <2>1, <2>3, <2>4, GoodResultIsAnswer DEF AnswerOf
<1>2. Init => HonestInv
  BY FixAssumption DEF Init, HonestInv, VenueInv, GoodResult, NoResult
<1> QED
  BY <1>1, <1>2, TypeInit, TypeStep, HonestStep, PTL DEF Spec

===============================================================================
