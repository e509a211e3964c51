--------------------------- MODULE EventStreamProofs ---------------------------
(***************************************************************************)
(* Proofs about the path of execution events: the types of its state, that *)
(* no fan-out ever sends on a closed channel, and that the cursor of the   *)
(* consumer passes nothing that is not in the database, for any events,    *)
(* clients, capacities, batches and restarts.                              *)
(***************************************************************************)
EXTENDS EventStream, SequenceTheorems, TLAPS

-------------------------------------------------------------------------------
(* Sequences *)

\* Removing an entry keeps the others and adds nothing.
LEMMA RemoveAtKeeps ==
    ASSUME NEW S, NEW s \in Seq(S), NEW k \in DOMAIN s
    PROVE  /\ RemoveAt(s, k) \in Seq(S)
           /\ Len(RemoveAt(s, k)) = Len(s) - 1
           /\ \A i \in DOMAIN RemoveAt(s, k) :
                 RemoveAt(s, k)[i] = IF i < k THEN s[i] ELSE s[i + 1]
<1> DEFINE front == SubSeq(s, 1, k - 1)
           back  == SubSeq(s, k + 1, Len(s))
<1>1. k \in Nat /\ 1 <= k /\ k <= Len(s) /\ Len(s) \in Nat
      /\ \A i \in 1..Len(s) : s[i] \in S
    OBVIOUS
<1>2. /\ front \in Seq(S) /\ Len(front) = k - 1
      /\ \A i \in 1..(k - 1) : front[i] = s[i]
    <2>1. \A i \in 1..(k - 1) : s[i] \in S
        BY <1>1
    <2>2. 1 \in Int /\ k - 1 \in Int
        BY <1>1
    <2> QED BY <1>1, <2>1, <2>2, SubSeqProperties
<1>3. /\ back \in Seq(S) /\ Len(back) = Len(s) - k
      /\ \A i \in 1..(Len(s) - k) : back[i] = s[k + i]
    <2>1. \A i \in (k + 1)..Len(s) : s[i] \in S
        BY <1>1
    <2>2. k + 1 \in Int /\ Len(s) \in Int
        BY <1>1
    <2> QED BY <1>1, <2>1, <2>2, SubSeqProperties
<1>4. RemoveAt(s, k) = front \o back
    BY DEF RemoveAt
<1> HIDE DEF front, back
<1>5. /\ RemoveAt(s, k) \in Seq(S) /\ Len(RemoveAt(s, k)) = Len(s) - 1
      /\ \A i \in 1..(Len(s) - 1) :
            RemoveAt(s, k)[i] = IF i <= k - 1 THEN front[i] ELSE back[i - (k - 1)]
    <2>1. /\ front \o back \in Seq(S) /\ Len(front \o back) = Len(front) + Len(back)
          /\ \A i \in 1..(Len(front) + Len(back)) :
                (front \o back)[i] = IF i <= Len(front) THEN front[i] ELSE back[i - Len(front)]
        BY <1>2, <1>3, ConcatProperties
    <2>2. Len(front) + Len(back) = Len(s) - 1
        BY <1>1, <1>2, <1>3
    <2>3. Len(front) = k - 1
        BY <1>2
    <2> QED BY <1>4, <2>1, <2>2, <2>3
<1>6. ASSUME NEW i \in 1..(Len(s) - 1)
      PROVE  RemoveAt(s, k)[i] = IF i < k THEN s[i] ELSE s[i + 1]
    <2>1. CASE i < k
        BY <1>1, <1>2, <1>5, <2>1
    <2>2. CASE i >= k
        <3>1. i - (k - 1) \in 1..(Len(s) - k) /\ k + (i - (k - 1)) = i + 1
            BY <1>1, <2>2
        <3>2. back[i - (k - 1)] = s[i + 1]
            BY <1>3, <3>1
        <3> QED BY <1>1, <1>5, <2>2, <3>2
    <2> QED BY <1>1, <2>1, <2>2
<1> QED BY <1>1, <1>5, <1>6

LEMMA ToSetConcat ==
    ASSUME NEW S, NEW s \in Seq(S), NEW t \in Seq(S)
    PROVE  s \o t \in Seq(S) /\ ToSet(s \o t) = ToSet(s) \union ToSet(t)
<1>1. /\ s \o t \in Seq(S) /\ Len(s \o t) = Len(s) + Len(t)
      /\ Len(s) \in Nat /\ Len(t) \in Nat
      /\ \A i \in 1..(Len(s) + Len(t)) : (s \o t)[i] = IF i <= Len(s) THEN s[i] ELSE t[i - Len(s)]
    BY ConcatProperties, LenProperties
<1>2. DOMAIN (s \o t) = 1..(Len(s) + Len(t)) /\ DOMAIN s = 1..Len(s) /\ DOMAIN t = 1..Len(t)
    BY <1>1, LenProperties
<1>3. ASSUME NEW i \in DOMAIN s PROVE i \in DOMAIN (s \o t) /\ (s \o t)[i] = s[i]
    BY <1>1, <1>2
<1>4. ASSUME NEW i \in DOMAIN t
      PROVE  Len(s) + i \in DOMAIN (s \o t) /\ (s \o t)[Len(s) + i] = t[i]
    BY <1>1, <1>2
<1>5. ASSUME NEW i \in DOMAIN (s \o t), i > Len(s)
      PROVE  i - Len(s) \in DOMAIN t /\ (s \o t)[i] = t[i - Len(s)]
    BY <1>1, <1>2, <1>5
<1>6. ASSUME NEW i \in DOMAIN (s \o t), ~(i > Len(s))
      PROVE  i \in DOMAIN s /\ (s \o t)[i] = s[i]
    BY <1>1, <1>2, <1>6
<1>7. \A i \in DOMAIN (s \o t) : (s \o t)[i] \in ToSet(s) \union ToSet(t)
    BY <1>5, <1>6 DEF ToSet
<1>8. \A i \in DOMAIN s : s[i] \in ToSet(s \o t)
    <2>1. ASSUME NEW i \in DOMAIN s PROVE \E j \in DOMAIN (s \o t) : (s \o t)[j] = s[i]
        BY <1>3
    <2> QED BY <2>1 DEF ToSet
<1>9. \A i \in DOMAIN t : t[i] \in ToSet(s \o t)
    <2>1. ASSUME NEW i \in DOMAIN t PROVE \E j \in DOMAIN (s \o t) : (s \o t)[j] = t[i]
        BY <1>4
    <2> QED BY <2>1 DEF ToSet
<1>10. ToSet(s \o t) \subseteq ToSet(s) \union ToSet(t)
    BY <1>7 DEF ToSet
<1>11. ToSet(s) \union ToSet(t) \subseteq ToSet(s \o t)
    BY <1>8, <1>9 DEF ToSet
<1> QED BY <1>1, <1>10, <1>11

-------------------------------------------------------------------------------
(* Types *)

\* The half of the types that publishers and clients touch, and the other one.
FanOutTypes ==
    /\ pub \in [Events -> {"idle", "fanOut", "append", "returned"}]
    /\ sendTo \in [Events -> Seq(Clients)]
    /\ client \in [Clients -> {"away", "connected", "leaving", "gone"}]
    /\ executionSubs \in Seq(Clients)
    /\ chan \in [Clients -> Seq(Events)]
    /\ \A c \in Clients : Len(chan[c]) <= SubCap
    /\ closed \in [Clients -> BOOLEAN]
    /\ shown \in [Clients -> Seq(Events)]

StoreTypes ==
    /\ stream \in Seq(Events) /\ trimmed \in 0..Len(stream)
    /\ consumer \in {"ticking", "flushing", "reading", "inserting", "stopped", "down"}
    /\ toRead \subseteq Streams /\ reading \in Streams
    /\ cursor \in 0..Len(stream)
    /\ batch \in Seq(1..Len(stream))
    /\ failCount \in 0..MaxFails
    /\ table \in Seq(1..Len(stream))
    /\ starts \in 1..MaxStarts

\* There is something to insert whenever the consumer inserts.
BatchFilled == consumer = "inserting" => batch # <<>>

TypeInv == FanOutTypes /\ StoreTypes /\ BatchFilled

\* The last entry of a batch read now.
UnreadEnd ==
    IF Len(stream) < FirstUnread + BatchSize - 1
    THEN Len(stream) ELSE FirstUnread + BatchSize - 1

\* A batch is the run of entries from the first unread one to UnreadEnd.
LEMMA UnreadProperties ==
    ASSUME StoreTypes, Unread # <<>>
    PROVE  /\ Unread \in Seq(1..Len(stream)) /\ Len(Unread) \in Nat \ {0}
           /\ Last(Unread) = UnreadEnd /\ UnreadEnd \in Int
           /\ ToSet(Unread) = FirstUnread..Last(Unread)
<1> DEFINE last == UnreadEnd
           n == last - FirstUnread + 1
<1>1. /\ FirstUnread \in Nat \ {0} /\ Len(stream) \in Nat /\ BatchSize \in Nat \ {0}
    BY StreamAssumption DEF StoreTypes, FirstUnread
<1>2. last \in Int /\ last <= Len(stream) /\ n \in Int
    BY <1>1 DEF UnreadEnd
<1>3. Unread = [i \in 1..n |-> FirstUnread + i - 1]
    BY DEF Unread, UnreadEnd
<1> HIDE DEF last
<1>4. n >= 1
    <2>1. ASSUME ~(n >= 1) PROVE FALSE
        <3>1. 1..n = {}
            BY <1>2, <2>1
        <3>2. Unread = [i \in {} |-> FirstUnread + i - 1]
            BY <1>3, <3>1
        <3>3. Unread = <<>>
            BY <3>2
        <3> QED BY <3>3
    <2> QED BY <2>1
<1>5. \A i \in 1..n : FirstUnread + i - 1 \in 1..Len(stream)
    BY <1>1, <1>2
<1>6. Unread \in Seq(1..Len(stream)) /\ Len(Unread) = n /\ DOMAIN Unread = 1..n
    <2>1. n \in Nat
        BY <1>2, <1>4
    <2> QED BY <1>3, <1>5, <2>1, IsASeq
<1>7. Last(Unread) = last
    BY <1>1, <1>2, <1>3, <1>4, <1>6 DEF Last
<1>8. ASSUME NEW id \in FirstUnread..last PROVE id \in ToSet(Unread)
    <2>1. id - FirstUnread + 1 \in 1..n
        BY <1>1, <1>2
    <2>2. Unread[id - FirstUnread + 1] = id
        BY <1>1, <1>2, <1>3, <2>1
    <2> QED BY <1>6, <2>1, <2>2 DEF ToSet
<1>9. ASSUME NEW i \in 1..n PROVE Unread[i] \in FirstUnread..last
    BY <1>1, <1>2, <1>3
<1>10. ToSet(Unread) = FirstUnread..last
    BY <1>6, <1>8, <1>9 DEF ToSet
<1> QED BY <1>2, <1>4, <1>6, <1>7, <1>10 DEF last

LEMMA TypeInit == Init => TypeInv
<1> SUFFICES ASSUME Init PROVE TypeInv
    OBVIOUS
<1>1. FanOutTypes
    <2>1. /\ executionSubs \in Seq(Clients) /\ chan \in [Clients -> Seq(Events)]
          /\ shown \in [Clients -> Seq(Events)] /\ sendTo \in [Events -> Seq(Clients)]
          /\ \A c \in Clients : Len(chan[c]) <= SubCap
        BY EmptySeq, StreamAssumption DEF Init
    <2>2. /\ pub \in [Events -> {"idle", "fanOut", "append", "returned"}]
          /\ client \in [Clients -> {"away", "connected", "leaving", "gone"}]
          /\ closed \in [Clients -> BOOLEAN]
        BY DEF Init
    <2> QED BY <2>1, <2>2 DEF FanOutTypes
<1>2. StoreTypes
    <2>1. Len(stream) = 0 /\ stream \in Seq(Events) /\ batch \in Seq(1..Len(stream))
          /\ table \in Seq(1..Len(stream))
        BY EmptySeq DEF Init
    <2> QED BY <2>1, StreamAssumption DEF Init, StoreTypes, Streams
<1>3. BatchFilled
    BY DEF Init, BatchFilled
<1> QED BY <1>1, <1>2, <1>3 DEF TypeInv

\* A step of the fan-out or of a client keeps its half of the types.
LEMMA PublishKeepsTypes ==
    ASSUME FanOutTypes, NEW e \in Events, StartFanOut(e) \/ SendNext(e) \/ EndFanOut(e)
    PROVE  FanOutTypes'
<1>1. CASE StartFanOut(e)
    BY <1>1 DEF FanOutTypes, StartFanOut, clientVars
<1>2. CASE EndFanOut(e)
    BY <1>2 DEF FanOutTypes, EndFanOut, clientVars
<1>3. CASE SendNext(e)
    <2>1. sendTo[e] \in Seq(Clients) /\ sendTo[e] # <<>>
        BY <1>3 DEF FanOutTypes, SendNext
    <2>2. Head(sendTo[e]) \in Clients /\ Tail(sendTo[e]) \in Seq(Clients)
        BY <2>1, HeadTailProperties
    <2> DEFINE c == Head(sendTo[e])
    <2>3. chan[c] \in Seq(Events) /\ Len(chan[c]) \in Nat /\ SubCap \in Nat
        BY <2>2, StreamAssumption, LenProperties DEF FanOutTypes
    <2>4. /\ Append(chan[c], e) \in Seq(Events)
          /\ Len(Append(chan[c], e)) = Len(chan[c]) + 1
        BY <2>3, AppendProperties
    <2>5. \/ chan' = chan
          \/ Len(chan[c]) < SubCap /\ chan' = [chan EXCEPT ![c] = Append(chan[c], e)]
        BY <1>3 DEF SendNext, Offer
    <2>6. c \in Clients
        BY <2>2
    <2> HIDE DEF c
    <2>7. chan' \in [Clients -> Seq(Events)] /\ \A d \in Clients : Len(chan'[d]) <= SubCap
        <3>1. CASE chan' = chan
            BY <3>1 DEF FanOutTypes
        <3>2. CASE Len(chan[c]) < SubCap /\ chan' = [chan EXCEPT ![c] = Append(chan[c], e)]
            <4>1. chan' \in [Clients -> Seq(Events)]
                BY <2>4, <2>6, <3>2 DEF FanOutTypes
            <4>2. Len(Append(chan[c], e)) <= SubCap
                BY <2>3, <2>4, <3>2
            <4>3. ASSUME NEW d \in Clients PROVE Len(chan'[d]) <= SubCap
                <5>1. CASE d = c
                    <6>1. chan'[d] = Append(chan[c], e)
                        BY <2>6, <3>2, <5>1 DEF FanOutTypes
                    <6> QED BY <4>2, <6>1
                <5>2. CASE d # c
                    <6>1. chan'[d] = chan[d]
                        BY <3>2, <5>2 DEF FanOutTypes
                    <6> QED BY <6>1 DEF FanOutTypes
                <5> QED BY <5>1, <5>2
            <4> QED BY <4>1, <4>3
        <3> QED BY <2>5, <3>1, <3>2
    <2>8. sendTo' \in [Events -> Seq(Clients)]
        BY <1>3, <2>2 DEF FanOutTypes, SendNext
    <2> QED BY <1>3, <2>7, <2>8 DEF FanOutTypes, SendNext, clientVars
<1> QED BY <1>1, <1>2, <1>3

LEMMA ServeKeepsTypes ==
    ASSUME FanOutTypes, NEW c \in Clients, Serve(c)
    PROVE  FanOutTypes'
<1>1. CASE SubscribeExecutions(c)
    <2>1. executionSubs' \in Seq(Clients)
        BY <1>1, AppendProperties DEF FanOutTypes, SubscribeExecutions
    <2> QED BY <1>1, <2>1 DEF FanOutTypes, SubscribeExecutions
<1>2. CASE Show(c)
    <2>1. chan[c] \in Seq(Events) /\ chan[c] # <<>> /\ Len(chan[c]) <= SubCap /\ shown[c] \in Seq(Events)
        BY <1>2 DEF FanOutTypes, Show
    <2>2. /\ Head(chan[c]) \in Events /\ Tail(chan[c]) \in Seq(Events)
          /\ Len(Tail(chan[c])) = Len(chan[c]) - 1 /\ Len(chan[c]) \in Nat
        BY <2>1, HeadTailProperties, LenProperties
    <2>3. Append(shown[c], Head(chan[c])) \in Seq(Events)
        BY <2>1, <2>2, AppendProperties
    <2>4. shown' \in [Clients -> Seq(Events)] /\ chan' \in [Clients -> Seq(Events)]
        BY <1>2, <2>2, <2>3 DEF FanOutTypes, Show
    <2>5. ASSUME NEW d \in Clients PROVE Len(chan'[d]) <= SubCap
        <3>1. CASE d = c
            <4>1. chan'[d] = Tail(chan[c])
                BY <1>2, <3>1 DEF FanOutTypes, Show
            <4> QED BY <2>1, <2>2, <4>1, StreamAssumption
        <3>2. CASE d # c
            <4>1. chan'[d] = chan[d]
                BY <1>2, <3>2 DEF FanOutTypes, Show
            <4> QED BY <4>1 DEF FanOutTypes
        <3> QED BY <3>1, <3>2
    <2> QED BY <1>2, <2>4, <2>5 DEF FanOutTypes, Show
<1>3. CASE Disconnect(c)
    BY <1>3 DEF FanOutTypes, Disconnect, fanOutVars
<1>4. CASE UnsubscribeExecutions(c)
    <2>1. PICK k \in DOMAIN executionSubs : executionSubs' = RemoveAt(executionSubs, k)
        BY <1>4 DEF UnsubscribeExecutions
    <2>2. executionSubs' \in Seq(Clients)
        BY <2>1, RemoveAtKeeps DEF FanOutTypes
    <2>3. closed' \in [Clients -> BOOLEAN] /\ client' \in [Clients -> {"away", "connected", "leaving", "gone"}]
        BY <1>4 DEF FanOutTypes, UnsubscribeExecutions
    <2> QED BY <1>4, <2>2, <2>3 DEF FanOutTypes, UnsubscribeExecutions
<1> QED BY <1>1, <1>2, <1>3, <1>4 DEF Serve

\* The stream grows and loses entries at its other end.
LEMMA XAddKeepsTypes ==
    ASSUME TypeInv, NEW e \in Events, XAdd(e)
    PROVE  TypeInv' /\ trimmed <= trimmed'
<1>1. FanOutTypes' /\ BatchFilled'
    BY DEF TypeInv, FanOutTypes, BatchFilled, XAdd, clientVars, consumerVars
<1>2. CASE UNCHANGED <<stream, trimmed>>
    BY <1>1, <1>2 DEF TypeInv, StoreTypes, XAdd, consumerVars
<1>3. CASE stream' = Append(stream, e) /\ trimmed' \in trimmed..Len(stream')
    <2>1. stream' \in Seq(Events) /\ Len(stream') = Len(stream) + 1 /\ Len(stream) \in Nat
        BY <1>3, AppendProperties DEF TypeInv, StoreTypes
    <2>2. 1..Len(stream) \subseteq 1..Len(stream')
        BY <2>1
    <2>3. Seq(1..Len(stream)) \subseteq Seq(1..Len(stream'))
        BY <2>2, SeqMonotonic
    <2>4. trimmed' \in 0..Len(stream') /\ trimmed <= trimmed' /\ cursor \in 0..Len(stream')
        BY <1>3, <2>1 DEF TypeInv, StoreTypes
    <2> QED BY <1>1, <2>1, <2>3, <2>4 DEF TypeInv, StoreTypes, XAdd, consumerVars
<1> QED BY <1>2, <1>3 DEF XAdd, TypeInv, StoreTypes

LEMMA BatchProperties ==
    ASSUME TypeInv, consumer = "inserting"
    PROVE  /\ Last(batch) \in 1..Len(stream)
           /\ table \o batch \in Seq(1..Len(stream))
           /\ ToSet(table \o batch) = ToSet(table) \union ToSet(batch)
<1>1. batch \in Seq(1..Len(stream)) /\ batch # <<>> /\ table \in Seq(1..Len(stream))
    BY DEF TypeInv, StoreTypes, BatchFilled
<1>2. Len(batch) \in DOMAIN batch
    BY <1>1, LenProperties, EmptySeq
<1>3. Last(batch) \in 1..Len(stream)
    BY <1>1, <1>2, ElementOfSeq DEF Last
<1> QED BY <1>1, <1>3, ToSetConcat

LEMMA ConsumeKeepsTypes ==
    ASSUME TypeInv, Consume \/ StopConsumer
    PROVE  TypeInv'
<1>0. FanOutTypes /\ StoreTypes /\ BatchFilled
    BY DEF TypeInv
<1>1. UNCHANGED <<fanOutVars, clientVars>>
    BY DEF Consume, StopConsumer, Tick, ReadBatch, ReadFails, InsertSucceeds, InsertFails, StartRead
<1>2. FanOutTypes'
    BY <1>0, <1>1 DEF FanOutTypes, fanOutVars, clientVars
<1>3. CASE Tick
    BY <1>0, <1>2, <1>3 DEF TypeInv, StoreTypes, BatchFilled, Tick, storeVars
<1>4. ASSUME NEW s \in Streams, StartRead(s) PROVE TypeInv'
    BY <1>0, <1>2, <1>4 DEF TypeInv, StoreTypes, BatchFilled, StartRead, storeVars
<1>5. CASE ReadBatch
    <2>1. Unread # <<>> /\ batch' = Unread /\ consumer' = "inserting"
        BY <1>5 DEF ReadBatch, HasUnread
    <2>2. Unread \in Seq(1..Len(stream))
        BY <1>0, <2>1, UnreadProperties
    <2> QED BY <1>0, <1>2, <1>5, <2>1, <2>2 DEF TypeInv, StoreTypes, BatchFilled, ReadBatch, storeVars
<1>6. CASE ReadFails
    BY <1>0, <1>2, <1>6 DEF TypeInv, StoreTypes, BatchFilled, ReadFails, NextStream, storeVars
<1>7. CASE InsertSucceeds
    <2>1. cursor' = Last(batch) /\ table' = table \o batch /\ batch' = <<>>
          /\ consumer' \in {"ticking", "flushing"} /\ failCount' = 0
          /\ UNCHANGED <<toRead, reading, stream, trimmed, starts>>
        BY <1>7 DEF InsertSucceeds, CursorAfterSuccess, NextStream
    <2>2. Last(batch) \in 0..Len(stream) /\ table' \in Seq(1..Len(stream))
        BY <1>7, <2>1, BatchProperties DEF InsertSucceeds
    <2>3. batch' \in Seq(1..Len(stream))
        BY <2>1, EmptySeq
    <2> QED BY <1>0, <1>2, <2>1, <2>2, <2>3, StreamAssumption DEF TypeInv, StoreTypes, BatchFilled
<1>8. CASE InsertFails
    <2>1. cursor' = cursor /\ table' \in {table, table \o batch} /\ batch' = <<>>
          /\ consumer' \in {"ticking", "flushing"} /\ failCount' = failCount + 1 /\ failCount < MaxFails
          /\ UNCHANGED <<toRead, reading, stream, trimmed, starts>>
        BY <1>8 DEF InsertFails, CursorAfterFailure, NextStream
    <2>2. table' \in Seq(1..Len(stream))
        BY <1>0, <1>8, <2>1, BatchProperties DEF InsertFails, StoreTypes
    <2>3. batch' \in Seq(1..Len(stream))
        BY <2>1, EmptySeq
    <2> QED BY <1>0, <1>2, <2>1, <2>2, <2>3, StreamAssumption DEF TypeInv, StoreTypes, BatchFilled
<1>9. CASE StopConsumer
    BY <1>0, <1>2, <1>9 DEF TypeInv, StoreTypes, BatchFilled, StopConsumer, storeVars
<1> QED BY <1>3, <1>4, <1>5, <1>6, <1>7, <1>8, <1>9 DEF Consume

LEMMA ProcessKeepsTypes ==
    ASSUME TypeInv, ProcessEnds \/ ProcessStarts
    PROVE  TypeInv'
<1>0. FanOutTypes /\ StoreTypes /\ BatchFilled
    BY DEF TypeInv
<1>1. CASE ProcessEnds
    <2>1. /\ pub' \in [Events -> {"idle", "fanOut", "append", "returned"}]
          /\ client' \in [Clients -> {"away", "connected", "leaving", "gone"}]
          /\ UNCHANGED <<closed, shown>>
        BY <1>0, <1>1 DEF FanOutTypes, ProcessEnds
    <2>2. /\ sendTo' \in [Events -> Seq(Clients)] /\ executionSubs' \in Seq(Clients)
          /\ chan' \in [Clients -> Seq(Events)] /\ \A c \in Clients : Len(chan'[c]) <= SubCap
        BY <1>1, EmptySeq, StreamAssumption DEF ProcessEnds
    <2>3. FanOutTypes'
        BY <1>0, <2>1, <2>2 DEF FanOutTypes
    <2>4. StoreTypes'
        BY <1>0, <1>1, EmptySeq DEF StoreTypes, ProcessEnds, storeVars
    <2>5. BatchFilled'
        BY <1>1 DEF BatchFilled, ProcessEnds
    <2> QED BY <2>3, <2>4, <2>5 DEF TypeInv
<1>2. CASE ProcessStarts
    <2>1. FanOutTypes' /\ BatchFilled'
        BY <1>0, <1>2 DEF FanOutTypes, BatchFilled, ProcessStarts, fanOutVars, clientVars
    <2>2. StoreTypes'
        BY <1>0, <1>2, StreamAssumption DEF StoreTypes, ProcessStarts, StartCursor, storeVars
    <2> QED BY <2>1, <2>2 DEF TypeInv
<1> QED BY <1>1, <1>2

LEMMA TypeStep == TypeInv /\ [Next]_vars => TypeInv'
<1> SUFFICES ASSUME TypeInv, [Next]_vars PROVE TypeInv'
    OBVIOUS
<1>1. ASSUME NEW e \in Events, Publish(e) PROVE TypeInv'
    <2>1. CASE StartFanOut(e) \/ SendNext(e) \/ EndFanOut(e)
        <3>1. FanOutTypes'
            BY <2>1, PublishKeepsTypes DEF TypeInv
        <3>2. StoreTypes' /\ BatchFilled'
            BY <2>1 DEF TypeInv, StoreTypes, BatchFilled, StartFanOut, SendNext, EndFanOut,
                  consumerVars, storeVars
        <3> QED BY <3>1, <3>2 DEF TypeInv
    <2>2. CASE XAdd(e)
        BY <2>2, XAddKeepsTypes
    <2> QED BY <1>1, <2>1, <2>2 DEF Publish
<1>2. ASSUME NEW c \in Clients, Serve(c) PROVE TypeInv'
    <2>1. FanOutTypes'
        BY <1>2, ServeKeepsTypes DEF TypeInv
    <2>2. StoreTypes' /\ BatchFilled'
        BY <1>2 DEF TypeInv, StoreTypes, BatchFilled, Serve, SubscribeExecutions, Show, Disconnect,
              UnsubscribeExecutions, consumerVars, storeVars
    <2> QED BY <2>1, <2>2 DEF TypeInv
<1>3. CASE UNCHANGED vars
    BY <1>3 DEF TypeInv, FanOutTypes, StoreTypes, BatchFilled, vars, fanOutVars, clientVars,
          consumerVars, storeVars
<1> QED BY <1>1, <1>2, <1>3, ConsumeKeepsTypes, ProcessKeepsTypes DEF Next

\* Every variable of the stream keeps its type over any number of restarts: no
\* channel holds more than its capacity, and neither the cursor nor a copied
\* row names an entry that was never appended.
THEOREM TypeCorrect == Spec => []TypeOK
<1>1. TypeInv => TypeOK
    BY DEF TypeInv, FanOutTypes, StoreTypes, TypeOK
<1> QED BY <1>1, TypeInit, TypeStep, PTL DEF Spec

-------------------------------------------------------------------------------
(* Closed channels *)

\* The registered clients are those that have not run their deferred
\* UnsubscribeExecutions, each registered once; a channel is closed only after
\* its client has left the list, and no fan-out has it left to send to.
SubsInv ==
    /\ \A c \in Clients : closed[c] => client[c] = "gone"
    /\ \A i \in DOMAIN executionSubs : client[executionSubs[i]] \in {"connected", "leaving"}
    /\ \A i, j \in DOMAIN executionSubs : executionSubs[i] = executionSubs[j] => i = j
    /\ \A e \in Events : pub[e] = "fanOut" =>
          \A i \in DOMAIN sendTo[e] : ~closed[sendTo[e][i]]

LEMMA PublishKeepsSubs ==
    ASSUME TypeInv, SubsInv, NEW e \in Events, Publish(e)
    PROVE  SubsInv'
<1>0. /\ pub \in [Events -> {"idle", "fanOut", "append", "returned"}]
      /\ sendTo \in [Events -> Seq(Clients)] /\ executionSubs \in Seq(Clients)
    BY DEF TypeInv, FanOutTypes
<1>1. UNCHANGED <<closed, client, executionSubs>>
    BY DEF Publish, StartFanOut, SendNext, EndFanOut, XAdd, clientVars
<1>2. ASSUME \A f \in Events : pub'[f] = "fanOut" =>
                \A i \in DOMAIN sendTo'[f] : ~closed[sendTo'[f][i]]
      PROVE  SubsInv'
    BY <1>1, <1>2 DEF SubsInv
<1>3. CASE StartFanOut(e)
    <2>1. \A i \in DOMAIN executionSubs : executionSubs[i] \in Clients /\ ~closed[executionSubs[i]]
        BY <1>0, ElementOfSeq DEF SubsInv
    <2>2. \A f \in Events : IF f = e THEN sendTo'[f] = executionSubs
                            ELSE sendTo'[f] = sendTo[f] /\ pub'[f] = pub[f]
        BY <1>0, <1>3 DEF StartFanOut
    <2> QED BY <1>2, <2>1, <2>2 DEF SubsInv
<1>4. CASE SendNext(e)
    <2>1. sendTo[e] \in Seq(Clients) /\ sendTo[e] # <<>> /\ pub[e] = "fanOut" /\ pub' = pub
        BY <1>0, <1>4 DEF SendNext
    <2>2. \A i \in DOMAIN Tail(sendTo[e]) : i + 1 \in DOMAIN sendTo[e] /\ Tail(sendTo[e])[i] = sendTo[e][i + 1]
        BY <2>1, HeadTailProperties
    <2>3. \A f \in Events : IF f = e THEN sendTo'[f] = Tail(sendTo[e]) ELSE sendTo'[f] = sendTo[f]
        BY <1>0, <1>4 DEF SendNext
    <2>4. \A i \in DOMAIN Tail(sendTo[e]) : ~closed[Tail(sendTo[e])[i]]
        BY <2>1, <2>2 DEF SubsInv
    <2>5. \A f \in Events : pub[f] = "fanOut" => \A i \in DOMAIN sendTo[f] : ~closed[sendTo[f][i]]
        BY DEF SubsInv
    <2>6. ASSUME NEW f \in Events, pub'[f] = "fanOut"
          PROVE  \A i \in DOMAIN sendTo'[f] : ~closed[sendTo'[f][i]]
        <3>1. CASE f = e
            BY <2>3, <2>4, <3>1
        <3>2. CASE f # e
            BY <2>1, <2>3, <2>5, <2>6, <3>2
        <3> QED BY <3>1, <3>2
    <2> QED BY <1>2, <2>6
<1>5. CASE EndFanOut(e) \/ XAdd(e)
    <2>1. sendTo' = sendTo /\ \A f \in Events : pub'[f] = "fanOut" => pub[f] = "fanOut"
        BY <1>0, <1>5 DEF EndFanOut, XAdd
    <2> QED BY <1>2, <2>1 DEF SubsInv
<1> QED BY <1>3, <1>4, <1>5 DEF Publish

LEMMA ServeKeepsSubs ==
    ASSUME TypeInv, SubsInv, NEW c \in Clients, Serve(c)
    PROVE  SubsInv'
<1>0. /\ client \in [Clients -> {"away", "connected", "leaving", "gone"}]
      /\ closed \in [Clients -> BOOLEAN] /\ executionSubs \in Seq(Clients)
      /\ \A i \in DOMAIN executionSubs : executionSubs[i] \in Clients
    BY ElementOfSeq DEF TypeInv, FanOutTypes
<1>1. UNCHANGED <<pub, sendTo>>
    BY DEF Serve, SubscribeExecutions, Show, Disconnect, UnsubscribeExecutions, fanOutVars
<1>2. CASE SubscribeExecutions(c)
    <2>1. client[c] = "away" /\ executionSubs' = Append(executionSubs, c) /\ closed' = closed
          /\ client' = [client EXCEPT ![c] = "connected"]
        BY <1>2 DEF SubscribeExecutions
    <2>2. \A i \in DOMAIN executionSubs : executionSubs[i] # c
        BY <2>1 DEF SubsInv
    <2>3. /\ Len(executionSubs') = Len(executionSubs) + 1 /\ Len(executionSubs) \in Nat
          /\ DOMAIN executionSubs = 1..Len(executionSubs)
          /\ DOMAIN executionSubs' = 1..(Len(executionSubs) + 1)
          /\ executionSubs'[Len(executionSubs) + 1] = c
          /\ \A i \in 1..Len(executionSubs) : executionSubs'[i] = executionSubs[i]
        BY <1>0, <2>1
    <2>4. \A i \in DOMAIN executionSubs' : client'[executionSubs'[i]] \in {"connected", "leaving"}
        BY <1>0, <2>1, <2>3 DEF SubsInv
    <2>5. \A i, j \in DOMAIN executionSubs' : executionSubs'[i] = executionSubs'[j] => i = j
        BY <2>2, <2>3 DEF SubsInv
    <2>6. \A d \in Clients : closed[d] => client'[d] = "gone"
        BY <1>0, <2>1 DEF SubsInv
    <2>7. (\A e \in Events : pub[e] = "fanOut" => \A i \in DOMAIN sendTo[e] : ~closed[sendTo[e][i]])'
        BY <1>1, <2>1 DEF SubsInv
    <2> QED BY <2>1, <2>4, <2>5, <2>6, <2>7 DEF SubsInv
<1>3. CASE Show(c)
    BY <1>1, <1>3 DEF SubsInv, Show
<1>4. CASE Disconnect(c)
    <2>1. client[c] = "connected" /\ client' = [client EXCEPT ![c] = "leaving"]
          /\ UNCHANGED <<executionSubs, closed>>
        BY <1>4 DEF Disconnect, fanOutVars
    <2>2. \A d \in Clients : closed[d] => client'[d] = "gone"
        BY <1>0, <2>1 DEF SubsInv
    <2>3. \A i \in DOMAIN executionSubs : client'[executionSubs[i]] \in {"connected", "leaving"}
        BY <1>0, <2>1 DEF SubsInv
    <2> QED BY <1>1, <2>1, <2>2, <2>3 DEF SubsInv
<1>5. CASE UnsubscribeExecutions(c)
    <2>1. PICK k \in DOMAIN executionSubs :
              executionSubs[k] = c /\ executionSubs' = RemoveAt(executionSubs, k)
        BY <1>5 DEF UnsubscribeExecutions
    <2>2. /\ closed' = [closed EXCEPT ![c] = TRUE] /\ client' = [client EXCEPT ![c] = "gone"]
          /\ \A e \in Events : pub[e] # "fanOut"
        BY <1>5 DEF UnsubscribeExecutions, WriteLock, ReadLocked
    <2>3. /\ executionSubs' \in Seq(Clients) /\ Len(executionSubs') = Len(executionSubs) - 1
          /\ \A i \in DOMAIN executionSubs' :
                executionSubs'[i] = IF i < k THEN executionSubs[i] ELSE executionSubs[i + 1]
        BY <1>0, <2>1, RemoveAtKeeps
    <2>4. /\ Len(executionSubs) \in Nat /\ DOMAIN executionSubs = 1..Len(executionSubs)
          /\ DOMAIN executionSubs' = 1..(Len(executionSubs) - 1) /\ k \in 1..Len(executionSubs)
        BY <1>0, <2>1, <2>3, LenProperties
    <2> DEFINE old(i) == IF i < k THEN i ELSE i + 1
    <2>5. \A i \in DOMAIN executionSubs' :
              /\ old(i) \in DOMAIN executionSubs /\ old(i) # k
              /\ executionSubs'[i] = executionSubs[old(i)]
        BY <2>3, <2>4
    <2>6. \A i, j \in DOMAIN executionSubs' : old(i) = old(j) => i = j
        BY <2>4
    <2> HIDE DEF old
    <2>7. \A i, j \in DOMAIN executionSubs' : executionSubs'[i] = executionSubs'[j] => i = j
        BY <2>5, <2>6 DEF SubsInv
    <2>8. \A i \in DOMAIN executionSubs' : executionSubs'[i] \in Clients /\ executionSubs'[i] # c
        BY <1>0, <2>1, <2>5 DEF SubsInv
    <2>9. \A i \in DOMAIN executionSubs' : client'[executionSubs'[i]] \in {"connected", "leaving"}
        BY <1>0, <2>2, <2>5, <2>8 DEF SubsInv
    <2>10. \A d \in Clients : closed'[d] => client'[d] = "gone"
        BY <1>0, <2>2 DEF SubsInv
    <2> QED BY <1>1, <2>2, <2>7, <2>9, <2>10 DEF SubsInv
<1> QED BY <1>2, <1>3, <1>4, <1>5 DEF Serve

LEMMA SubsStep == TypeInv /\ SubsInv /\ [Next]_vars => SubsInv'
<1> SUFFICES ASSUME TypeInv, SubsInv, [Next]_vars PROVE SubsInv'
    OBVIOUS
<1>1. CASE Consume \/ StopConsumer \/ ProcessStarts \/ UNCHANGED vars
    BY <1>1 DEF SubsInv, Consume, Tick, ReadBatch, ReadFails, InsertSucceeds, InsertFails, StartRead,
          StopConsumer, ProcessStarts, vars, fanOutVars, clientVars
<1>2. CASE ProcessEnds
    <2>1. executionSubs' = <<>> /\ closed' = closed
        BY <1>2 DEF ProcessEnds
    <2>2. \A e \in Events : sendTo'[e] = <<>>
        BY <1>2 DEF ProcessEnds
    <2>3. \A c \in Clients : closed[c] => client'[c] = "gone"
        BY <1>2 DEF ProcessEnds, SubsInv
    <2> QED BY <2>1, <2>2, <2>3 DEF SubsInv
<1> QED BY <1>1, <1>2, PublishKeepsSubs, ServeKeepsSubs DEF Next

\* However clients come and go while any number of executions is published, and
\* however often the process is started again, no fan-out sends on a closed
\* channel: the process does not fault in the middle of an execution.
THEOREM ClosedChannelsAreLeft == Spec => []NeverSendsOnClosed
<1>1. Init => SubsInv
    BY DEF Init, SubsInv
<1>2. TypeInv /\ SubsInv => NeverSendsOnClosed
    <2> SUFFICES ASSUME TypeInv, SubsInv, NEW e \in Events, NEW c \in Clients,
                        pub[e] = "fanOut", closed[c], Contains(sendTo[e], c)
                 PROVE  FALSE
        BY DEF NeverSendsOnClosed
    <2>1. PICK i \in 1..Len(sendTo[e]) : sendTo[e][i] = c
        BY DEF Contains
    <2>2. i \in DOMAIN sendTo[e]
        BY LenProperties DEF TypeInv, FanOutTypes
    <2> QED BY <2>1, <2>2 DEF SubsInv
<1> QED BY <1>1, <1>2, TypeInit, TypeStep, SubsStep, PTL DEF Spec

-------------------------------------------------------------------------------
(* The cursor *)

\* While a batch is being inserted, everything up to its last entry is in the
\* database, trimmed, or in the batch.
BatchInv ==
    consumer = "inserting" =>
        \A id \in 1..Last(batch) : id \in Inserted \/ id <= trimmed \/ id \in ToSet(batch)

LEMMA CursorStep ==
    TypeInv /\ BatchInv /\ CursorPassesInserted /\ [Next]_vars => (BatchInv /\ CursorPassesInserted)'
<1> SUFFICES ASSUME TypeInv, BatchInv, CursorPassesInserted, [Next]_vars
             PROVE  (BatchInv /\ CursorPassesInserted)'
    OBVIOUS
<1>0. /\ trimmed \in Nat /\ cursor \in Nat /\ Len(stream) \in Nat
    BY LenProperties DEF TypeInv, StoreTypes
<1>1. ASSUME UNCHANGED <<table, trimmed, cursor>>, consumer' # "inserting" \/ UNCHANGED <<consumer, batch>>
      PROVE  (BatchInv /\ CursorPassesInserted)'
    BY <1>1 DEF BatchInv, CursorPassesInserted, Inserted
<1>2. ASSUME NEW e \in Events, XAdd(e) PROVE (BatchInv /\ CursorPassesInserted)'
    <2>1. trimmed <= trimmed' /\ trimmed' \in Nat
        BY <1>2, XAddKeepsTypes DEF TypeInv, StoreTypes
    <2>2. UNCHANGED <<table, cursor, consumer, batch>>
        BY <1>2 DEF XAdd, consumerVars
    <2>3. Inserted' = Inserted
        BY <2>2 DEF Inserted
    <2>4. ASSUME consumer = "inserting", NEW id \in 1..Last(batch)
          PROVE  id \in Inserted \/ id <= trimmed' \/ id \in ToSet(batch)
        BY <1>0, <2>1, <2>4 DEF BatchInv
    <2>5. ASSUME NEW id \in 1..cursor PROVE id \in Inserted \/ id <= trimmed'
        BY <1>0, <2>1 DEF CursorPassesInserted
    <2> QED BY <2>2, <2>3, <2>4, <2>5 DEF BatchInv, CursorPassesInserted
<1>3. ASSUME NEW e \in Events, Publish(e) PROVE (BatchInv /\ CursorPassesInserted)'
    BY <1>1, <1>2, <1>3 DEF Publish, StartFanOut, SendNext, EndFanOut, consumerVars, storeVars
<1>4. ASSUME NEW c \in Clients, Serve(c) PROVE (BatchInv /\ CursorPassesInserted)'
    BY <1>1, <1>4 DEF Serve, SubscribeExecutions, Show, Disconnect, UnsubscribeExecutions,
          consumerVars, storeVars
<1>5. CASE ReadBatch
    <2>1. Unread # <<>> /\ batch' = Unread /\ UNCHANGED <<table, trimmed, cursor>>
        BY <1>5 DEF ReadBatch, HasUnread, storeVars
    <2>2. ToSet(Unread) = FirstUnread..Last(Unread)
        BY <2>1, UnreadProperties DEF TypeInv
    <2>3. Last(Unread) \in Int
        <3>1. Unread \in Seq(1..Len(stream)) /\ Len(Unread) \in Nat \ {0}
            BY <2>1, UnreadProperties DEF TypeInv
        <3>2. Len(Unread) \in 1..Len(Unread)
            BY <3>1
        <3>3. Last(Unread) \in 1..Len(stream)
            BY <3>1, <3>2, ElementOfSeq DEF Last
        <3> QED BY <1>0, <3>3
    <2>4. ASSUME NEW id \in 1..Last(Unread)
          PROVE  id \in Inserted \/ id <= trimmed \/ id \in ToSet(Unread)
        <3>1. CASE id >= FirstUnread
            BY <1>0, <2>2, <2>3, <3>1 DEF FirstUnread
        <3>2. CASE id < FirstUnread
            BY <1>0, <2>3, <3>2 DEF FirstUnread, CursorPassesInserted
        <3> QED BY <1>0, <2>3, <3>1, <3>2 DEF FirstUnread
    <2> QED BY <2>1, <2>4 DEF BatchInv, CursorPassesInserted, Inserted
<1>6. CASE InsertSucceeds
    <2>1. cursor' = Last(batch) /\ table' = table \o batch /\ trimmed' = trimmed
          /\ consumer' # "inserting" /\ consumer = "inserting"
        BY <1>6 DEF InsertSucceeds, CursorAfterSuccess, NextStream
    <2>2. Inserted' = Inserted \union ToSet(batch)
        BY <2>1, BatchProperties DEF Inserted
    <2> QED BY <2>1, <2>2 DEF BatchInv, CursorPassesInserted
<1>7. CASE InsertFails
    <2>1. cursor' = cursor /\ table' \in {table, table \o batch} /\ trimmed' = trimmed
          /\ consumer' # "inserting" /\ consumer = "inserting"
        BY <1>7 DEF InsertFails, CursorAfterFailure, NextStream
    <2>2. Inserted \subseteq Inserted'
        BY <2>1, BatchProperties DEF Inserted
    <2> QED BY <2>1, <2>2 DEF BatchInv, CursorPassesInserted
<1>8. CASE Consume
    BY <1>1, <1>5, <1>6, <1>7, <1>8 DEF Consume, Tick, ReadFails, StartRead, NextStream, storeVars
<1>9. CASE StopConsumer \/ ProcessEnds \/ UNCHANGED vars
    <2>1. CASE ProcessEnds
        BY <1>1, <2>1 DEF ProcessEnds, storeVars
    <2>2. CASE StopConsumer \/ UNCHANGED vars
        BY <1>1, <2>2 DEF StopConsumer, vars, consumerVars, storeVars
    <2> QED BY <1>9, <2>1, <2>2
<1>10. CASE ProcessStarts
    <2>1. cursor' = 0 /\ consumer' # "inserting"
        BY <1>10 DEF ProcessStarts, StartCursor
    <2> QED BY <2>1 DEF BatchInv, CursorPassesInserted
<1> QED BY <1>3, <1>4, <1>8, <1>9, <1>10 DEF Next

\* Through failed reads and inserts, inserts that took effect although they
\* reported a failure, trimming and restarts, the cursor never passes an entry
\* that is not in the database, unless Redis had trimmed it: for any batch size
\* and any length the stream is kept at.
THEOREM NothingIsSkipped == Spec => []CursorPassesInserted
<1>1. Init => BatchInv /\ CursorPassesInserted
    BY DEF Init, BatchInv, CursorPassesInserted
<1> QED BY <1>1, TypeInit, TypeStep, CursorStep, PTL DEF Spec

-------------------------------------------------------------------------------
(* Copying twice *)

\* A batch lies beyond the cursor.  In the first life of the process nothing
\* beyond the cursor is in the database, except what a failed insert left
\* there, and that the next batch covers again.
OnceInv ==
    /\ consumer = "inserting" =>
          /\ \A id \in ToSet(batch) : cursor < id /\ id <= Last(batch)
          /\ Last(batch) <= UnreadEnd
          /\ starts = 1 => \A id \in Inserted : id <= Last(batch)
    /\ starts = 1 =>
          \A id \in Inserted : id <= cursor \/ (failCount > 0 /\ id <= UnreadEnd)

EndFrom(c, t, n) ==
    LET first == (IF c < t THEN t ELSE c) + 1
    IN IF n < first + BatchSize - 1 THEN n ELSE first + BatchSize - 1

LEMMA EndFromGrows ==
    ASSUME NEW c \in Nat, NEW t \in Nat, NEW t2 \in Nat, NEW n \in Nat, NEW n2 \in Nat,
           t <= t2, n <= n2
    PROVE  EndFrom(c, t, n) \in Int /\ EndFrom(c, t2, n2) \in Int
           /\ EndFrom(c, t, n) <= EndFrom(c, t2, n2)
BY StreamAssumption DEF EndFrom

LEMMA UnreadEndIs == UnreadEnd = EndFrom(cursor, trimmed, Len(stream))
BY DEF UnreadEnd, EndFrom, FirstUnread

LEMMA UnreadEndGrows ==
    ASSUME StoreTypes, StoreTypes', cursor' = cursor, trimmed <= trimmed', Len(stream) <= Len(stream')
    PROVE  UnreadEnd \in Int /\ UnreadEnd' \in Int /\ UnreadEnd <= UnreadEnd'
<1>1. /\ Len(stream) \in Nat /\ Len(stream') \in Nat /\ trimmed \in Nat /\ trimmed' \in Nat
      /\ cursor \in Nat
    BY LenProperties DEF StoreTypes
<1>2. (UnreadEnd = EndFrom(cursor, trimmed, Len(stream)))'
    BY UnreadEndIs, PTL
<1> QED BY <1>1, <1>2, UnreadEndIs, EndFromGrows

LEMMA InsertedIds == TypeInv => \A id \in Inserted : id \in Nat
<1> SUFFICES ASSUME TypeInv, NEW id \in Inserted PROVE id \in Nat
    OBVIOUS
<1>1. table \in Seq(1..Len(stream)) /\ Len(stream) \in Nat
    BY LenProperties DEF TypeInv, StoreTypes
<1>2. PICK i \in DOMAIN table : id = table[i]
    BY DEF Inserted, ToSet
<1>3. id \in 1..Len(stream)
    BY <1>1, <1>2, ElementOfSeq
<1> QED BY <1>1, <1>3

LEMMA OnceStep == TypeInv /\ TypeInv' /\ OnceInv /\ [Next]_vars => OnceInv'
<1> SUFFICES ASSUME TypeInv, TypeInv', OnceInv, [Next]_vars PROVE OnceInv'
    OBVIOUS
<1>0. /\ trimmed \in Nat /\ cursor \in Nat /\ Len(stream) \in Nat /\ failCount \in Nat
      /\ starts \in Nat /\ starts >= 1 /\ \A id \in Inserted : id \in Nat
    BY LenProperties, InsertedIds, StreamAssumption DEF TypeInv, StoreTypes
<1>1. ASSUME UNCHANGED <<table, stream, trimmed, cursor, failCount, starts>>,
             consumer' # "inserting" \/ UNCHANGED <<consumer, batch>>
      PROVE  OnceInv'
    <2>1. UnreadEnd' = UnreadEnd /\ Inserted' = Inserted
        BY <1>1 DEF UnreadEnd, FirstUnread, Inserted
    <2> QED BY <1>1, <2>1 DEF OnceInv
<1>2. ASSUME NEW e \in Events, XAdd(e) PROVE OnceInv'
    <2>1. UNCHANGED <<table, cursor, consumer, batch, failCount, starts>>
        BY <1>2 DEF XAdd, consumerVars
    <2>2. trimmed <= trimmed' /\ Len(stream) <= Len(stream')
        <3>1. Len(stream) <= Len(stream')
            BY <1>0, <1>2, AppendProperties DEF XAdd, TypeInv, StoreTypes
        <3> QED BY <1>2, <3>1, XAddKeepsTypes
    <2>3. UnreadEnd \in Int /\ UnreadEnd' \in Int /\ UnreadEnd <= UnreadEnd'
        BY <2>1, <2>2, UnreadEndGrows DEF TypeInv
    <2>4. Inserted' = Inserted
        BY <2>1 DEF Inserted
    <2>5. consumer = "inserting" => Last(batch) \in Int
        BY <1>0, BatchProperties
    <2>6. consumer = "inserting" => Last(batch) <= UnreadEnd'
        BY <2>3, <2>5 DEF OnceInv
    <2>7. starts = 1 => \A id \in Inserted : id <= cursor \/ (failCount > 0 /\ id <= UnreadEnd')
        BY <1>0, <2>3 DEF OnceInv
    <2> QED BY <2>1, <2>4, <2>6, <2>7 DEF OnceInv
<1>3. ASSUME NEW e \in Events, Publish(e) PROVE OnceInv'
    BY <1>1, <1>2, <1>3 DEF Publish, StartFanOut, SendNext, EndFanOut, consumerVars, storeVars
<1>4. ASSUME NEW c \in Clients, Serve(c) PROVE OnceInv'
    BY <1>1, <1>4 DEF Serve, SubscribeExecutions, Show, Disconnect, UnsubscribeExecutions,
          consumerVars, storeVars
<1>5. CASE ReadBatch
    <2>1. Unread # <<>> /\ batch' = Unread
          /\ UNCHANGED <<table, stream, trimmed, cursor, failCount, starts>>
        BY <1>5 DEF ReadBatch, HasUnread, storeVars
    <2>2. /\ Last(Unread) = UnreadEnd /\ UnreadEnd \in Int /\ ToSet(Unread) = FirstUnread..Last(Unread)
          /\ Unread \in Seq(1..Len(stream)) /\ Len(Unread) \in Nat \ {0}
        BY <2>1, UnreadProperties DEF TypeInv
    <2>3. UnreadEnd' = UnreadEnd /\ Inserted' = Inserted
        BY <2>1 DEF UnreadEnd, FirstUnread, Inserted
    <2>4. FirstUnread \in Nat /\ cursor < FirstUnread
        BY <1>0 DEF FirstUnread
    <2>5. \A id \in ToSet(Unread) : cursor < id /\ id <= Last(Unread)
        BY <1>0, <2>2, <2>4
    <2>6. cursor <= Last(Unread)
        <3>1. Unread[1] \in ToSet(Unread)
            BY <2>2 DEF ToSet
        <3>2. cursor < Unread[1] /\ Unread[1] <= Last(Unread) /\ Unread[1] \in Int
            BY <2>2, <2>5, <3>1
        <3> QED BY <1>0, <2>2, <3>2
    <2>7. starts = 1 => \A id \in Inserted : id <= Last(Unread)
        BY <1>0, <2>2, <2>6 DEF OnceInv
    <2>8. Last(Unread) <= UnreadEnd
        BY <2>2
    <2> QED BY <2>1, <2>3, <2>5, <2>7, <2>8 DEF OnceInv
<1>6. CASE InsertSucceeds
    <2>1. cursor' = Last(batch) /\ table' = table \o batch
          /\ consumer' # "inserting" /\ consumer = "inserting" /\ starts' = starts
        BY <1>6 DEF InsertSucceeds, CursorAfterSuccess, NextStream
    <2>2. Inserted' = Inserted \union ToSet(batch)
        BY <2>1, BatchProperties DEF Inserted
    <2>3. starts = 1 => \A id \in Inserted' : id <= Last(batch)
        BY <2>1, <2>2 DEF OnceInv
    <2> QED BY <2>1, <2>3 DEF OnceInv
<1>7. CASE InsertFails
    <2>1. cursor' = cursor /\ table' \in {table, table \o batch}
          /\ consumer' # "inserting" /\ consumer = "inserting"
          /\ UNCHANGED <<stream, trimmed, starts>> /\ failCount' = failCount + 1
        BY <1>7 DEF InsertFails, CursorAfterFailure, NextStream
    <2>2. Inserted' \subseteq Inserted \union ToSet(batch)
        BY <2>1, BatchProperties DEF Inserted
    <2>3. UnreadEnd' = UnreadEnd /\ UnreadEnd \in Int /\ failCount' > 0 /\ Last(batch) \in Int
        <3>1. UnreadEnd' = UnreadEnd
            BY <2>1 DEF UnreadEnd, FirstUnread
        <3>2. UnreadEnd \in Int
            BY <1>0, StreamAssumption DEF UnreadEnd, FirstUnread
        <3>3. Last(batch) \in Int
            BY <1>0, <2>1, BatchProperties
        <3> QED BY <1>0, <2>1, <3>1, <3>2, <3>3
    <2>4. \A id \in Inserted' : id \in Nat
        <3>1. batch \in Seq(1..Len(stream))
            BY DEF TypeInv, StoreTypes
        <3>2. \A id \in ToSet(batch) : id \in Nat
            BY <1>0, <3>1, ElementOfSeq DEF ToSet
        <3> QED BY <1>0, <2>2, <3>2
    <2>5. starts = 1 => \A id \in Inserted' : id <= cursor \/ id <= UnreadEnd
        BY <1>0, <2>1, <2>2, <2>3, <2>4 DEF OnceInv
    <2> QED BY <2>1, <2>3, <2>5 DEF OnceInv
<1>8. CASE Consume
    BY <1>1, <1>5, <1>6, <1>7, <1>8 DEF Consume, Tick, ReadFails, StartRead, NextStream, storeVars
<1>9. CASE StopConsumer \/ ProcessEnds \/ UNCHANGED vars
    <2>1. CASE ProcessEnds
        BY <1>1, <2>1 DEF ProcessEnds, storeVars
    <2>2. CASE StopConsumer \/ UNCHANGED vars
        BY <1>1, <2>2 DEF StopConsumer, vars, consumerVars, storeVars
    <2> QED BY <1>9, <2>1, <2>2
<1>10. CASE ProcessStarts
    <2>1. starts' # 1 /\ consumer' # "inserting"
        BY <1>0, <1>10 DEF ProcessStarts
    <2> QED BY <2>1 DEF OnceInv
<1> QED BY <1>3, <1>4, <1>8, <1>9, <1>10 DEF Next

\* In the first life of a process, as long as no insert has reported a failure
\* since the last one that succeeded, no entry is copied a second time.
THEOREM CopiedOnceWithoutFailure == Spec => CopiedTwiceOnlyOnRetry
<1>1. Init => OnceInv
    BY DEF Init, OnceInv, Inserted, ToSet
<1>2. TypeInv /\ OnceInv /\ [Next]_vars =>
          [table' # table /\ ToSet(batch) \intersect Inserted # {} => failCount > 0 \/ starts > 1]_vars
    <2> SUFFICES ASSUME TypeInv, OnceInv, Next, table' # table,
                        NEW id \in ToSet(batch) \intersect Inserted, ~(failCount > 0), ~(starts > 1)
                 PROVE  FALSE
        BY DEF vars, storeVars
    <2>1. consumer = "inserting"
        BY DEF Next, Publish, StartFanOut, SendNext, EndFanOut, XAdd, Serve, SubscribeExecutions, Show,
              Disconnect, UnsubscribeExecutions, Consume, Tick, ReadBatch, ReadFails, InsertSucceeds,
              InsertFails, StartRead, StopConsumer, ProcessEnds, ProcessStarts, storeVars
    <2>2. starts = 1 /\ id \in Nat /\ cursor \in Nat
        BY InsertedIds, StreamAssumption DEF TypeInv, StoreTypes
    <2>3. cursor < id
        BY <2>1 DEF OnceInv
    <2>4. id <= cursor
        BY <2>2 DEF OnceInv
    <2> QED BY <2>2, <2>3, <2>4
<1> QED BY <1>1, <1>2, TypeInit, TypeStep, OnceStep, PTL DEF Spec, CopiedTwiceOnlyOnRetry

===============================================================================
