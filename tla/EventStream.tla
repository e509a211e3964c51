------------------------------ MODULE EventStream ------------------------------
(***************************************************************************)
(* How an execution event leaves the engine: PublishExecution of           *)
(* internal/redis/pipeline.go fans it out to the gateway's live clients    *)
(* and appends it to a Redis stream, which RunConsumer reads in batches    *)
(* and internal/persistence/copier.go copies into the database.            *)
(*                                                                         *)
(* The stream and the database outlive the process; channels, cursors and  *)
(* counters do not.  An entry of the stream is named by its position among *)
(* all entries ever added; Redis drops the oldest ones when it trims.      *)
(***************************************************************************)
EXTENDS Integers, Sequences, SequencesExt

CONSTANTS
    Events,           \* execution events, one publishing goroutine for each
    Clients,          \* requests to /opportunities
    SubCap,           \* capacity of a subscriber's channel
    MaxLen,           \* MaxLen of the XAdd: the stream is trimmed to it
    BatchSize,        \* StreamMaxBatchSize
    MaxStarts,        \* bound: how often the process is started
    MaxFails          \* bound: Insert failures in a row

ASSUME StreamAssumption ==
    /\ SubCap \in Nat /\ MaxLen \in Nat \ {0} /\ BatchSize \in Nat \ {0}
    /\ MaxStarts \in Nat \ {0} /\ MaxFails \in Nat

VARIABLES
    pub,              \* pub[e]: where the goroutine that publishes e is
    sendTo,           \* sendTo[e]: subscribers its fan-out has still to offer e
    client,           \* client[c]: where the handler of c is
    executionSubs,    \* the registered clients
    chan,             \* chan[c]: the channel of c
    closed,           \* closed[c]: the channel has been closed
    shown,            \* shown[c]: the events written to c
    stream,           \* the events XADD has added, the first ever first
    trimmed,          \* the entries 1..trimmed are gone
    consumer,         \* where RunConsumer is
    toRead,           \* the streams the flush under way has still to read
    reading,          \* the stream it is reading
    cursor,           \* cursors[ExecutionStreamKey]
    batch,            \* the entries being inserted
    failCount,        \* failCount[ExecutionStreamKey]
    table,            \* the entries copied into the database, in order
    starts            \* how often the process has been started

fanOutVars   == <<pub, sendTo, executionSubs, chan, closed>>
clientVars   == <<client, shown>>
consumerVars == <<consumer, toRead, reading, cursor, batch, failCount>>
storeVars    == <<stream, trimmed, table>>
vars == <<fanOutVars, clientVars, consumerVars, storeVars, starts>>

Up == consumer # "down"

Init ==
    /\ pub = [e \in Events |-> "idle"]
    /\ sendTo = [e \in Events |-> <<>>]
    /\ client = [c \in Clients |-> "away"]
    /\ executionSubs = <<>>
    /\ chan = [c \in Clients |-> <<>>]
    /\ closed = [c \in Clients |-> FALSE]
    /\ shown = [c \in Clients |-> <<>>]
    /\ stream = <<>> /\ trimmed = 0
    /\ consumer = "ticking" /\ toRead = {} /\ reading = "execution"
    /\ cursor = 0 /\ batch = <<>> /\ failCount = 0
    /\ table = <<>>
    /\ starts = 1

-------------------------------------------------------------------------------
(* PublishExecution *)

\* execMu: a fan-out holds it for reading from its first send to its last;
\* registering and removing a subscriber take it for writing.
ReadLocked == \E e \in Events : pub[e] = "fanOut"

\* Mutant: the subscriber list is changed without the lock.
NoLock == TRUE

WriteLock == ~ReadLocked

StartFanOut(e) ==
    /\ pub[e] = "idle"
    /\ pub' = [pub EXCEPT ![e] = "fanOut"]
    /\ sendTo' = [sendTo EXCEPT ![e] = executionSubs]
    /\ UNCHANGED <<executionSubs, chan, closed, clientVars, consumerVars, storeVars, starts>>

\* Mutant: the send waits for room.
OfferOrWait(e, c) ==
    /\ Len(chan[c]) < SubCap
    /\ chan' = [chan EXCEPT ![c] = Append(@, e)]

\* Mutant: one more than the channel holds.
OfferOffByOne(e, c) ==
    IF Len(chan[c]) <= SubCap THEN chan' = [chan EXCEPT ![c] = Append(@, e)] ELSE UNCHANGED chan

\* A subscriber whose channel is full misses the event.
Offer(e, c) ==
    IF Len(chan[c]) < SubCap THEN chan' = [chan EXCEPT ![c] = Append(@, e)] ELSE UNCHANGED chan

SendNext(e) ==
    /\ pub[e] = "fanOut"
    /\ sendTo[e] # <<>>
    /\ Offer(e, Head(sendTo[e]))
    /\ sendTo' = [sendTo EXCEPT ![e] = Tail(@)]
    /\ UNCHANGED <<pub, executionSubs, closed, clientVars, consumerVars, storeVars, starts>>

EndFanOut(e) ==
    /\ pub[e] = "fanOut"
    /\ sendTo[e] = <<>>
    /\ pub' = [pub EXCEPT ![e] = "append"]
    /\ UNCHANGED <<sendTo, executionSubs, chan, closed, clientVars, consumerVars, storeVars, starts>>

\* The XADD may add the entry or not, whatever it then reports; the engine only
\* logs a failure.  Trimming is approximate: never below MaxLen entries.
XAdd(e) ==
    /\ pub[e] = "append"
    /\ pub' = [pub EXCEPT ![e] = "returned"]
    /\ \/ /\ stream' = Append(stream, e)
          /\ \E t \in trimmed..Len(stream') :
                /\ t = trimmed \/ t <= Len(stream') - MaxLen
                /\ trimmed' = t
       \/ UNCHANGED <<stream, trimmed>>
    /\ UNCHANGED <<sendTo, executionSubs, chan, closed, clientVars, consumerVars, table, starts>>

Publish(e) == StartFanOut(e) \/ SendNext(e) \/ EndFanOut(e) \/ XAdd(e)

-------------------------------------------------------------------------------
(* The handler of /opportunities *)

SubscribeExecutions(c) ==
    /\ client[c] = "away"
    /\ WriteLock
    /\ executionSubs' = Append(executionSubs, c)
    /\ client' = [client EXCEPT ![c] = "connected"]
    /\ UNCHANGED <<pub, sendTo, chan, closed, shown, consumerVars, storeVars, starts>>

Show(c) ==
    /\ client[c] = "connected"
    /\ chan[c] # <<>>
    /\ shown' = [shown EXCEPT ![c] = Append(@, Head(chan[c]))]
    /\ chan' = [chan EXCEPT ![c] = Tail(@)]
    /\ UNCHANGED <<pub, sendTo, executionSubs, closed, client, consumerVars, storeVars, starts>>

\* The request ends; the deferred UnsubscribeExecutions still has to run.
Disconnect(c) ==
    /\ client[c] = "connected"
    /\ client' = [client EXCEPT ![c] = "leaving"]
    /\ UNCHANGED <<fanOutVars, shown, consumerVars, storeVars, starts>>

\* A registered channel is in the list, once; it is closed when it is found.
UnsubscribeExecutions(c) ==
    /\ client[c] = "leaving"
    /\ WriteLock
    /\ \E i \in DOMAIN executionSubs :
          executionSubs[i] = c /\ executionSubs' = RemoveAt(executionSubs, i)
    /\ closed' = [closed EXCEPT ![c] = TRUE]
    /\ client' = [client EXCEPT ![c] = "gone"]
    /\ UNCHANGED <<pub, sendTo, chan, shown, consumerVars, storeVars, starts>>

Serve(c) ==
    SubscribeExecutions(c) \/ Show(c) \/ Disconnect(c) \/ UnsubscribeExecutions(c)

-------------------------------------------------------------------------------
(* RunConsumer and flushStreams *)

\* The two streams of cursors.  No code publishes to the telemetry stream.
Streams == {"telemetry", "execution"}

Tick ==
    /\ consumer = "ticking"
    /\ consumer' = "flushing"
    /\ toRead' = Streams
    /\ UNCHANGED <<fanOutVars, clientVars, reading, cursor, batch, failCount, storeVars, starts>>

\* After a stream is dealt with: the next one, or the next tick.
NextStream == consumer' = IF toRead = {} THEN "ticking" ELSE "flushing"

\* The first entry a read from the cursor returns.
FirstUnread == (IF cursor < trimmed THEN trimmed ELSE cursor) + 1

\* What XREAD returns: positions of entries, at most BatchSize of them.
Unread ==
    LET last == IF Len(stream) < FirstUnread + BatchSize - 1
                THEN Len(stream) ELSE FirstUnread + BatchSize - 1
    IN [i \in 1..(last - FirstUnread + 1) |-> FirstUnread + i - 1]

HasUnread(s) == s = "execution" /\ Unread # <<>>

\* The map of cursors is ranged over in any order.
StartRead(s) ==
    /\ consumer = "flushing"
    /\ s \in toRead
    /\ reading' = s
    /\ toRead' = toRead \ {s}
    /\ consumer' = "reading"
    /\ UNCHANGED <<fanOutVars, clientVars, cursor, batch, failCount, storeVars, starts>>

ReadBatch ==
    /\ consumer = "reading"
    /\ HasUnread(reading)
    /\ batch' = Unread
    /\ consumer' = "inserting"
    /\ UNCHANGED <<fanOutVars, clientVars, toRead, reading, cursor, failCount, storeVars, starts>>

\* The connection to Redis fails; the cursor stays.  Nothing else ends a read that
\* finds no entry: with Block 0 the XREAD waits for one for ever, and the client,
\* made without ContextTimeoutEnabled, does not watch readCtx once it waits.
ReadFails ==
    /\ consumer = "reading"
    /\ NextStream
    /\ UNCHANGED <<fanOutVars, clientVars, toRead, reading, cursor, batch, failCount,
                   storeVars, starts>>

\* Mutant: the cursor also advances when the insert failed.
CursorAfterFailureAdvanced == Last(batch)

CursorAfterFailure == cursor

\* Mutant: the cursor is set to the entry before the last.
CursorAfterSuccessShort == Last(batch) - 1

CursorAfterSuccess == Last(batch)

\* Insert skips rows it cannot parse; none is skipped here, since every entry is
\* an event PublishExecution has marshalled.
InsertSucceeds ==
    /\ consumer = "inserting"
    /\ table' = table \o batch
    /\ cursor' = CursorAfterSuccess
    /\ failCount' = 0
    /\ batch' = <<>>
    /\ NextStream
    /\ UNCHANGED <<fanOutVars, clientVars, toRead, reading, stream, trimmed, starts>>

\* An error, after which the rows may nevertheless be committed: the answer to
\* the COPY was lost, or the context ended while it was on its way.
InsertFails ==
    /\ consumer = "inserting"
    /\ failCount < MaxFails
    /\ table' \in {table, table \o batch}
    /\ cursor' = CursorAfterFailure
    /\ failCount' = failCount + 1
    /\ batch' = <<>>
    /\ NextStream
    /\ UNCHANGED <<fanOutVars, clientVars, toRead, reading, stream, trimmed, starts>>

\* The context is cancelled.
StopConsumer ==
    /\ consumer = "ticking"
    /\ consumer' = "stopped"
    /\ UNCHANGED <<fanOutVars, clientVars, toRead, reading, cursor, batch, failCount,
                   storeVars, starts>>

-------------------------------------------------------------------------------
(* The process *)

\* The process ends at any point: what it held in memory is gone.
ProcessEnds ==
    /\ pub' = [e \in Events |-> IF pub[e] = "idle" THEN "idle" ELSE "returned"]
    /\ sendTo' = [e \in Events |-> <<>>]
    /\ client' = [c \in Clients |-> IF client[c] = "away" THEN "away" ELSE "gone"]
    /\ executionSubs' = <<>>
    /\ chan' = [c \in Clients |-> <<>>]
    /\ consumer' = "down" /\ toRead' = {} /\ batch' = <<>>
    /\ UNCHANGED <<closed, shown, reading, cursor, failCount, storeVars, starts>>

\* cursors start at "0", the beginning of the stream.
StartCursor == 0

ProcessStarts ==
    /\ consumer = "down"
    /\ starts < MaxStarts
    /\ starts' = starts + 1
    /\ consumer' = "ticking"
    /\ cursor' = StartCursor
    /\ failCount' = 0
    /\ UNCHANGED <<fanOutVars, clientVars, toRead, reading, batch, storeVars>>

-------------------------------------------------------------------------------
Consume ==
    \/ Tick \/ ReadBatch \/ ReadFails \/ InsertSucceeds \/ InsertFails
    \/ \E s \in Streams : StartRead(s)

Next ==
    \/ /\ Up
       /\ \/ \E e \in Events : Publish(e)
          \/ \E c \in Clients : Serve(c)
          \/ Consume \/ StopConsumer \/ ProcessEnds
    \/ ProcessStarts

Spec == Init /\ [][Next]_vars

\* Publishers and the consumer are scheduled; the database fails only for a time,
\* and Redis need not fail at all.  Clients need not read.
Fairness ==
    /\ \A e \in Events : WF_vars(Up /\ Publish(e) /\ pub[e] # "idle")
    /\ WF_vars(Tick)
    /\ WF_vars(\E s \in Streams : StartRead(s))
    /\ SF_vars(ReadBatch)
    /\ WF_vars(InsertSucceeds \/ InsertFails)
    /\ SF_vars(InsertSucceeds)

FairSpec == Spec /\ Fairness

-------------------------------------------------------------------------------
TypeOK ==
    /\ pub \in [Events -> {"idle", "fanOut", "append", "returned"}]
    /\ sendTo \in [Events -> Seq(Clients)]
    /\ client \in [Clients -> {"away", "connected", "leaving", "gone"}]
    /\ executionSubs \in Seq(Clients)
    /\ chan \in [Clients -> Seq(Events)]
    /\ \A c \in Clients : Len(chan[c]) <= SubCap
    /\ closed \in [Clients -> BOOLEAN]
    /\ shown \in [Clients -> Seq(Events)]
    /\ stream \in Seq(Events) /\ trimmed \in 0..Len(stream)
    /\ consumer \in {"ticking", "flushing", "reading", "inserting", "stopped", "down"}
    /\ toRead \subseteq Streams /\ reading \in Streams
    /\ cursor \in 0..Len(stream)
    /\ batch \in Seq(1..Len(stream))
    /\ failCount \in 0..MaxFails
    /\ table \in Seq(1..Len(stream))
    /\ starts \in 1..MaxStarts

\* A send on a closed channel would fault the process in the middle of an
\* execution: a fan-out under way never has a closed channel before it, however
\* clients come and go.
NeverSendsOnClosed ==
    \A e \in Events, c \in Clients :
        pub[e] = "fanOut" /\ closed[c] => ~Contains(sendTo[e], c)

Inserted == ToSet(table)

\* The cursor never passes an entry that is not in the database, except one
\* that Redis trimmed before it could be read.
CursorPassesInserted ==
    \A id \in 1..cursor : id \in Inserted \/ id <= trimmed

\* An entry is copied a second time only by a process started again or on the
\* retry of an insert that reported a failure.
CopiedTwiceOnlyOnRetry ==
    [][table' # table /\ ToSet(batch) \intersect Inserted # {} => failCount > 0 \/ starts > 1]_vars

Settled(id) == id \in Inserted \/ id <= trimmed \/ consumer \in {"stopped", "down"}

\* Whatever was appended is copied, trimmed, or waits for the process to be
\* started again, whatever fails on the way; the one thing that can keep it from
\* the database for good is a read of the telemetry stream that never returns.
CopiedUnlessReadBlocks ==
    \A id \in 1..Cardinality(Events) :
        Len(stream) >= id ~> (Settled(id) \/ [](consumer = "reading" /\ reading = "telemetry"))

\* A client that does not read its channel never holds up a publisher.
PublishReturns ==
    \A e \in Events : pub[e] = "fanOut" ~> pub[e] = "returned"

-------------------------------------------------------------------------------
(* Statements of the source's comments that its steps do not keep *)

\* "Consumer started - flushing every" StreamFlushInterval: what was appended to
\* the stream is copied in the end.
AppendedIsCopied ==
    \A id \in 1..Cardinality(Events) : Len(stream) >= id ~> Settled(id)

\* "Do NOT advance cursor - re-read next tick (at-least-once)": after an insert
\* that failed, the entry it began with is there for the next tick to read, unless
\* the rows were committed after all.
RetryFindsBatch ==
    [][failCount > 0 /\ cursor' = cursor
          => FirstUnread \in Inserted \/ FirstUnread' = FirstUnread]_vars
===============================================================================
