------------------------------ MODULE FeedManager ------------------------------
(***************************************************************************)
(* The feed manager of internal/exchange/feed_manager.go: one goroutine of *)
(* runFeed for each venue, which connects, reads until the connection      *)
(* drops, and connects again after a backoff.  What a message that was     *)
(* read is handed to is left to the module that composes this one.         *)
(*                                                                         *)
(* Timers may fire at any time: the read deadline of half a second, the    *)
(* stale ticker and the backoff are each a possible step.  The counters of *)
(* FeedHealth, which nothing reads but the dashboard, are left out.        *)
(***************************************************************************)
EXTENDS Integers

CONSTANTS
    Venues,
    MaxAttempts       \* bound: attempt is only compared with 0, and saturates

ASSUME FeedAssumption == MaxAttempts \in Nat \ {0}

VARIABLES
    feed,             \* feed[v]: where runFeed and readLoop of v are
    circuit,          \* circuit[v]: FeedHealth.State
    attempt,          \* attempt[v]
    conn,             \* conn[v]: whether v has an open connection
    ctxDone           \* the root context is cancelled

feedVars == <<feed, circuit, attempt, conn>>

FeedInit ==
    /\ feed = [v \in Venues |-> "top"]
    /\ circuit = [v \in Venues |-> "CLOSED"]
    /\ attempt = [v \in Venues |-> 0]
    /\ conn = [v \in Venues |-> FALSE]

At(v, point) == feed' = [feed EXCEPT ![v] = point]
SetState(v, state) == circuit' = [circuit EXCEPT ![v] = state]
NextAttempt(v) ==
    attempt' = [attempt EXCEPT ![v] = IF @ < MaxAttempts THEN @ + 1 ELSE @]

\* Mutant: the loop never looks at the context.
NeverCancelled == FALSE

Cancelled == ctxDone

FeedStops(v) ==
    /\ feed[v] = "top"
    /\ Cancelled
    /\ SetState(v, "CLOSED")
    /\ At(v, "stopped")
    /\ UNCHANGED <<attempt, conn>>

StartAttempt(v) ==
    /\ feed[v] = "top"
    /\ ~Cancelled
    /\ IF attempt[v] > 0
       THEN SetState(v, "HALF_OPEN") /\ At(v, "backoff")
       ELSE UNCHANGED circuit /\ At(v, "dial")
    /\ UNCHANGED <<attempt, conn>>

BackoffOver(v) ==
    /\ feed[v] = "backoff"
    /\ At(v, "dial")
    /\ UNCHANGED <<circuit, attempt, conn>>

\* The return out of the backoff does not set the state.
BackoffCancelled(v) ==
    /\ feed[v] = "backoff"
    /\ Cancelled
    /\ At(v, "stopped")
    /\ UNCHANGED <<circuit, attempt, conn>>

DialFails(v) ==
    /\ feed[v] = "dial"
    /\ NextAttempt(v)
    /\ At(v, "top")
    /\ UNCHANGED <<circuit, conn>>

\* Mutant: the circuit waits for the first message, which sets nothing.
CircuitOnConnectKept(v) == UNCHANGED circuit

CircuitOnConnect(v) == SetState(v, "OPEN")

DialSucceeds(v) ==
    /\ feed[v] = "dial"
    /\ CircuitOnConnect(v)
    /\ attempt' = [attempt EXCEPT ![v] = 0]
    /\ conn' = [conn EXCEPT ![v] = TRUE]
    /\ At(v, "read")

\* readLoop closes the connection and returns true: the read failed, found no
\* message within its deadline, or the stale ticker fired.
ReadDrops(v) ==
    /\ feed[v] = "read"
    /\ conn' = [conn EXCEPT ![v] = FALSE]
    /\ At(v, "dropped")
    /\ UNCHANGED <<circuit, attempt>>

\* Mutant: a dropped connection ends the goroutine.
AfterDropReturned(v) == At(v, "stopped")

AfterDrop(v) == At(v, "top")

Dropped(v) ==
    /\ feed[v] = "dropped"
    /\ SetState(v, "CLOSED")
    /\ NextAttempt(v)
    /\ AfterDrop(v)
    /\ UNCHANGED conn

\* readLoop closes the connection and returns false.
ReadCancelled(v) ==
    /\ feed[v] = "read"
    /\ Cancelled
    /\ conn' = [conn EXCEPT ![v] = FALSE]
    /\ At(v, "top")
    /\ UNCHANGED <<circuit, attempt>>

RunFeed(v) ==
    \/ FeedStops(v) \/ StartAttempt(v) \/ BackoffOver(v) \/ BackoffCancelled(v)
    \/ DialFails(v) \/ DialSucceeds(v) \/ ReadDrops(v) \/ Dropped(v) \/ ReadCancelled(v)

FeedTypeOK ==
    /\ feed \in [Venues -> {"top", "backoff", "dial", "read", "dropped", "stopped"}]
    /\ circuit \in [Venues -> {"OPEN", "CLOSED", "HALF_OPEN"}]
    /\ attempt \in [Venues -> 0..MaxAttempts]
    /\ conn \in [Venues -> BOOLEAN]
    /\ ctxDone \in BOOLEAN
===============================================================================
