--------------------------------- MODULE Host ---------------------------------
(***************************************************************************)
(* The process around the adapters: main's startup with its health gate    *)
(* and its shutdown (cmd/arbitron/main.go), HealthCheckAll of the registry *)
(* (internal/exchange/adapter.go), and the gateway's server and its        *)
(* /health handler (internal/telemetry/gateway.go).  Orders are submitted  *)
(* from the start of the engine to the end of the process.                 *)
(*                                                                         *)
(* HealthCheckAll asks one venue after the other, in the order of a map,   *)
(* under one deadline for all of them.  main returns through the deferred  *)
(* Close of the database pool, which waits for the connection of a COPY.   *)
(***************************************************************************)
EXTENDS RestAdapters

VARIABLES
    main,             \* where main is
    signalled,        \* a signal is in sigCh, or was received from it
    check,            \* the call of HealthCheckAll under way
    gateway,          \* where the gateway's ListenAndServe is
    copying           \* the stream consumer holds a connection of the pool

hostVars == <<main, signalled, check, gateway, copying>>
vars == <<restVars, hostVars>>

NoCheck == [by |-> "none", toAsk |-> 0, late |-> FALSE, allHealthy |-> TRUE]

Init ==
    /\ RestInit
    /\ main = "connecting"
    /\ signalled = FALSE
    /\ check = NoCheck
    /\ gateway = "none"
    /\ copying = FALSE

-------------------------------------------------------------------------------
(* HealthCheckAll *)

StartCheck(by) ==
    check' = [NoCheck EXCEPT !.by = by, !.toAsk = Cardinality(DOMAIN Adapters)]

\* One HealthCheck.  With the deadline passed it ends by itself, in an error
\* unless the adapter asks nobody, as FIX and the synthetic venue.
HealthCheck ==
    /\ check.toAsk > 0
    /\ \E ok \in BOOLEAN :
          check' = [check EXCEPT !.toAsk = @ - 1, !.allHealthy = @ /\ ok]
    /\ UNCHANGED <<restVars, main, signalled, gateway, copying>>

DeadlinePasses ==
    /\ check.by # "none" /\ ~check.late
    /\ check' = [check EXCEPT !.late = TRUE]
    /\ UNCHANGED <<restVars, main, signalled, gateway, copying>>

-------------------------------------------------------------------------------
(* main *)

\* The database, Redis and the FIX session, one after the other; a failure ends
\* the process.  The ping of the database has no deadline.
Connects ==
    /\ main = "connecting"
    /\ \/ main' = "gate" /\ StartCheck("main")
       \/ main' = "exited" /\ UNCHANGED check
    /\ UNCHANGED <<restVars, signalled, gateway, copying>>

\* With every venue healthy the feeds, the engine, the detector and the gateway
\* are started; otherwise the process ends without running what it deferred.
PassesGate ==
    /\ main = "gate"
    /\ check.toAsk = 0
    /\ IF check.allHealthy
       THEN main' = "running" /\ gateway' = "serving"
       ELSE main' = "exited" /\ UNCHANGED gateway
    /\ check' = NoCheck
    /\ UNCHANGED <<restVars, signalled, copying>>

Signal ==
    /\ ~signalled
    /\ signalled' = TRUE
    /\ UNCHANGED <<restVars, main, check, gateway, copying>>

\* The signal is received only once everything has been started.
Cancels ==
    /\ main = "running"
    /\ signalled
    /\ rootDone' = TRUE
    /\ main' = "grace"
    /\ UNCHANGED <<caller, adapter, route, timer, answer, resultCh, result, venue,
                   signalled, check, gateway, copying>>

\* Three seconds, whatever is still running.
GraceEnds ==
    /\ main = "grace"
    /\ main' = "closing"
    /\ UNCHANGED <<restVars, signalled, check, gateway, copying>>

ClosesPool ==
    /\ main = "closing"
    /\ ~copying
    /\ main' = "exited"
    /\ UNCHANGED <<restVars, signalled, check, gateway, copying>>

Main == Connects \/ PassesGate \/ Cancels \/ GraceEnds \/ ClosesPool

-------------------------------------------------------------------------------
(* The consumer's COPY, as far as main waits for it *)

StartsCopy ==
    /\ main # "connecting" /\ ~rootDone
    /\ ~copying
    /\ copying' = TRUE
    /\ UNCHANGED <<restVars, main, signalled, check, gateway>>

EndsCopy ==
    /\ copying
    /\ copying' = FALSE
    /\ UNCHANGED <<restVars, main, signalled, check, gateway>>

\* Mutant: Insert is given a context that nothing cancels.
DetachedCopy == FALSE

\* Insert is given the context of the process.
CopyCancelled == rootDone

AbortsCopy == CopyCancelled /\ EndsCopy

-------------------------------------------------------------------------------
(* The gateway *)

\* One call of /health at a time.
HealthRequest ==
    /\ gateway = "serving"
    /\ check.by = "none"
    /\ StartCheck("health")
    /\ UNCHANGED <<restVars, main, signalled, gateway, copying>>

HealthAnswered ==
    /\ check.by = "health"
    /\ check.toAsk = 0
    /\ check' = NoCheck
    /\ UNCHANGED <<restVars, main, signalled, gateway, copying>>

\* The server cannot listen, which is only logged; or it is shut down with the
\* context, for at most two seconds, since nothing tells the event streams.
ServerEnds ==
    /\ gateway = "serving"
    /\ gateway' \in {"failed"} \union (IF rootDone THEN {"closed"} ELSE {})
    /\ UNCHANGED <<restVars, main, signalled, check, copying>>

-------------------------------------------------------------------------------
Caller(o) ==
    /\ \/ main \in {"running", "grace", "closing"} /\ Call(o)
       \/ Returns(o)
    /\ UNCHANGED hostVars

Timeout(o) == TimerFires(o) /\ UNCHANGED hostVars

Adapter(o) == (Hands(o) \/ SubmitIOC(o)) /\ UNCHANGED hostVars

\* What a venue has been sent it may execute after the process has ended.
AtVenue(o) == Venue(o) /\ UNCHANGED hostVars

Running == main # "exited"

Next ==
    \/ /\ Running
       /\ \/ Main \/ Signal
          \/ HealthCheck \/ DeadlinePasses
          \/ StartsCopy \/ EndsCopy
          \/ HealthRequest \/ HealthAnswered \/ ServerEnds
          \/ \E o \in Orders : Caller(o) \/ Timeout(o) \/ Adapter(o)
    \/ \E o \in Orders : AtVenue(o)

Spec == Init /\ [][Next]_vars

\* Timers and deadlines end; main, callers and the goroutines of submitIOC are
\* scheduled where the code, and not a venue or the database, owes the step.
Fairness ==
    /\ WF_vars(PassesGate \/ Cancels \/ GraceEnds \/ ClosesPool)
    /\ WF_vars(Running /\ DeadlinePasses)
    /\ WF_vars(Running /\ check.late /\ HealthCheck)
    /\ WF_vars(Running /\ AbortsCopy)
    /\ \A o \in Orders :
          /\ WF_vars(Running /\ ((Returns(o) /\ UNCHANGED hostVars) \/ Timeout(o)))
          /\ WF_vars(Running /\ UNCHANGED hostVars
                       /\ (Refused(o) \/ Posts(o) \/ Aborted(o) \/ SyntheticFills(o) \/ Hands(o)))

FairSpec == Spec /\ Fairness

-------------------------------------------------------------------------------
TypeOK ==
    /\ RestTypeOK
    /\ main \in {"connecting", "gate", "running", "grace", "closing", "exited"}
    /\ signalled \in BOOLEAN /\ copying \in BOOLEAN
    /\ check \in [by : {"none", "main", "health"}, late : BOOLEAN,
                  toAsk : 0..Cardinality(DOMAIN Adapters), allHealthy : BOOLEAN]
    /\ gateway \in {"none", "serving", "failed", "closed"}

\* submitIOC returns, and the goroutine it started ends, whatever the venue
\* leaves unanswered; only the end of the process cuts them off.
CallsEnd ==
    \A o \in Orders :
        caller[o] = "waiting" ~>
            (caller[o] = "returned" /\ adapter[o] = "ended") \/ main = "exited"

\* A signal ends the process once its connections are up: not a venue that
\* leaves its probe unanswered, nor an open stream, nor a COPY the database does
\* not answer keeps it.
SignalEndsProcess ==
    signalled /\ main # "connecting" ~> main = "exited"
===============================================================================
