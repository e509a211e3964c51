---------------------------- MODULE AdapterContract ----------------------------
(***************************************************************************)
(* What SubmitIOC of an adapter may answer, given what the venue executes  *)
(* of the order in the end: the FillResult of internal/exchange/adapter.go *)
(* reduced to its flag and its quantity.  The execution engine is modelled *)
(* over this contract, and the adapters are checked against it.            *)
(***************************************************************************)
EXTENDS Integers

CONSTANT AnswerKinds      \* how adapters may report: exact, early, unflagged

Flagged(n) == [filled |-> n > 0, reported |-> n]

\* exact: what was executed (Kraken adds up the fills of the response).
ExactAnswers(executed) == IF "exact" \in AnswerKinds THEN {Flagged(executed)} ELSE {}

\* early: a poll or an execution report seen before the venue is through, or an
\* error with nothing reported.
EarlyAnswers(executed) ==
    IF "early" \in AnswerKinds THEN {Flagged(n) : n \in 0..executed} ELSE {}

\* unflagged: an order partly filled and then cancelled or expired, reported
\* with its quantity but as not filled.
UnflaggedAnswers(qty, executed) ==
    IF "unflagged" \in AnswerKinds /\ 0 < executed /\ executed < qty
    THEN {[filled |-> FALSE, reported |-> executed]} ELSE {}

Answers(qty, executed) ==
    ExactAnswers(executed) \union EarlyAnswers(executed) \union UnflaggedAnswers(qty, executed)
===============================================================================
