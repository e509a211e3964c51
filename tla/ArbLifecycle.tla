----------------------------- MODULE ArbLifecycle -----------------------------
(***************************************************************************)
(* What the execution engine promises the rest of the system about an      *)
(* opportunity, whatever the venues do: it is turned away, or it is open   *)
(* for a while during which no other opportunity on its symbol is open; in *)
(* that time exactly one outcome is published for it, and only then does   *)
(* it close and free the symbol.                                           *)
(***************************************************************************)
CONSTANTS Opps, SymbolOf, Outcome

VARIABLES
    status,           \* waiting, open, closed or turnedAway
    announced         \* announced[o]: the outcomes published for o, in order

lifecycle == <<status, announced>>

Status == {"waiting", "open", "closed", "turnedAway"}

Init ==
    /\ status = [o \in Opps |-> "waiting"]
    /\ announced = [o \in Opps |-> <<>>]

TurnAway(o) ==
    /\ status[o] = "waiting"
    /\ status' = [status EXCEPT ![o] = "turnedAway"]
    /\ UNCHANGED announced

Open(o) ==
    /\ status[o] = "waiting"
    /\ \A other \in Opps : SymbolOf[other] = SymbolOf[o] => status[other] # "open"
    /\ status' = [status EXCEPT ![o] = "open"]
    /\ UNCHANGED announced

Announce(o, out) ==
    /\ status[o] = "open"
    /\ announced[o] = <<>>
    /\ announced' = [announced EXCEPT ![o] = <<out>>]
    /\ UNCHANGED status

Close(o) ==
    /\ status[o] = "open"
    /\ announced[o] # <<>>
    /\ status' = [status EXCEPT ![o] = "closed"]
    /\ UNCHANGED announced

Next ==
    \E o \in Opps :
        \/ TurnAway(o) \/ Open(o) \/ Close(o)
        \/ \E out \in Outcome : Announce(o, out)

Spec == Init /\ [][Next]_lifecycle
===============================================================================
