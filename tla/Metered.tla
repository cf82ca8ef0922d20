------------------------------- MODULE Metered -------------------------------
(***************************************************************************)
(* What a walk promises to the reservation it runs under: it settles the   *)
(* session once and for good, it bills only after something was sent       *)
(* upstream, and it lets the session go unsettled only if nothing was.     *)
(***************************************************************************)
VARIABLES
    session,        \* "open", "settled" or "dropped"
    dispatched,     \* was anything sent upstream
    billed          \* does the settlement carry metered usage

meteredVars == <<session, dispatched, billed>>

Init == session = "open" /\ dispatched = FALSE /\ billed = FALSE

Dispatch ==
    /\ session = "open"
    /\ dispatched' = TRUE
    /\ UNCHANGED <<session, billed>>

Settle ==
    /\ session = "open"
    /\ session' = "settled"
    /\ billed' \in {FALSE, dispatched}
    /\ UNCHANGED dispatched

Drop ==
    /\ session = "open" /\ ~dispatched
    /\ session' = "dropped"
    /\ UNCHANGED <<dispatched, billed>>

Next == Dispatch \/ Settle \/ Drop

Spec == Init /\ [][Next]_meteredVars
=============================================================================
