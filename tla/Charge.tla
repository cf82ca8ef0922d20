------------------------------- MODULE Charge -------------------------------
(***************************************************************************)
(* What prepaid billing promises of a request, without the machinery: an   *)
(* amount is held when the request is admitted, and the hold ends once, by *)
(* a bill of at most that amount, by an operator giving it up, or by being *)
(* let go because nothing shows the request ever ran.  The bill and the    *)
(* owner's funds move together.                                            *)
(***************************************************************************)
EXTENDS Integers

CONSTANTS Requests, Users, Owner

VARIABLES
    account,    \* how far each request's charge is
    hold,       \* what was held for it
    paid,       \* what it was billed
    funds       \* each user's prepaid balance

chargeVars == <<account, hold, paid, funds>>

Init ==
    /\ account = [r \in Requests |-> "none"]
    /\ hold = [r \in Requests |-> 0]
    /\ paid = [r \in Requests |-> 0]
    /\ funds \in [Users -> Int]

\* A request is admitted; admissions are when old holds are let go.
Hold(r) ==
    /\ account[r] = "none"
    /\ \E idle \in SUBSET {q \in Requests : account[q] = "held"} :
        account' = [q \in Requests |-> IF q = r THEN "held"
                                       ELSE IF q \in idle THEN "void"
                                       ELSE account[q]]
    /\ hold'[r] \in Nat /\ hold' = [hold EXCEPT ![r] = hold'[r]]
    /\ UNCHANGED <<paid, funds>>

\* The only step that bills, and the only one that ends a hold with money.
Bill(r) ==
    /\ account[r] = "held"
    /\ account' = [account EXCEPT ![r] = "billed"]
    /\ \E amount \in 0..hold[r] :
        /\ paid' = [paid EXCEPT ![r] = amount]
        /\ funds' = [funds EXCEPT ![Owner[r]] = @ - amount]
    /\ UNCHANGED hold

\* An operator closes the account without a bill.
GiveUp(r) ==
    /\ account[r] = "held"
    /\ account' = [account EXCEPT ![r] = "waived"]
    /\ UNCHANGED <<hold, paid, funds>>

\* Credit is bought or taken back.
Fund(u) ==
    /\ funds'[u] \in Int /\ funds' = [funds EXCEPT ![u] = funds'[u]]
    /\ UNCHANGED <<account, hold, paid>>

Next ==
    \/ \E r \in Requests : Hold(r) \/ Bill(r) \/ GiveUp(r)
    \/ \E u \in Users : Fund(u)

Spec == Init /\ [][Next]_chargeVars
=============================================================================
