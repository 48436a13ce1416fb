---------------------------- MODULE EgressBudget ----------------------------
(***************************************************************************)
(* The metered budget of one run's recording proxy (egress/recording.py)   *)
(* and the requests that draw on it. The proxy serves every connection in  *)
(* a thread of its own (egress/listener.py, ThreadingTCPServer), and all   *)
(* of them share one Budget: each of its methods is atomic under its lock, *)
(* and the steps of different requests interleave between them.            *)
(*                                                                         *)
(* A route's policy, its token bounds and prices are abstracted to the     *)
(* amount reserved for a request and the amount the provider bills for it. *)
(* The metadata record a request appends last concerns only itself, and is *)
(* part of the step that ends the request.                                 *)
(***************************************************************************)
EXTENDS Integers, FiniteSets, FiniteSetsExt

CONSTANTS
    Requests,   \* connections of the run's proxy, one request each
    Total,      \* budget_usd_micros
    Worst,      \* what a route may reserve for a request
    Bills       \* what a provider may bill for one

ASSUME EgressAssumption ==
    /\ IsFiniteSet(Requests)
    /\ Total \in Nat
    /\ Worst \subseteq Nat /\ Bills \subseteq Nat

VARIABLES
    spent,      \* Budget.spent
    reserved,   \* Budget._reserved, -1 once the budget is closed
    request     \* per request: where it stands, what it reserved, what it was billed

egressVars == <<spent, reserved, request>>

Stages == {"new", "refused", "secret", "unsent", "sent", "observed", "exceeded", "unknown",
           "metered", "breaking", "breached", "unmetered", "abandoned"}

EgressInit ==
    /\ spent = 0
    /\ reserved = 0
    /\ request = [r \in Requests |-> [at |-> "new", held |-> 0, billed |-> 0]]

At(r, stage) == request[r].at = stage
Goto(r, stage) == request' = [request EXCEPT ![r].at = stage]
Bill(r, stage, bill) == request' = [request EXCEPT ![r].at = stage, ![r].billed = bill]

-----------------------------------------------------------------------------
(***************************************************************************)
(* Budget                                                                  *)
(***************************************************************************)
\* Mutant of Remaining: what other requests hold is forgotten.
RemainingUnspent == Total - spent

Remaining == Total - spent - reserved

Covers(worst) == reserved >= 0 /\ worst <= Remaining

\* Mutant of Committed: no floor at zero.
CommittedBelowZero(held) == reserved - held

Committed(held) == IF reserved - held > 0 THEN reserved - held ELSE 0

\* Mutant of Charged: a failed request costs nothing.
ChargedNothing(held) == spent

\* uncertain(reservation): the reservation counts as spent.
Charged(held) == spent + held

-----------------------------------------------------------------------------
(***************************************************************************)
(* forward and forward_stream                                              *)
(***************************************************************************)
\* authorize, the credential check, or reserve refuses the request; reserve
\* raises BudgetExceeded when the budget is closed or does not cover it.
Refuse(r) ==
    /\ At(r, "new")
    /\ Goto(r, "refused")
    /\ UNCHANGED <<spent, reserved>>

Reserve(r, worst) ==
    /\ At(r, "new")
    /\ Covers(worst)
    /\ reserved' = reserved + worst
    /\ request' = [request EXCEPT ![r].at = "secret", ![r].held = worst]
    /\ UNCHANGED spent

\* The credential cannot be resolved: nothing was sent, and the budget closes.
LoseSecret(r) ==
    /\ At(r, "secret")
    /\ reserved' = -1
    /\ spent' = Charged(request[r].held)
    /\ Goto(r, "unsent")

Send(r) ==
    /\ At(r, "secret")
    /\ Goto(r, "sent")
    /\ UNCHANGED <<spent, reserved>>

\* The answer, or the end of the stream, states the usage. The bounds held
\* when neither token count exceeds what was declared, which makes the bill at
\* most the reservation; an exceeded count need not make it more.
Observe(r, bill) ==
    /\ At(r, "sent")
    /\ \E found \in {"observed", "exceeded"} :
        /\ bill > request[r].held => found = "exceeded"
        /\ Bill(r, found, bill)
    /\ UNCHANGED <<spent, reserved>>

\* No usage: a transport error, an answer or a stream without a usage block.
\* The provider may have billed within the bounds nevertheless.
Fail(r, bill) ==
    /\ At(r, "sent")
    /\ bill <= request[r].held
    /\ Bill(r, "unknown", bill)
    /\ UNCHANGED <<spent, reserved>>

\* The connection to the case breaks while a stream is relayed: respond_stream
\* drops the generator, whose except clause does not see GeneratorExit (nor an
\* error of the upstream connection it does not list).
Abandon(r, bill) ==
    /\ At(r, "sent")
    /\ bill <= request[r].held
    /\ Bill(r, "abandoned", bill)
    /\ UNCHANGED <<spent, reserved>>

Commit(r) ==
    /\ request[r].at \in {"observed", "exceeded"}
    /\ reserved' = Committed(request[r].held)
    /\ spent' = spent + request[r].billed
    /\ Goto(r, IF At(r, "exceeded") THEN "breaking" ELSE "metered")

\* uncertain() without a reservation: the bound is disproven.
Breach(r) ==
    /\ At(r, "breaking")
    /\ reserved' = -1
    /\ Goto(r, "breached")
    /\ UNCHANGED spent

Close(r) ==
    /\ At(r, "unknown")
    /\ reserved' = -1
    /\ spent' = Charged(request[r].held)
    /\ Goto(r, "unmetered")

EgressNext ==
    \E r \in Requests :
        \/ Refuse(r) \/ LoseSecret(r) \/ Send(r) \/ Commit(r) \/ Breach(r) \/ Close(r)
        \/ \E worst \in Worst : Reserve(r, worst)
        \/ \E bill \in Bills : Observe(r, bill) \/ Fail(r, bill) \/ Abandon(r, bill)

EgressSpec == EgressInit /\ [][EgressNext]_egressVars

-----------------------------------------------------------------------------
(***************************************************************************)
(* Properties                                                              *)
(***************************************************************************)
\* Budget and requests have their types; the closed budget is -1 and nothing
\* else is negative (Budget).
EgressTypeOK ==
    /\ spent \in Nat
    /\ reserved \in Nat \cup {-1}
    /\ request \in [Requests -> [at : Stages, held : Worst \cup {0}, billed : Bills \cup {0}]]

\* Requests the proxy could not meter, or that disproved their bound.
Unmeasured == {r \in Requests : request[r].at \in {"unsent", "unmetered", "breached"}}

\* Requests that found their bound wrong.
Broke == {r \in Requests : request[r].at \in {"exceeded", "breaking", "breached"}}

Billed(R) == SumFunctionOnSet([r \in Requests |-> request[r].billed], R)

\* However the requests of a run interleave, and whatever they leave behind,
\* the providers bill no more than the budget until a request turns out
\* unmeterable or its bound wrong ("Worst-case reservation + observed-spend
\* reconciliation for one run", Budget).
BudgetHonored == Unmeasured \cup Broke = {} => Billed(Requests) <= Total

Accounted == {r \in Requests : request[r].at \in {"metered", "breaking", "breached", "unmetered"}}
Abandoned == {r \in Requests : At(r, "abandoned")}

\* What the budget counts as spent covers the bill of every request it settled,
\* also of those whose bill nobody could read (Budget.uncertain). An abandoned
\* stream is never settled: its bill, like those still to come, is covered by
\* what stays reserved, until an unmeterable request closes the budget.
SpentCoversBills ==
    /\ Billed(Accounted) <= spent
    /\ Unmeasured \cup Broke = {} => Billed(Requests) <= spent + reserved

Forwards == \E r \in Requests : At(r, "new") /\ request'[r].at = "secret"

\* recording.py, Budget: "nothing further may be forwarded under an
\* unmeasurable run", so no reservation is granted after the budget closed.
NothingForwardedUnmeasured == [][Unmeasured # {} => ~Forwards]_egressVars

\* recording.py, module: "Unknown usage or pricing for any observed request
\* fails closed and closes the run budget", so none is granted either after a
\* stream was abandoned, whose usage nobody knows. The code violates it
\* (README.md, 4).
NothingForwardedAfterAbandoned == [][Abandoned # {} => ~Forwards]_egressVars
=============================================================================
