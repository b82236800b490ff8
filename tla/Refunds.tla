------------------------------ MODULE Refunds ------------------------------
(***************************************************************************)
(* Refunds of one completed transaction: RefundService.createRefund        *)
(* (services/refund.ts), the durable workflow that follows a refund at the *)
(* gateway (workflows/refund-reconciliation.ts) and the sweep that starts  *)
(* it again (sweepStuckRefunds in services/reconciliation.ts).             *)
(*                                                                         *)
(* What interleaves.  Requests, workflow instances and sweeps run at the   *)
(* same time; a request is a chain of D1 statements and one gateway call,  *)
(* with an await between any two, and may end at any of them.  A workflow  *)
(* step is remembered once it has succeeded: an instance never goes back,  *)
(* and works with the record its first step loaded.                        *)
(*                                                                         *)
(* What is abstracted.  Amounts are whole minor units (the tolerance of    *)
(* 0.001 in the checks is less than one of them).  The ledger is the       *)
(* set of refunds it holds a reversal of (LedgerDO: once per tx_id).  An   *)
(* instance stands for refund-{id} (n = 0) or refund-{id}-sweep-{n}.  Time *)
(* is: a refund is or is not older than REFUND_STUCK_MS.                   *)
(***************************************************************************)
EXTENDS Integers, FiniteSets, FiniteSetsExt

CONSTANTS
    Refunds,        \* refund requests for the transaction
    Amount,         \* Amount[r] the request asks for
    Captured,       \* amount of the transaction
    Sweepers,       \* concurrent sweeps (the daily workflow, an operator)
    MaxAttempts,    \* MAX_REFUND_WORKFLOW_ATTEMPTS
    MaxPolls,       \* REFUND_POLL_MAX_ATTEMPTS
    MaxFaults       \* bound: requests, instances and sweeps that end early

ASSUME AmountAssumption == Captured \in Nat /\ \A r \in Refunds : Amount[r] \in Nat \ {0}
ASSUME LimitAssumption ==
    MaxAttempts \in Nat /\ MaxPolls \in Nat \ {0} /\ MaxFaults \in Nat

Runs == 0 .. MaxAttempts

VARIABLES
    status,     \* op_refunds.status
    recorded,   \* refunds whose gateway_refund_id is stored
    attempts,   \* op_refunds.workflow_attempts
    request,    \* how far the request of each refund is
    gateway,    \* what has become of it at the gateway
    flow,       \* flow[r][n]: how far an instance is, and whether it loaded an id
    sweep,      \* sweep[k]: rows it has left, with the attempts it read
    stuck,      \* refunds older than REFUND_STUCK_MS
    reversed,   \* refunds the ledger holds a reversal of
    notified,   \* refunds a refund.completed webhook was dispatched for
    faults

table   == <<status, recorded, attempts>>
outcome == <<reversed, notified>>
vars == <<table, request, gateway, flow, sweep, stuck, outcome, faults>>

Put(f, r, v) == [f EXCEPT ![r] = v]

-----------------------------------------------------------------------------
(***************************************************************************)
(* createRefund                                                            *)
(***************************************************************************)
Reserved == {r \in Refunds : status[r] \in {"pending", "completed"}}

Exceeds(r) == MapThenSumSet(LAMBDA s : Amount[s], Reserved) + Amount[r] > Captured

Proceed(r, place) == request' = Put(request, r, place)

\* The first look at the sum, before anything is written.
createRefund(r) ==
    /\ request[r] = "new"
    /\ Proceed(r, IF Exceeds(r) THEN "over" ELSE "reserve")
    /\ UNCHANGED <<table, gateway, flow, sweep, stuck, outcome, faults>>

\* Mutant of Reserve: the INSERT relies on the first look.
ReserveUnchecked(r) ==
    /\ request[r] = "reserve"
    /\ status' = Put(status, r, "pending")
    /\ Proceed(r, "call")
    /\ UNCHANGED <<recorded, attempts, gateway, flow, sweep, stuck, outcome, faults>>

\* INSERT ... SELECT ... WHERE the sum still allows it.
Reserve(r) ==
    /\ request[r] = "reserve"
    /\ status' = IF Exceeds(r) THEN status ELSE Put(status, r, "pending")
    /\ Proceed(r, IF Exceeds(r) THEN "over" ELSE "call")
    /\ UNCHANGED <<recorded, attempts, gateway, flow, sweep, stuck, outcome, faults>>

\* adapter.refund(): the gateway takes the refund and its answer arrives, is
\* lost or without an id, or is one the adapter does not read as a success; it
\* refuses; or it is never asked (no gateway, no credentials, an exception),
\* which goes on to the workflow as well.
AskGateway(r) ==
    /\ request[r] = "call"
    /\ \/ /\ gateway' = Put(gateway, r, "pending")
          /\ Proceed(r, "record") \/ Proceed(r, "trigger") \/ Proceed(r, "refused")
       \/ /\ Proceed(r, "refused") \/ Proceed(r, "trigger")
          /\ UNCHANGED gateway
    /\ UNCHANGED <<table, flow, sweep, stuck, outcome, faults>>

\* The UPDATE that stores the id; if it throws the error is caught and paged.
RecordId(r) ==
    /\ request[r] = "record"
    /\ recorded' \in {recorded, recorded \cup {r}}
    /\ Proceed(r, "trigger")
    /\ UNCHANGED <<status, attempts, gateway, flow, sweep, stuck, outcome, faults>>

\* REFUND_NOT_SUPPORTED releases the reservation; an UPDATE that throws is
\* caught and goes on to the workflow.
MarkUnsupported(r) ==
    /\ request[r] = "refused"
    /\ \/ status' = Put(status, r, "failed") /\ Proceed(r, "over")
       \/ Proceed(r, "trigger") /\ UNCHANGED status
    /\ UNCHANGED <<recorded, attempts, gateway, flow, sweep, stuck, outcome, faults>>

Absent   == [at |-> "none", id |-> FALSE, polls |-> 0]
Instance == [at |-> "load", id |-> FALSE, polls |-> 0]

\* Idempotent by the id of the instance.
triggerRefundReconciliation(r, n) ==
    flow' = IF flow[r][n].at = "none" THEN Put(flow, r, Put(flow[r], n, Instance)) ELSE flow

Trigger(r) ==
    /\ request[r] = "trigger"
    /\ triggerRefundReconciliation(r, 0)
    /\ Proceed(r, "over")
    /\ UNCHANGED <<table, gateway, sweep, stuck, outcome, faults>>

-----------------------------------------------------------------------------
(***************************************************************************)
(* RefundReconciliationWorkflow, instance n of refund r                    *)
(***************************************************************************)
At(r, n, place) == flow[r][n].at = place

Become(r, n, place, id, polls) ==
    flow' = Put(flow, r, Put(flow[r], n, [at |-> place, id |-> id, polls |-> polls]))

Goto(r, n, place) == Become(r, n, place, flow[r][n].id, flow[r][n].polls)

\* load-refund-record; nothing to do for a refund that is settled.
LoadRecord(r, n) ==
    /\ At(r, n, "load")
    /\ Become(r, n, IF status[r] = "pending" THEN "poll" ELSE "done", r \in recorded, 0)
    /\ UNCHANGED <<table, request, gateway, sweep, stuck, outcome, faults>>

\* Mutant of QueryGateway: a refund without an id counts as done.
QueryAssumesDone(r, n) ==
    /\ At(r, n, "poll")
    /\ Goto(r, n, IF gateway[r] = "failed" THEN "fail" ELSE "reverse")
    /\ UNCHANGED <<table, request, gateway, sweep, stuck, outcome, faults>>

\* Mutant of QueryGateway: the status is flipped before the ledger is reversed.
QueryCompletesFirst(r, n) ==
    /\ At(r, n, "poll")
    /\ Goto(r, n, IF ~flow[r][n].id \/ gateway[r] = "failed" THEN "fail"
                  ELSE IF gateway[r] = "completed" THEN "complete" ELSE "errored")
    /\ UNCHANGED <<table, request, gateway, sweep, stuck, outcome, faults>>

\* The answers there may be: 'failed' without an id; else what the gateway says,
\* or 'pending' if it cannot be asked.  (queryRefundStatus is the adapter's to
\* answer; the default of BaseGatewayAdapter, which every adapter here inherits,
\* is 'pending'.)
queryGatewayRefundStatus(r, id) ==
    IF id THEN {"pending"} \cup ({"completed", "failed"} \cap {gateway[r]}) ELSE {"failed"}

\* query-gateway-status in the poll loop; the last 'pending' halts the instance.
QueryGateway(r, n) ==
    LET polls == flow[r][n].polls IN
    /\ At(r, n, "poll")
    /\ \E answer \in queryGatewayRefundStatus(r, flow[r][n].id) :
          \/ answer = "completed" /\ Goto(r, n, "reverse")
          \/ answer = "failed" /\ Goto(r, n, "fail")
          \/ answer = "pending" /\ polls + 1 < MaxPolls /\ Become(r, n, "poll", TRUE, polls + 1)
          \/ answer = "pending" /\ polls + 1 = MaxPolls /\ Goto(r, n, "errored")
    /\ UNCHANGED <<table, request, gateway, sweep, stuck, outcome, faults>>

\* WHERE status = 'pending'
SettleAs(r, s) == status' = IF status[r] = "pending" THEN Put(status, r, s) ELSE status

MarkRefundFailed(r, n) ==
    /\ At(r, n, "fail")
    /\ SettleAs(r, "failed")
    /\ Goto(r, n, "done")
    /\ UNCHANGED <<recorded, attempts, request, gateway, sweep, stuck, outcome, faults>>

\* The tx_id is made from the refund, so a repeated call posts nothing more.
postRefundLedgerEntry(r) == reversed' = reversed \cup {r}

\* finalizeRefund: ledger, webhook, status.
PostReversal(r, n) ==
    /\ At(r, n, "reverse")
    /\ postRefundLedgerEntry(r)
    /\ Goto(r, n, "dispatch")
    /\ UNCHANGED <<table, request, gateway, sweep, stuck, notified, faults>>

DispatchWebhook(r, n) ==
    /\ At(r, n, "dispatch")
    /\ notified' = notified \cup {r}
    /\ Goto(r, n, "complete")
    /\ UNCHANGED <<table, request, gateway, sweep, stuck, reversed, faults>>

MarkRefundCompleted(r, n) ==
    /\ At(r, n, "complete")
    /\ SettleAs(r, "completed")
    /\ Goto(r, n, "done")
    /\ UNCHANGED <<recorded, attempts, request, gateway, sweep, stuck, outcome, faults>>

-----------------------------------------------------------------------------
(***************************************************************************)
(* sweepStuckRefunds                                                       *)
(***************************************************************************)
NoRows == [r \in {} |-> 0]
NotSweeping == [rows |-> NoRows, started |-> {}]

Without(rows, r) == [s \in DOMAIN rows \ {r} |-> rows[s]]

SelectStuck(k) ==
    LET found == {r \in stuck : status[r] = "pending" /\ attempts[r] < MaxAttempts} IN
    /\ sweep[k] = NotSweeping
    /\ found # {}
    /\ sweep' = Put(sweep, k, [rows |-> [r \in found |-> attempts[r]], started |-> {}])
    /\ UNCHANGED <<table, request, gateway, flow, stuck, outcome, faults>>

\* Instance sweep-{attempts + 1}, by the attempts the SELECT read ...
SweepTrigger(k, r) ==
    /\ sweep[k].started = {}
    /\ r \in DOMAIN sweep[k].rows
    /\ triggerRefundReconciliation(r, sweep[k].rows[r] + 1)
    /\ sweep' = Put(sweep, k, [rows |-> sweep[k].rows, started |-> {r}])
    /\ UNCHANGED <<table, request, gateway, stuck, outcome, faults>>

\* Mutant of SweepCount: the attempt is not counted.
SweepForgetsCount(k, r) ==
    /\ sweep[k].started = {r}
    /\ sweep' = Put(sweep, k, [rows |-> Without(sweep[k].rows, r), started |-> {}])
    /\ UNCHANGED <<table, request, gateway, flow, stuck, outcome, faults>>

\* ... and the count, in a statement of its own.
SweepCount(k, r) ==
    /\ sweep[k].started = {r}
    /\ attempts' = Put(attempts, r, attempts[r] + 1)
    /\ sweep' = Put(sweep, k, [rows |-> Without(sweep[k].rows, r), started |-> {}])
    /\ UNCHANGED <<status, recorded, request, gateway, flow, stuck, outcome, faults>>

-----------------------------------------------------------------------------
(***************************************************************************)
(* What ends early, and the world.                                         *)
(***************************************************************************)
Fault == faults < MaxFaults /\ faults' = faults + 1

\* The isolate is lost, or REFUND_WORKFLOW.create throws.
RequestDies(r) ==
    /\ Fault
    /\ request[r] \notin {"new", "over"}
    /\ Proceed(r, "over")
    /\ UNCHANGED <<table, gateway, flow, sweep, stuck, outcome>>

\* A step has used up its retries.
StepFails(r, n) ==
    /\ Fault
    /\ flow[r][n].at \notin {"none", "done", "errored"}
    /\ Goto(r, n, "errored")
    /\ UNCHANGED <<table, request, gateway, sweep, stuck, outcome>>

SweepDies(k) ==
    /\ Fault
    /\ sweep[k] # NotSweeping
    /\ sweep' = Put(sweep, k, NotSweeping)
    /\ UNCHANGED <<table, request, gateway, flow, stuck, outcome>>

\* The gateway carries a refund out, or turns it down, for good.
GatewaySettles(r) ==
    /\ gateway[r] = "pending"
    /\ \E s \in {"completed", "failed"} : gateway' = Put(gateway, r, s)
    /\ UNCHANGED <<table, request, flow, sweep, stuck, outcome, faults>>

\* No request lives for a day.
BecomeStuck(r) ==
    /\ status[r] # "none"
    /\ request[r] = "over"
    /\ stuck' = stuck \cup {r}
    /\ UNCHANGED <<table, request, gateway, flow, sweep, outcome, faults>>

-----------------------------------------------------------------------------
Init ==
    /\ status = [r \in Refunds |-> "none"]
    /\ recorded = {}
    /\ attempts = [r \in Refunds |-> 0]
    /\ request = [r \in Refunds |-> "new"]
    /\ gateway = [r \in Refunds |-> "none"]
    /\ flow = [r \in Refunds |-> [n \in Runs |-> Absent]]
    /\ sweep = [k \in Sweepers |-> NotSweeping]
    /\ stuck = {}
    /\ reversed = {} /\ notified = {}
    /\ faults = 0

Request(r) ==
    \/ createRefund(r) \/ Reserve(r) \/ AskGateway(r) \/ RecordId(r)
    \/ MarkUnsupported(r) \/ Trigger(r)

Step(r, n) ==
    \/ LoadRecord(r, n) \/ QueryGateway(r, n) \/ MarkRefundFailed(r, n)
    \/ PostReversal(r, n) \/ DispatchWebhook(r, n) \/ MarkRefundCompleted(r, n)

Sweep(k) == SelectStuck(k) \/ \E r \in Refunds : SweepTrigger(k, r) \/ SweepCount(k, r)

Next ==
    \/ \E r \in Refunds :
          \/ Request(r) \/ RequestDies(r) \/ GatewaySettles(r) \/ BecomeStuck(r)
          \/ \E n \in Runs : Step(r, n) \/ StepFails(r, n)
    \/ \E k \in Sweepers : Sweep(k) \/ SweepDies(k)

Spec == Init /\ [][Next]_vars

(***************************************************************************)
(* Fairness.  Workflows are durable and the sweep comes every day; days    *)
(* pass.  Requests and gateways promise nothing.                           *)
(***************************************************************************)
Fairness ==
    /\ \A r \in Refunds : WF_vars(Request(r) /\ request[r] # "new") /\ WF_vars(BecomeStuck(r))
    /\ \A r \in Refunds, n \in Runs : WF_vars(Step(r, n))
    /\ \A k \in Sweepers : WF_vars(Sweep(k))

FairSpec == Spec /\ Fairness

-----------------------------------------------------------------------------
(***************************************************************************)
(* Properties                                                              *)
(***************************************************************************)
Places == {"none", "load", "poll", "fail", "reverse", "dispatch", "complete", "done", "errored"}

StuckRows == UNION {[S -> 0 .. MaxAttempts - 1] : S \in SUBSET Refunds}

\* Every variable keeps its type; statuses are those of the table's CHECK.
TypeOK ==
    /\ status \in [Refunds -> {"none", "pending", "completed", "failed"}]
    /\ recorded \subseteq Refunds
    /\ attempts \in [Refunds -> Nat]
    /\ request \in [Refunds -> {"new", "reserve", "call", "record", "refused", "trigger", "over"}]
    /\ gateway \in [Refunds -> {"none", "pending", "completed", "failed"}]
    /\ flow \in [Refunds -> [Runs -> [at : Places, id : BOOLEAN, polls : Nat]]]
    /\ sweep \in [Sweepers -> [rows : StuckRows, started : SUBSET Refunds]]
    /\ stuck \subseteq Refunds
    /\ reversed \subseteq Refunds /\ notified \subseteq Refunds
    /\ faults \in Nat

\* Requests that run side by side never reserve more than was captured, and a
\* reservation once released is not taken up again.
ReservedWithinCaptured == MapThenSumSet(LAMBDA r : Amount[r], Reserved) <= Captured

\* A refund shown as completed is in the ledger and was reported, whichever of
\* its instances got there first.
CompletedIsReversed ==
    \A r \in Refunds : status[r] = "completed" => r \in reversed /\ r \in notified

\* The ledger is reversed for refunds the gateway has carried out and for no
\* others, and no instance shows such a refund as failed.
ReversedIsRefunded ==
    \A r \in reversed : gateway[r] = "completed" /\ status[r] # "failed"

\* A request has its row while it runs, and is alone with it.
RequestInv ==
    /\ \A r \in Refunds :
          /\ request[r] \in {"new", "reserve"} => status[r] = "none"
          /\ request[r] \in {"call", "record", "refused", "trigger"} => status[r] = "pending"
          /\ request[r] \in {"new", "reserve", "call"} => gateway[r] = "none"
          /\ request[r] = "record" => gateway[r] # "none"
    /\ \A r \in recorded : request[r] \in {"trigger", "over"} /\ gateway[r] # "none"

\* What an instance knows of the refund where it is.
InstanceInv(r, n) ==
    /\ ~At(r, n, "none") => request[r] = "over" /\ status[r] # "none"
    /\ At(r, n, "poll") => (flow[r][n].id <=> r \in recorded)
    /\ At(r, n, "fail") => r \notin recorded \/ gateway[r] = "failed"
    /\ flow[r][n].at \in {"reverse", "dispatch", "complete"}
          => r \in recorded /\ gateway[r] = "completed"
    /\ flow[r][n].at \in {"dispatch", "complete"} => r \in reversed
    /\ At(r, n, "complete") => r \in notified

\* What a settled refund, a reversal and a sweep can be of.
SettledInv ==
    /\ \A r \in Refunds : status[r] = "failed" => r \notin recorded \/ gateway[r] = "failed"
    /\ \A r \in reversed : r \in recorded /\ gateway[r] = "completed"
    /\ \A r \in stuck : request[r] = "over" /\ status[r] # "none"
    /\ \A k \in Sweepers : DOMAIN sweep[k].rows \subseteq stuck

\* What the instances of a refund agree on: an id that one has loaded is stored
\* and stays, so no two of them come to different ends.
FlowInv ==
    /\ RequestInv
    /\ \A r \in Refunds, n \in Runs : InstanceInv(r, n)
    /\ SettledInv

\* No refund is forgotten: it is settled, or its re-drives are used up and it
\* pages for a person, although requests, instances and sweeps die.
NoOrphanRefund ==
    \A r \in Refunds :
        status[r] = "pending" ~> status[r] # "pending" \/ attempts[r] >= MaxAttempts
=============================================================================
