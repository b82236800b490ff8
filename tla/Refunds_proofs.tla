-------------------------- MODULE Refunds_proofs --------------------------
(***************************************************************************)
(* Refunds, proved for every set of requests and sweeps, every amount and  *)
(* every limit.                                                            *)
(*                                                                         *)
(* Inv is one inductive invariant.  That a completed refund is reversed    *)
(* needs to know what an instance has done by the place it is at, and that *)
(* no two instances come to different ends needs that an id is stored, if  *)
(* at all, before the first of them loads the row: FlowInv.                *)
(*                                                                         *)
(* What is reserved is summed over a set that grows by one refund, checked *)
(* in the same statement, and otherwise shrinks (ReservedMoves); it is     *)
(* finite because it starts empty, whatever the set of refunds.            *)
(***************************************************************************)
EXTENDS Refunds, Sums

USE DEF Put, At

Inv == TypeOK /\ CompletedIsReversed /\ ReversedIsRefunded /\ FlowInv

-----------------------------------------------------------------------------
\* A sweep's rows are a function into the attempts it may read.
LEMMA RowsType ==
    ASSUME NEW S \in SUBSET Refunds, NEW f \in [S -> 0 .. MaxAttempts - 1]
    PROVE  f \in StuckRows
  BY DEF StuckRows

\* Conversely, whatever a sweep has left is such a function.
LEMMA RowsAre ==
    ASSUME NEW f \in StuckRows
    PROVE  /\ DOMAIN f \subseteq Refunds
           /\ f \in [DOMAIN f -> 0 .. MaxAttempts - 1]
<1>1. PICK S \in SUBSET Refunds : f \in [S -> 0 .. MaxAttempts - 1]
  BY DEF StuckRows
<1> QED BY <1>1

\* What an instance carries.
LEMMA FlowType ==
    ASSUME TypeOK, NEW r \in Refunds, NEW n \in Runs
    PROVE  /\ flow[r][n] \in [at : Places, id : BOOLEAN, polls : Nat]
           /\ flow[r][n].polls \in Nat
  BY DEF TypeOK

\* An instance that moves keeps its type.
LEMMA BecomeType ==
    ASSUME TypeOK, NEW r \in Refunds, NEW n \in Runs, NEW p \in Places,
           NEW b \in BOOLEAN, NEW c \in Nat, Become(r, n, p, b, c)
    PROVE  flow' \in [Refunds -> [Runs -> [at : Places, id : BOOLEAN, polls : Nat]]]
<1> DEFINE Record == [at : Places, id : BOOLEAN, polls : Nat]
<1>1. [at |-> p, id |-> b, polls |-> c] \in Record
  OBVIOUS
<1>2. flow \in [Refunds -> [Runs -> Record]]
  BY DEF TypeOK
<1> HIDE DEF Record
<1>3. flow' \in [Refunds -> [Runs -> Record]]
  BY <1>1, <1>2 DEF Become
<1> QED BY <1>3 DEF Record

\* So does one that only goes on.
LEMMA GotoType ==
    ASSUME TypeOK, NEW r \in Refunds, NEW n \in Runs, NEW p \in Places, Goto(r, n, p)
    PROVE  flow' \in [Refunds -> [Runs -> [at : Places, id : BOOLEAN, polls : Nat]]]
<1>1. flow[r][n].id \in BOOLEAN
  BY FlowType, Zenon
<1>2. flow[r][n].polls \in Nat
  BY FlowType
<1> QED BY <1>1, <1>2, BecomeType DEF Goto

\* And a sweep.
LEMMA SweepTypeOK ==
    ASSUME TypeOK, NEW k \in Sweepers, NEW f \in StuckRows, NEW s \in SUBSET Refunds,
           sweep' = [sweep EXCEPT ![k] = [rows |-> f, started |-> s]]
    PROVE  sweep' \in [Sweepers -> [rows : StuckRows, started : SUBSET Refunds]]
  BY DEF TypeOK

\* Every step keeps the types.
LEMMA TypeStep == Inv /\ [Next]_vars => TypeOK'
<1> SUFFICES ASSUME Inv, [Next]_vars PROVE TypeOK'
  OBVIOUS
<1> USE DEF Inv, TypeOK, Places, Runs, Proceed, table, outcome
<1>1. ASSUME NEW r \in Refunds, createRefund(r) PROVE TypeOK'
  BY <1>1 DEF createRefund
<1>2. ASSUME NEW r \in Refunds, Reserve(r) PROVE TypeOK'
  BY <1>2 DEF Reserve
<1>3. ASSUME NEW r \in Refunds, AskGateway(r) PROVE TypeOK'
  <2>1. gateway' \in [Refunds -> {"none", "pending", "completed", "failed"}]
    BY <1>3 DEF AskGateway
  <2>2. PICK p \in {"record", "refused", "trigger"} : request' = [request EXCEPT ![r] = p]
    BY <1>3 DEF AskGateway
  <2> QED BY <1>3, <2>1, <2>2 DEF AskGateway
<1>4. ASSUME NEW r \in Refunds, RecordId(r) PROVE TypeOK'
  BY <1>4 DEF RecordId
<1>5. ASSUME NEW r \in Refunds, MarkUnsupported(r) PROVE TypeOK'
  BY <1>5 DEF MarkUnsupported
<1>6. ASSUME NEW r \in Refunds, Trigger(r) PROVE TypeOK'
  BY <1>6 DEF Trigger, triggerRefundReconciliation, Instance
<1>7. ASSUME NEW r \in Refunds, NEW n \in Runs, LoadRecord(r, n) PROVE TypeOK'
  BY <1>7 DEF LoadRecord, Become
<1>8. ASSUME NEW r \in Refunds, NEW n \in Runs, QueryGateway(r, n) PROVE TypeOK'
  <2>1. CASE Goto(r, n, "fail") \/ Goto(r, n, "reverse") \/ Goto(r, n, "errored")
    BY <1>8, <2>1, GotoType DEF QueryGateway
  <2>2. CASE Become(r, n, "poll", TRUE, flow[r][n].polls + 1)
    <3>1. flow[r][n].polls + 1 \in Nat
      BY FlowType
    <3> QED BY <1>8, <2>2, <3>1, BecomeType DEF QueryGateway
  <2> QED BY <1>8, <2>1, <2>2 DEF QueryGateway
<1>9. ASSUME NEW r \in Refunds, NEW n \in Runs, MarkRefundFailed(r, n) PROVE TypeOK'
  BY <1>9 DEF MarkRefundFailed, SettleAs, Goto, Become
<1>10. ASSUME NEW r \in Refunds, NEW n \in Runs, PostReversal(r, n) PROVE TypeOK'
  BY <1>10 DEF PostReversal, postRefundLedgerEntry, Goto, Become
<1>11. ASSUME NEW r \in Refunds, NEW n \in Runs, DispatchWebhook(r, n) PROVE TypeOK'
  BY <1>11 DEF DispatchWebhook, Goto, Become
<1>12. ASSUME NEW r \in Refunds, NEW n \in Runs, MarkRefundCompleted(r, n) PROVE TypeOK'
  BY <1>12 DEF MarkRefundCompleted, SettleAs, Goto, Become
<1>13. ASSUME NEW k \in Sweepers, SelectStuck(k) PROVE TypeOK'
  <2> DEFINE found == {r \in stuck : status[r] = "pending" /\ attempts[r] < MaxAttempts}
             read == [r \in found |-> attempts[r]]
  <2>1. found \in SUBSET Refunds /\ read \in [found -> 0 .. MaxAttempts - 1]
    BY LimitAssumption
  <2>2. read \in StuckRows
    BY <2>1, RowsType
  <2> HIDE DEF read, found
  <2>3. sweep' = [sweep EXCEPT ![k] = [rows |-> read, started |-> {}]]
    BY <1>13 DEF SelectStuck, read, found
  <2>4. sweep' \in [Sweepers -> [rows : StuckRows, started : SUBSET Refunds]]
    BY <2>2, <2>3, SweepTypeOK
  <2> QED BY <1>13, <2>4 DEF SelectStuck
<1>14. ASSUME NEW k \in Sweepers, NEW r \in Refunds, SweepTrigger(k, r) PROVE TypeOK'
  <2>1. sweep[k].rows \in StuckRows
    OBVIOUS
  <2>2. sweep[k].rows[r] + 1 \in Runs
    BY <1>14, <2>1, RowsAre, LimitAssumption DEF SweepTrigger
  <2> QED BY <1>14, <2>2 DEF SweepTrigger, triggerRefundReconciliation, Instance
<1>15. ASSUME NEW k \in Sweepers, NEW r \in Refunds, SweepCount(k, r) PROVE TypeOK'
  <2> DEFINE left == Without(sweep[k].rows, r)
  <2>1. sweep[k].rows \in StuckRows
    OBVIOUS
  <2>2. left \in StuckRows
    <3>1. /\ DOMAIN sweep[k].rows \subseteq Refunds
          /\ sweep[k].rows \in [DOMAIN sweep[k].rows -> 0 .. MaxAttempts - 1]
      BY <2>1, RowsAre
    <3>2. left \in [DOMAIN sweep[k].rows \ {r} -> 0 .. MaxAttempts - 1]
      BY <3>1 DEF Without
    <3> QED BY <3>1, <3>2, RowsType
  <2> HIDE DEF left
  <2>3. sweep' = [sweep EXCEPT ![k] = [rows |-> left, started |-> {}]]
    BY <1>15 DEF SweepCount, left
  <2>4. sweep' \in [Sweepers -> [rows : StuckRows, started : SUBSET Refunds]]
    BY <2>2, <2>3, SweepTypeOK
  <2> QED BY <1>15, <2>4 DEF SweepCount
<1>16. ASSUME NEW r \in Refunds, RequestDies(r) PROVE TypeOK'
  BY <1>16 DEF RequestDies, Fault
<1>17. ASSUME NEW r \in Refunds, NEW n \in Runs, StepFails(r, n) PROVE TypeOK'
  BY <1>17, GotoType DEF StepFails, Fault
<1>18. ASSUME NEW k \in Sweepers, SweepDies(k) PROVE TypeOK'
  <2>1. NoRows \in StuckRows
    BY RowsType, NoRows \in [{} -> 0 .. MaxAttempts - 1] DEF NoRows
  <2> QED BY <1>18, <2>1, SweepTypeOK DEF SweepDies, NotSweeping, Fault
<1>19. ASSUME NEW r \in Refunds, GatewaySettles(r) PROVE TypeOK'
  BY <1>19 DEF GatewaySettles
<1>20. ASSUME NEW r \in Refunds, BecomeStuck(r) PROVE TypeOK'
  BY <1>20 DEF BecomeStuck
<1>21. CASE UNCHANGED <<table, request, gateway, flow, sweep, stuck, outcome, faults>>
  BY <1>21
<1> QED BY <1>1, <1>2, <1>3, <1>4, <1>5, <1>6, <1>7, <1>8, <1>9, <1>10, <1>11,
<1>12, <1>13, <1>14, <1>15, <1>16, <1>17, <1>18, <1>19, <1>20, <1>21
  DEF Next, Request, Step, Sweep, vars

\* Where a step leaves the instances.
LEMMA MovedOn ==
    ASSUME TypeOK, NEW r \in Refunds, NEW n \in Runs, NEW p, Goto(r, n, p)
    PROVE  /\ flow'[r][n].at = p
           /\ \A q \in Refunds, j \in Runs : q # r \/ j # n => flow'[q][j] = flow[q][j]
  BY DEF Goto, Become, TypeOK

\* The id an instance loads is the stored one.
LEMMA LoadedId ==
    ASSUME TypeOK, NEW r \in Refunds, NEW n \in Runs, LoadRecord(r, n)
    PROVE  flow'[r][n].id <=> r \in recorded
  BY DEF LoadRecord, Become, TypeOK

\* An instance that polls again keeps it.
LEMMA Polled ==
    ASSUME TypeOK, NEW r \in Refunds, NEW n \in Runs,
           Become(r, n, "poll", TRUE, flow[r][n].polls + 1)
    PROVE  /\ flow'[r][n].at = "poll" /\ flow'[r][n].id
           /\ \A q \in Refunds, j \in Runs : q # r \/ j # n => flow'[q][j] = flow[q][j]
  BY DEF Become, TypeOK

\* Where the answer of the gateway takes an instance, and why.
LEMMA Queried ==
    ASSUME TypeOK, NEW r \in Refunds, NEW n \in Runs, QueryGateway(r, n)
    PROVE  /\ \A q \in Refunds, j \in Runs : q # r \/ j # n => flow'[q][j] = flow[q][j]
           /\ \/ flow'[r][n].at = "fail" /\ (flow[r][n].id => gateway[r] = "failed")
              \/ flow'[r][n].at = "reverse" /\ flow[r][n].id /\ gateway[r] = "completed"
              \/ flow'[r][n].at = "poll" /\ flow'[r][n].id /\ flow[r][n].id
              \/ flow'[r][n].at = "errored"
<1>1. CASE Goto(r, n, "fail") /\ (flow[r][n].id => gateway[r] = "failed")
  BY <1>1, MovedOn
<1>2. CASE Goto(r, n, "reverse") /\ flow[r][n].id /\ gateway[r] = "completed"
  BY <1>2, MovedOn
<1>3. CASE Become(r, n, "poll", TRUE, flow[r][n].polls + 1) /\ flow[r][n].id
  BY <1>3, Polled
<1>4. CASE Goto(r, n, "errored")
  BY <1>4, MovedOn
<1> QED BY <1>1, <1>2, <1>3, <1>4 DEF QueryGateway, queryGatewayRefundStatus

\* A request stays alone with its row until it is over.
LEMMA RequestStep == Inv /\ [Next]_vars => RequestInv'
<1> SUFFICES ASSUME Inv, [Next]_vars PROVE RequestInv'
  OBVIOUS
<1> USE DEF Inv, TypeOK, FlowInv, SettledInv, RequestInv, InstanceInv, Proceed,
    table, outcome
<1>1. ASSUME NEW r \in Refunds, createRefund(r) PROVE RequestInv'
  BY <1>1 DEF createRefund
<1>2. ASSUME NEW r \in Refunds, Reserve(r) PROVE RequestInv'
  BY <1>2 DEF Reserve
<1>3. ASSUME NEW r \in Refunds, AskGateway(r) PROVE RequestInv'
  BY <1>3 DEF AskGateway
<1>4. ASSUME NEW r \in Refunds, RecordId(r) PROVE RequestInv'
  BY <1>4 DEF RecordId
<1>5. ASSUME NEW r \in Refunds, MarkUnsupported(r) PROVE RequestInv'
  <2>1. CASE status' = Put(status, r, "failed") /\ request' = Put(request, r, "over")
    BY <1>5, <2>1 DEF MarkUnsupported, Put
  <2>2. CASE request' = Put(request, r, "trigger") /\ UNCHANGED status
    BY <1>5, <2>2 DEF MarkUnsupported, Put
  <2> QED BY <1>5, <2>1, <2>2 DEF MarkUnsupported
<1>6. ASSUME NEW r \in Refunds, Trigger(r) PROVE RequestInv'
  BY <1>6 DEF Trigger, triggerRefundReconciliation, Instance
<1>7. ASSUME NEW r \in Refunds, NEW n \in Runs, MarkRefundFailed(r, n) PROVE RequestInv'
  <2>1. request[r] = "over"
    BY <1>7 DEF MarkRefundFailed
  <2>2. \A q \in Refunds : q # r => status'[q] = status[q]
    BY <1>7 DEF MarkRefundFailed, SettleAs
  <2> QED BY <1>7, <2>1, <2>2 DEF MarkRefundFailed
<1>8. ASSUME NEW r \in Refunds, NEW n \in Runs, MarkRefundCompleted(r, n)
      PROVE  RequestInv'
  <2>1. request[r] = "over"
    BY <1>8 DEF MarkRefundCompleted
  <2>2. \A q \in Refunds : q # r => status'[q] = status[q]
    BY <1>8 DEF MarkRefundCompleted, SettleAs
  <2> QED BY <1>8, <2>1, <2>2 DEF MarkRefundCompleted
<1>9. ASSUME NEW r \in Refunds, RequestDies(r) PROVE RequestInv'
  BY <1>9 DEF RequestDies, Fault
<1>10. ASSUME NEW r \in Refunds, GatewaySettles(r) PROVE RequestInv'
  BY <1>10 DEF GatewaySettles
<1>11. CASE UNCHANGED <<request, status, gateway, recorded>>
  BY <1>11
<1> QED BY <1>1, <1>2, <1>3, <1>4, <1>5, <1>6, <1>7, <1>8, <1>9, <1>10, <1>11
  DEF Next, Request, Step, Sweep, vars, LoadRecord, QueryGateway, PostReversal, postRefundLedgerEntry,
  DispatchWebhook, SelectStuck, SweepTrigger, SweepCount, StepFails, SweepDies,
  BecomeStuck

\* Every instance keeps knowing what it knew, and learns what its step did.
LEMMA InstanceStep == Inv /\ [Next]_vars => (\A q \in Refunds, j \in Runs : InstanceInv(q, j))'
<1> SUFFICES ASSUME Inv, [Next]_vars PROVE (\A q \in Refunds, j \in Runs : InstanceInv(q, j))'
  OBVIOUS
<1> USE DEF Inv, TypeOK, FlowInv, SettledInv, RequestInv, InstanceInv, Proceed,
    table, outcome
<1>1. ASSUME NEW r \in Refunds, createRefund(r)
      PROVE  (\A q \in Refunds, j \in Runs : InstanceInv(q, j))'
  BY <1>1 DEF createRefund
<1>2. ASSUME NEW r \in Refunds, Reserve(r)
      PROVE  (\A q \in Refunds, j \in Runs : InstanceInv(q, j))'
  BY <1>2 DEF Reserve
<1>3. ASSUME NEW r \in Refunds, AskGateway(r)
      PROVE  (\A q \in Refunds, j \in Runs : InstanceInv(q, j))'
  BY <1>3 DEF AskGateway
<1>4. ASSUME NEW r \in Refunds, RecordId(r)
      PROVE  (\A q \in Refunds, j \in Runs : InstanceInv(q, j))'
  BY <1>4 DEF RecordId
<1>5. ASSUME NEW r \in Refunds, MarkUnsupported(r)
      PROVE  (\A q \in Refunds, j \in Runs : InstanceInv(q, j))'
  BY <1>5 DEF MarkUnsupported
<1>6. ASSUME NEW r \in Refunds, Trigger(r)
      PROVE  (\A q \in Refunds, j \in Runs : InstanceInv(q, j))'
  BY <1>6 DEF Trigger, triggerRefundReconciliation, Instance
<1>7. ASSUME NEW r \in Refunds, NEW n \in Runs, LoadRecord(r, n)
      PROVE  (\A q \in Refunds, j \in Runs : InstanceInv(q, j))'
  <2>1. /\ flow'[r][n].at \in {"poll", "done"}
        /\ \A q \in Refunds, j \in Runs : q # r \/ j # n => flow'[q][j] = flow[q][j]
    BY <1>7 DEF LoadRecord, Become
  <2>2. flow'[r][n].id <=> r \in recorded
    BY <1>7, LoadedId
  <2>3. InstanceInv(r, n)'
    BY <1>7, <2>1, <2>2 DEF LoadRecord
  <2>4. ASSUME NEW q \in Refunds, NEW j \in Runs, q # r \/ j # n PROVE InstanceInv(q, j)'
    BY <1>7, <2>1, <2>4 DEF LoadRecord
  <2> QED BY <2>3, <2>4
<1>8. ASSUME NEW r \in Refunds, NEW n \in Runs, QueryGateway(r, n)
      PROVE  (\A q \in Refunds, j \in Runs : InstanceInv(q, j))'
  <2>1. /\ \A q \in Refunds, j \in Runs : q # r \/ j # n => flow'[q][j] = flow[q][j]
        /\ \/ flow'[r][n].at = "fail" /\ (flow[r][n].id => gateway[r] = "failed")
           \/ flow'[r][n].at = "reverse" /\ flow[r][n].id /\ gateway[r] = "completed"
           \/ flow'[r][n].at = "poll" /\ flow'[r][n].id /\ flow[r][n].id
           \/ flow'[r][n].at = "errored"
    BY <1>8, Queried
  <2>2. At(r, n, "poll") /\ UNCHANGED <<table, request, gateway, outcome>>
    BY <1>8 DEF QueryGateway
  <2>3. InstanceInv(r, n)'
    BY <2>1, <2>2
  <2>4. ASSUME NEW q \in Refunds, NEW j \in Runs, q # r \/ j # n PROVE InstanceInv(q, j)'
    BY <2>1, <2>2, <2>4
  <2> QED BY <2>3, <2>4
<1>9. ASSUME NEW r \in Refunds, NEW n \in Runs, MarkRefundFailed(r, n)
      PROVE  (\A q \in Refunds, j \in Runs : InstanceInv(q, j))'
  BY <1>9 DEF MarkRefundFailed, SettleAs, Goto, Become
<1>10. ASSUME NEW r \in Refunds, NEW n \in Runs, PostReversal(r, n)
      PROVE  (\A q \in Refunds, j \in Runs : InstanceInv(q, j))'
  BY <1>10 DEF PostReversal, postRefundLedgerEntry, Goto, Become
<1>11. ASSUME NEW r \in Refunds, NEW n \in Runs, DispatchWebhook(r, n)
      PROVE  (\A q \in Refunds, j \in Runs : InstanceInv(q, j))'
  BY <1>11 DEF DispatchWebhook, Goto, Become
<1>12. ASSUME NEW r \in Refunds, NEW n \in Runs, MarkRefundCompleted(r, n)
      PROVE  (\A q \in Refunds, j \in Runs : InstanceInv(q, j))'
  BY <1>12 DEF MarkRefundCompleted, SettleAs, Goto, Become
<1>13. ASSUME NEW k \in Sweepers, NEW r \in Refunds, SweepTrigger(k, r)
      PROVE  (\A q \in Refunds, j \in Runs : InstanceInv(q, j))'
  BY <1>13 DEF SweepTrigger, triggerRefundReconciliation, Instance
<1>14. ASSUME NEW r \in Refunds, RequestDies(r)
      PROVE  (\A q \in Refunds, j \in Runs : InstanceInv(q, j))'
  BY <1>14 DEF RequestDies, Fault
<1>15. ASSUME NEW r \in Refunds, NEW n \in Runs, StepFails(r, n)
      PROVE  (\A q \in Refunds, j \in Runs : InstanceInv(q, j))'
  BY <1>15 DEF StepFails, Goto, Become, Fault
<1>16. ASSUME NEW r \in Refunds, GatewaySettles(r)
      PROVE  (\A q \in Refunds, j \in Runs : InstanceInv(q, j))'
  BY <1>16 DEF GatewaySettles
<1>17. CASE UNCHANGED <<request, status, gateway, recorded, flow, reversed, notified>>
  BY <1>17
<1> QED BY <1>1, <1>2, <1>3, <1>4, <1>5, <1>6, <1>7, <1>8, <1>9, <1>10, <1>11,
<1>12, <1>13, <1>14, <1>15, <1>16, <1>17
  DEF Next, Request, Step, Sweep, vars, SelectStuck, SweepCount, SweepDies,
  BecomeStuck

\* Status, ledger and gateway stay in step; sweeps hold old refunds only.
LEMMA SettledStep ==
    Inv /\ [Next]_vars => (CompletedIsReversed /\ ReversedIsRefunded /\ SettledInv)'
<1> SUFFICES ASSUME Inv, [Next]_vars
             PROVE  (CompletedIsReversed /\ ReversedIsRefunded /\ SettledInv)'
  OBVIOUS
<1> USE DEF Inv, TypeOK, CompletedIsReversed, ReversedIsRefunded, FlowInv,
    SettledInv, RequestInv, InstanceInv, Proceed, table, outcome
<1>1. ASSUME NEW r \in Refunds, createRefund(r)
      PROVE  (CompletedIsReversed /\ ReversedIsRefunded /\ SettledInv)'
  BY <1>1 DEF createRefund
<1>2. ASSUME NEW r \in Refunds, Reserve(r)
      PROVE  (CompletedIsReversed /\ ReversedIsRefunded /\ SettledInv)'
  BY <1>2 DEF Reserve
<1>3. ASSUME NEW r \in Refunds, AskGateway(r)
      PROVE  (CompletedIsReversed /\ ReversedIsRefunded /\ SettledInv)'
  BY <1>3 DEF AskGateway
<1>4. ASSUME NEW r \in Refunds, RecordId(r)
      PROVE  (CompletedIsReversed /\ ReversedIsRefunded /\ SettledInv)'
  BY <1>4 DEF RecordId
<1>5. ASSUME NEW r \in Refunds, MarkUnsupported(r)
      PROVE  (CompletedIsReversed /\ ReversedIsRefunded /\ SettledInv)'
  <2>1. r \notin reversed /\ r \notin recorded
    BY <1>5 DEF MarkUnsupported
  <2>2. CASE status' = [status EXCEPT ![r] = "failed"] /\ request' = [request EXCEPT ![r] = "over"]
    BY <1>5, <2>1, <2>2 DEF MarkUnsupported
  <2>3. CASE status' = status /\ request' = [request EXCEPT ![r] = "trigger"]
    BY <1>5, <2>1, <2>3 DEF MarkUnsupported
  <2> QED BY <1>5, <2>2, <2>3 DEF MarkUnsupported
<1>6. ASSUME NEW r \in Refunds, Trigger(r)
      PROVE  (CompletedIsReversed /\ ReversedIsRefunded /\ SettledInv)'
  BY <1>6 DEF Trigger, triggerRefundReconciliation, Instance
<1>7. ASSUME NEW r \in Refunds, NEW n \in Runs, MarkRefundFailed(r, n)
      PROVE  (CompletedIsReversed /\ ReversedIsRefunded /\ SettledInv)'
  BY <1>7 DEF MarkRefundFailed, SettleAs, Goto, Become
<1>8. ASSUME NEW r \in Refunds, NEW n \in Runs, PostReversal(r, n)
      PROVE  (CompletedIsReversed /\ ReversedIsRefunded /\ SettledInv)'
  BY <1>8 DEF PostReversal, postRefundLedgerEntry, Goto, Become
<1>9. ASSUME NEW r \in Refunds, NEW n \in Runs, DispatchWebhook(r, n)
      PROVE  (CompletedIsReversed /\ ReversedIsRefunded /\ SettledInv)'
  BY <1>9 DEF DispatchWebhook, Goto, Become
<1>10. ASSUME NEW r \in Refunds, NEW n \in Runs, MarkRefundCompleted(r, n)
      PROVE  (CompletedIsReversed /\ ReversedIsRefunded /\ SettledInv)'
  BY <1>10 DEF MarkRefundCompleted, SettleAs, Goto, Become
<1>11. ASSUME NEW k \in Sweepers, SelectStuck(k)
      PROVE  (CompletedIsReversed /\ ReversedIsRefunded /\ SettledInv)'
  BY <1>11 DEF SelectStuck, NotSweeping
<1>12. ASSUME NEW k \in Sweepers, NEW r \in Refunds, SweepTrigger(k, r)
      PROVE  (CompletedIsReversed /\ ReversedIsRefunded /\ SettledInv)'
  BY <1>12 DEF SweepTrigger, triggerRefundReconciliation, Instance
<1>13. ASSUME NEW k \in Sweepers, NEW r \in Refunds, SweepCount(k, r)
      PROVE  (CompletedIsReversed /\ ReversedIsRefunded /\ SettledInv)'
  BY <1>13 DEF SweepCount, Without
<1>14. ASSUME NEW r \in Refunds, RequestDies(r)
      PROVE  (CompletedIsReversed /\ ReversedIsRefunded /\ SettledInv)'
  BY <1>14 DEF RequestDies, Fault
<1>15. ASSUME NEW k \in Sweepers, SweepDies(k)
      PROVE  (CompletedIsReversed /\ ReversedIsRefunded /\ SettledInv)'
  BY <1>15 DEF SweepDies, NotSweeping, NoRows, Fault
<1>16. ASSUME NEW r \in Refunds, GatewaySettles(r)
      PROVE  (CompletedIsReversed /\ ReversedIsRefunded /\ SettledInv)'
  BY <1>16 DEF GatewaySettles
<1>17. ASSUME NEW r \in Refunds, BecomeStuck(r)
      PROVE  (CompletedIsReversed /\ ReversedIsRefunded /\ SettledInv)'
  BY <1>17 DEF BecomeStuck
<1>18. CASE UNCHANGED <<status, recorded, request, gateway, sweep, stuck, outcome>>
  BY <1>18
<1> QED BY <1>1, <1>2, <1>3, <1>4, <1>5, <1>6, <1>7, <1>8, <1>9, <1>10, <1>11,
<1>12, <1>13, <1>14, <1>15, <1>16, <1>17, <1>18
  DEF Next, Request, Step, Sweep, vars, LoadRecord, QueryGateway, StepFails

-----------------------------------------------------------------------------
\* The empty tables, no request and no instance: the invariant holds at first.
LEMMA InitInv == Init => Inv
<1> SUFFICES ASSUME Init PROVE Inv
  OBVIOUS
<1>1. NoRows \in StuckRows
  BY RowsType, NoRows \in [{} -> 0 .. MaxAttempts - 1] DEF NoRows
<1>2. TypeOK
  BY <1>1 DEF Init, TypeOK, Absent, NotSweeping, Places
<1>3. CompletedIsReversed /\ ReversedIsRefunded
  BY DEF Init, CompletedIsReversed, ReversedIsRefunded
<1>4. RequestInv
  BY DEF Init, RequestInv
<1>5. ASSUME NEW r \in Refunds, NEW n \in Runs PROVE InstanceInv(r, n)
  BY DEF Init, InstanceInv, Absent
<1>6. SettledInv
  BY DEF Init, SettledInv, NotSweeping, NoRows
<1> QED BY <1>2, <1>3, <1>4, <1>5, <1>6 DEF Inv, FlowInv

\* What every reachable state of requests, instances and sweeps satisfies.
THEOREM InvCorrect == Spec => []Inv
<1>1. Inv /\ [Next]_vars => Inv'
  BY TypeStep, RequestStep, InstanceStep, SettledStep DEF Inv, FlowInv
<1> QED BY <1>1, InitInv, PTL DEF Spec

\* Every variable keeps its type, the statuses those of the table.
THEOREM TypeCorrect == Spec => []TypeOK
<1>1. Inv => TypeOK
  BY DEF Inv
<1> QED BY <1>1, InvCorrect, PTL

\* However many instances follow a refund and however they die, one shown as
\* completed is in the ledger and was reported to the merchant.
THEOREM CompletedReversed == Spec => []CompletedIsReversed
<1>1. Inv => CompletedIsReversed
  BY DEF Inv
<1> QED BY <1>1, InvCorrect, PTL

\* The ledger is only ever reversed for a refund the gateway has carried out,
\* and such a refund is never shown as failed.
THEOREM ReversedRefunded == Spec => []ReversedIsRefunded
<1>1. Inv => ReversedIsRefunded
  BY DEF Inv
<1> QED BY <1>1, InvCorrect, PTL

\* The instances of a refund agree on its end.
THEOREM FlowCorrect == Spec => []FlowInv
<1>1. Inv => FlowInv
  BY DEF Inv
<1> QED BY <1>1, InvCorrect, PTL

-----------------------------------------------------------------------------
\* A row becomes reserved by the INSERT that finds room for it, and no other way.
LEMMA ReservedMoves ==
    ASSUME Inv, [Next]_vars
    PROVE  \/ Reserved' = Reserved
           \/ \E r \in Reserved : Reserved' = Reserved \ {r}
           \/ \E r \in Refunds \ Reserved : ~Exceeds(r) /\ Reserved' = Reserved \cup {r}
<1> DEFINE Moves == \/ Reserved' = Reserved
                    \/ \E r \in Reserved : Reserved' = Reserved \ {r}
                    \/ \E r \in Refunds \ Reserved : ~Exceeds(r) /\ Reserved' = Reserved \cup {r}
<1> USE DEF table
<1>1. status' = status => Moves
  BY DEF Reserved
<1>2. status \in [Refunds -> {"none", "pending", "completed", "failed"}]
  BY DEF Inv, TypeOK
<1>3. ASSUME NEW r \in Refunds, Reserve(r) PROVE Moves
  <2>1. CASE Exceeds(r)
    BY <1>1, <1>3, <2>1 DEF Reserve
  <2>2. CASE ~Exceeds(r)
    <3>1. status[r] = "none"
      BY <1>3 DEF Reserve, Inv, FlowInv, RequestInv
    <3>2. status' = [status EXCEPT ![r] = "pending"]
      BY <1>3, <2>2 DEF Reserve
    <3>3. r \notin Reserved /\ Reserved' = Reserved \cup {r}
      BY <1>2, <3>1, <3>2 DEF Reserved
    <3> QED BY <2>2, <3>3
  <2> QED BY <2>1, <2>2
<1>4. ASSUME NEW r \in Refunds, status[r] = "pending",
             status' = [status EXCEPT ![r] = "failed"]
      PROVE  Moves
  <2>1. r \in Reserved /\ Reserved' = Reserved \ {r}
    BY <1>2, <1>4 DEF Reserved
  <2> QED BY <2>1
<1>5. ASSUME NEW r \in Refunds, status[r] = "pending",
             status' = [status EXCEPT ![r] = "completed"]
      PROVE  Moves
  <2>1. Reserved' = Reserved
    BY <1>2, <1>5 DEF Reserved
  <2> QED BY <2>1
<1>6. ASSUME NEW r \in Refunds, MarkUnsupported(r) PROVE Moves
  <2>1. status[r] = "pending"
    BY <1>6 DEF MarkUnsupported, Inv, FlowInv, RequestInv
  <2> QED BY <1>1, <1>4, <1>6, <2>1 DEF MarkUnsupported
<1>7. ASSUME NEW r \in Refunds, NEW n \in Runs,
             MarkRefundFailed(r, n) \/ MarkRefundCompleted(r, n)
      PROVE  Moves
  BY <1>1, <1>4, <1>5, <1>7 DEF MarkRefundFailed, MarkRefundCompleted, SettleAs
<1>8. ASSUME NEW r \in Refunds,
             \/ createRefund(r) \/ AskGateway(r) \/ RecordId(r) \/ Trigger(r)
             \/ RequestDies(r) \/ GatewaySettles(r) \/ BecomeStuck(r)
      PROVE  Moves
  BY <1>1, <1>8 DEF createRefund, AskGateway, RecordId, Trigger, RequestDies, GatewaySettles,
                    BecomeStuck
<1>9. ASSUME NEW r \in Refunds, NEW n \in Runs,
             \/ LoadRecord(r, n) \/ QueryGateway(r, n) \/ PostReversal(r, n)
             \/ DispatchWebhook(r, n) \/ StepFails(r, n)
      PROVE  Moves
  BY <1>1, <1>9 DEF LoadRecord, QueryGateway, PostReversal, DispatchWebhook, StepFails
<1>10. ASSUME NEW k \in Sweepers, Sweep(k) \/ SweepDies(k) PROVE Moves
  BY <1>1, <1>10 DEF Sweep, SelectStuck, SweepTrigger, SweepCount, SweepDies
<1>11. CASE UNCHANGED vars
  BY <1>1, <1>11 DEF vars
<1> QED
  BY <1>3, <1>6, <1>7, <1>8, <1>9, <1>10, <1>11 DEF Next, Request, Step

\* The sum is of finitely many amounts, and within what was captured.
ReservedInv == IsFiniteSet(Reserved) /\ SumOver(Amount, Reserved) <= Captured

\* The bound, and the guard of the INSERT, speak of the sum of Sums.
LEMMA BoundIsSum == ReservedWithinCaptured <=> SumOver(Amount, Reserved) <= Captured
  BY DEF ReservedWithinCaptured, SumOver

LEMMA GuardIsSum ==
    ASSUME NEW r \in Refunds
    PROVE  Exceeds(r) <=> SumOver(Amount, Reserved) + Amount[r] > Captured
  BY DEF Exceeds, SumOver

LEMMA ReservedStep == Inv /\ ReservedInv /\ [Next]_vars => ReservedInv'
<1> SUFFICES ASSUME Inv, ReservedInv, [Next]_vars PROVE ReservedInv'
  OBVIOUS
<1> DEFINE Sum(S) == SumOver(Amount, S)
<1>1. IsFiniteSet(Reserved) /\ Reserved \subseteq Refunds
  BY DEF ReservedInv, Reserved
<1>2. Sum(Reserved) \in Int /\ Sum(Reserved) <= Captured
  <2>1. \A r \in Reserved : Amount[r] \in Int
    BY <1>1, AmountAssumption
  <2>2. Sum(Reserved) \in Int
    BY <1>1, <2>1, SumType
  <2> QED BY <2>2 DEF ReservedInv
<1>3. SUFFICES IsFiniteSet(Reserved') /\ Sum(Reserved') <= Captured
  BY DEF ReservedInv
<1>4. CASE Reserved' = Reserved
  BY <1>1, <1>2, <1>4
<1>5. ASSUME NEW r \in Reserved, Reserved' = Reserved \ {r}
      PROVE  IsFiniteSet(Reserved') /\ Sum(Reserved') <= Captured
  <2> DEFINE Rest == Reserved \ {r}
  <2>1. IsFiniteSet(Rest) /\ \A s \in Rest : Amount[s] \in Int
    BY <1>1, AmountAssumption, FS_RemoveElement
  <2>2. Sum(Rest) \in Int
    BY <2>1, SumType
  <2>3. Sum(Reserved) = Amount[r] + Sum(Rest)
    BY <1>1, AmountAssumption, SumRemove
  <2> HIDE DEF Sum
  <2> QED BY <1>1, <1>2, <1>5, <2>1, <2>2, <2>3, AmountAssumption
<1>6. ASSUME NEW r \in Refunds \ Reserved, ~Exceeds(r), Reserved' = Reserved \cup {r}
      PROVE  IsFiniteSet(Reserved') /\ Sum(Reserved') <= Captured
  <2> DEFINE More == Reserved \cup {r}
  <2>1. IsFiniteSet(More)
    BY <1>1, FS_AddElement
  <2>2. Sum(More) = Sum(Reserved) + Amount[r]
    BY <1>1, AmountAssumption, SumAdd
  <2>3. Sum(Reserved) + Amount[r] <= Captured
    BY <1>2, <1>6, GuardIsSum, AmountAssumption
  <2> HIDE DEF Sum
  <2> QED BY <1>6, <2>1, <2>2, <2>3
<1> QED BY <1>4, <1>5, <1>6, ReservedMoves

\* However many requests look at the sum side by side, and whichever instances
\* fail or complete meanwhile, no more is ever reserved than was captured.
THEOREM NeverOverRefunded == Spec => []ReservedWithinCaptured
<1>1. Init => ReservedInv
  <2> SUFFICES ASSUME Init PROVE ReservedInv
    OBVIOUS
  <2>1. Reserved = {}
    BY DEF Init, Reserved
  <2>2. IsFiniteSet({}) /\ SumOver(Amount, {}) = 0
    BY FS_EmptySet, SumEmpty
  <2> QED BY <2>1, <2>2, AmountAssumption DEF ReservedInv
<1>2. Spec => []ReservedInv
  BY <1>1, ReservedStep, InvCorrect, PTL DEF Spec
<1>3. ReservedInv => ReservedWithinCaptured
  BY BoundIsSum DEF ReservedInv
<1> QED BY <1>2, <1>3, PTL
=============================================================================
