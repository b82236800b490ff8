------------------------ MODULE LedgerReconciliation ------------------------
(***************************************************************************)
(* reconcilePendingPostings (services/reconciliation.ts) composed with     *)
(* LedgerDO.  The hourly cron and the daily sweep replay registry rows     *)
(* that are still 'pending' through postTransaction and settle each by the *)
(* answer.  The rows are read once; the object's answer and the registry   *)
(* update are separate steps, with every step of LedgerDO in between.      *)
(*                                                                         *)
(* The pages a run sends (rejected, exhausted, poison) are not state.      *)
(***************************************************************************)
EXTENDS LedgerDO

CONSTANTS
    Reconcilers,          \* concurrent runs (cron, sweep workflow, operator)
    MaxPendingAttempts    \* MAX_PENDING_ATTEMPTS

ASSUME AttemptsAssumption == MaxPendingAttempts \in Nat \ {0}

VARIABLES
    attempts,   \* D1: op_ledger_postings.attempts, counted up to the maximum
    recon       \* memory of each run: rows left, with the attempts read then

reconVars == <<attempts, recon>>
allVars == <<vars, reconVars>>

NoRows == [t \in {} |-> 0]
NotRunning == [rows |-> NoRows, tx |-> {}, answer |-> "none"]

\* The row is done with; the run ends with its last row.
Rest(rows, t) == [u \in DOMAIN rows \ {t} |-> rows[u]]
NextRow(k, t) ==
    recon' = [recon EXCEPT ![k] = [NotRunning EXCEPT !.rows = Rest(recon[k].rows, t)]]

\* An exception nothing catches ends the run.
AbortRun(k) == recon' = [recon EXCEPT ![k] = NotRunning]

ReconInit ==
    /\ Init
    /\ attempts = [t \in TxIds |-> 0]
    /\ recon = [k \in Reconcilers |-> NotRunning]

LedgerStep == Next /\ UNCHANGED reconVars

-----------------------------------------------------------------------------
\* The SELECT of the pending rows past their grace period.
SelectPending(k) ==
    LET pending == {t \in TxIds : registry[t] = "pending"}
    IN  /\ recon[k] = NotRunning
        /\ pending # {}
        /\ recon' = [recon EXCEPT ![k].rows = [t \in pending |-> attempts[t]]]
        /\ UNCHANGED <<vars, attempts>>

Answered(k, t, answer) ==
    /\ recon[k].tx = {}
    /\ t \in DOMAIN recon[k].rows
    /\ recon' = [recon EXCEPT ![k].tx = {t}, ![k].answer = answer]
    /\ UNCHANGED attempts

\* The stored payload goes through postTransaction and the answer comes back.
Replay(k, t) ==
    \E r \in Results : Answered(k, t, r) /\ postTransaction(t, r)

\* The RPC throws: the object did not run it, or ran it and the answer is lost.
ReplayThrows(k, t) ==
    /\ Answered(k, t, "TRANSPORT")
    /\ \/ UNCHANGED vars
       \/ \E r \in Results : postTransaction(t, r)
       \/ PostThenRestart(t)

-----------------------------------------------------------------------------

DeterministicFailures == {"UNBALANCED", "INSUFFICIENT_FUNDS", "UNKNOWN_ACCOUNT",
                          "INVALID", "CURRENCY_MISMATCH"}

Failures == DeterministicFailures \cup {"INTERNAL", "TRANSPORT"}

Awaiting(k, t, answers) == recon[k].tx = {t} /\ recon[k].answer \in answers

ledgerButRegistry == <<bookVars, outboxVars, alarmVars, batch, late, mirror>>

bumpAttempts(t) ==
    attempts' = [attempts EXCEPT
                    ![t] = IF @ < MaxPendingAttempts THEN @ + 1 ELSE @]

\* The quarantine decision: by the code, or by the attempts the SELECT read.
Quarantined(k, t) ==
    /\ recon[k].answer # "TRANSPORT"
    /\ \/ recon[k].answer \in DeterministicFailures
       \/ recon[k].rows[t] + 1 >= MaxPendingAttempts

\* The UPDATE or the batch has run; its answer comes back, or the loss of it
\* ends the run.
Settled(k, t) == NextRow(k, t) \/ AbortRun(k)

\* Mutant of Reject: the error is stored, the status is not.
RejectKeepsPending(k, t) ==
    /\ Awaiting(k, t, Failures)
    /\ Quarantined(k, t)
    /\ bumpAttempts(t)
    /\ Settled(k, t)
    /\ UNCHANGED vars

Reject(k, t) ==
    /\ Awaiting(k, t, Failures)
    /\ Quarantined(k, t)
    /\ registry' = [registry EXCEPT ![t] = "rejected"]
    /\ bumpAttempts(t)
    /\ Settled(k, t)
    /\ UNCHANGED ledgerButRegistry

RetryLater(k, t) ==
    /\ Awaiting(k, t, Failures)
    /\ ~Quarantined(k, t)
    /\ bumpAttempts(t)
    /\ Settled(k, t)
    /\ UNCHANGED vars

\* The UPDATE of either throws without having run: the run ends, and the row
\* is read again by the next.
UpdateThrows(k, t) ==
    /\ Awaiting(k, t, Failures)
    /\ AbortRun(k)
    /\ UNCHANGED <<vars, attempts>>

\* 'duplicate': the object has it, write the audit trail.
Heal(k, t) ==
    /\ Awaiting(k, t, {"duplicate"})
    /\ buildLedgerAuditStatements({t})
    /\ Settled(k, t)
    /\ UNCHANGED <<bookVars, outboxVars, alarmVars, batch, late, attempts>>

HealThrows(k, t) ==
    /\ Awaiting(k, t, {"duplicate"})
    /\ AbortRun(k)
    /\ GiveUpOn({t})
    /\ UNCHANGED <<bookVars, outboxVars, alarmVars, batch, d1Vars, attempts>>

\* 'posted': ask the object to drain.
Drain(k, t) ==
    /\ Awaiting(k, t, {"posted"})
    /\ \E d \in RpcDrainers : DrainRpc(d)
    /\ NextRow(k, t)
    /\ UNCHANGED attempts

DrainThrows(k, t) ==
    /\ Awaiting(k, t, {"posted"})
    /\ AbortRun(k)
    /\ UNCHANGED <<vars, attempts>>

Settle(k, t) ==
    \/ Reject(k, t) \/ RetryLater(k, t) \/ UpdateThrows(k, t)
    \/ Heal(k, t) \/ HealThrows(k, t)
    \/ Drain(k, t) \/ DrainThrows(k, t)

ReconNext ==
    \/ LedgerStep
    \/ \E k \in Reconcilers :
          \/ SelectPending(k)
          \/ \E t \in TxIds : Replay(k, t) \/ ReplayThrows(k, t) \/ Settle(k, t)

ReconSpec == ReconInit /\ [][ReconNext]_allVars

(***************************************************************************)
(* Fairness.  Set alarms are delivered and their handlers run to the end,  *)
(* time passes, and a D1 or an object that is asked again and again        *)
(* answers in the end.  The cron keeps coming back and a run that has rows *)
(* goes on.  Callers, drain RPCs and restarts promise nothing.             *)
(***************************************************************************)
ReconFairness ==
    /\ WF_allVars(AlarmFires /\ UNCHANGED reconVars)
    /\ WF_allVars(AlarmEnds /\ UNCHANGED reconVars)
    /\ \A d \in Drainers :
          /\ SF_allVars(BatchApply(d) /\ UNCHANGED reconVars)
          /\ SF_allVars(DrainOk(d) /\ UNCHANGED reconVars)
    /\ \A t \in TxIds : WF_allVars(BackoffEnds(t) /\ UNCHANGED reconVars)
    /\ \A k \in Reconcilers :
          /\ WF_allVars(SelectPending(k))
          /\ \A t \in TxIds :
                /\ SF_allVars(Replay(k, t))
                /\ SF_allVars(Heal(k, t))
                /\ SF_allVars(Reject(k, t))
                /\ SF_allVars(RetryLater(k, t))
                /\ WF_allVars(Settle(k, t))

ReconFairSpec == ReconSpec /\ ReconFairness

-----------------------------------------------------------------------------
(***************************************************************************)
(* Properties                                                              *)
(***************************************************************************)
\* Every variable of the composition keeps its type.
ReconTypeOK ==
    /\ TypeOK
    /\ attempts \in [TxIds -> 0..MaxPendingAttempts]
    /\ \A k \in Reconcilers :
          /\ DOMAIN recon[k].rows \subseteq TxIds
          /\ recon[k].tx \subseteq DOMAIN recon[k].rows
          /\ recon[k].answer \in Results \cup {"none", "TRANSPORT"}

\* A heal only ever writes what the object has committed: an answer
\* 'duplicate' or 'posted' held by a run is still true when it is acted on,
\* however long the run took and whatever restarted in between.
HealIsOfPosted ==
    \A k \in Reconcilers : \A t \in recon[k].tx :
        recon[k].answer \in {"duplicate", "posted"} => t \in posted

\* What the code gives up on: a posting of the write-ahead protocol, which has
\* no outbox event, whose replays answered INTERNAL until the attempts were used
\* up.  The row is 'rejected' although the object may hold the posting; nothing
\* writes its audit trail any more (operators are paged).
GivenUp(t) ==
    /\ t \in LegacyTx
    /\ outbox[t] = "none"
    /\ registry[t] = "rejected"
    /\ attempts[t] = MaxPendingAttempts

\* Nothing else is ever given up: beside replays, heals and rejections a
\* committed posting is in the mirror, or its event is pending, or its registry
\* row is, or its attempts are used up.
OnlyExhaustedLost ==
    \A t \in posted \ mirror :
        \/ outbox[t] = "pending"
        \/ t \in LegacyTx /\ registry[t] = "pending"
        \/ GivenUp(t)

\* Every committed posting reaches the D1 mirror, unless it is given up.
EveryPostingMirrored ==
    \A t \in TxIds : t \in posted ~> t \in mirror \/ GivenUp(t)

\* A row the write-ahead protocol left behind is settled in the end.
LegacySettled ==
    \A t \in TxIds : registry[t] = "pending" ~> registry[t] \in {"posted", "rejected"}
=============================================================================
