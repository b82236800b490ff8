--------------------------- MODULE Ledger_proofs ---------------------------
(***************************************************************************)
(* LedgerDO, proved for every set of transactions, accounts and drainers,  *)
(* and LedgerReconciliation, for any runs beside any ledger.               *)
(*                                                                         *)
(* TypeCorrect is an invariant of its own.  SafetyInv adds the balance     *)
(* guard, the currency of the book, and what the copies of the book rest   *)
(* on: that a synced event is in the mirror needs that an applied batch    *)
(* is, which needs to know what batches may hold (TransitInv).  OnItsWay   *)
(* is what every step of the object keeps of a posting on its way to the   *)
(* mirror: that none is lost follows from it, alone (NothingLost) and      *)
(* beside the reconciliation (ReconKeepsLedger).                           *)
(*                                                                         *)
(* A run of the reconciliation acts on an answer while the object goes on: *)
(* it may post, restart and drain in between.  That the answer is still    *)
(* true rests on two facts: it was true when it was given (AnswerIsTrue),  *)
(* and the object never forgets a posting (PostedGrows).                   *)
(***************************************************************************)
EXTENDS LedgerReconciliation, Sums

USE DEF Drainers

\* The amounts of the payloads are integers, so what they add to an account is.
LEMMA DeltaType == \A t \in TxIds, a \in Accounts : Delta(t, a) \in Int
<1> SUFFICES ASSUME NEW t \in TxIds, NEW a \in Accounts PROVE Delta(t, a) \in Int
  OBVIOUS
<1> DEFINE S == {i \in DOMAIN Entries(t) : Entries(t)[i].account_code = a}
           w == [i \in S |-> SignedAmount(Entries(t)[i])]
           Folds(f) == f = [T \in SUBSET S |->
                              IF T = {} THEN 0
                              ELSE SignedAmount(Entries(t)[Pick(T)]) + f[T \ {Pick(T)}]]
<1>1. Entries(t) \in Seq([account_code : STRING, direction : {"debit", "credit"},
                          amount_minor : Int])
  BY PayloadAssumption DEF Entries
<1>2. IsFiniteSet(S)
  <2>1. DOMAIN Entries(t) = 1 .. Len(Entries(t)) /\ Len(Entries(t)) \in Nat
    BY <1>1
  <2>2. IsFiniteSet(1 .. Len(Entries(t)))
    BY <2>1, FS_Interval
  <2>3. QED
    BY <2>1, <2>2, FS_Subset
<1>3. \A i \in S : w[i] \in Int
  <2> SUFFICES ASSUME NEW i \in S PROVE w[i] \in Int
    OBVIOUS
  <2>1. Entries(t)[i].amount_minor \in Int
    <3> DEFINE R == [account_code : STRING, direction : {"debit", "credit"}, amount_minor : Int]
               e == Entries(t)
    <3>1. e \in Seq(R) /\ i \in DOMAIN e
      BY <1>1
    <3>2. \A r \in R : r.amount_minor \in Int
      OBVIOUS
    <3> HIDE DEF R, e
    <3>3. e[i] \in R
      BY <3>1
    <3>4. QED
      BY <3>2, <3>3 DEF e
  <2>2. SignedAmount(Entries(t)[i]) \in Int
    BY <2>1 DEF SignedAmount
  <2>3. QED
    BY <2>2
<1>4. Delta(t, a) = (CHOOSE f : Folds(f))[S]
  BY DEF Delta, Deltas, MapThenSumSet, MapThenFoldSet, Pick
<1>5. \A T \in SUBSET S : T # {} => w[Pick(T)] = SignedAmount(Entries(t)[Pick(T)])
  BY DEF Pick
<1>6. \A f : Folds(f) <=> IsSum(f, w, S)
  BY <1>5 DEF IsSum
<1>7. IsSum(CHOOSE f : Folds(f), w, S)
  BY <1>2, <1>6, SumExists
<1>8. Delta(t, a) = SumOver(w, S)
  BY <1>2, <1>4, <1>7, SumValue
<1>9. QED
  BY <1>2, <1>3, <1>8, SumType

\* What the answer 'posted' means: the transaction is new, it has the currency
\* of the chart, and no account goes below zero (steps B and C of postInner).
LEMMA VerdictPosted ==
    ASSUME NEW t \in TxIds, Verdict(t) = "posted"
    PROVE  /\ t \notin posted
           /\ validatePostingShape[t] = "ok"
           /\ Payload[t].currency = SeededCurrency(t)
           /\ \A a \in Accounts : ~(balance_minor[a] + Delta(t, a) < 0)
<1>1. /\ validatePostingShape[t] = "ok"
      /\ t \notin posted
      /\ BalanceVerdict(t, SeededCurrency(t)) = "posted"
  <2>1. CASE validatePostingShape[t] # "ok"
    <3>1. validatePostingShape[t] \in {"INVALID", "UNBALANCED", "ok"}
      BY DEF validatePostingShape
    <3> QED BY <2>1, <3>1 DEF Verdict
  <2>2. CASE validatePostingShape[t] = "ok"
    BY <2>2 DEF Verdict
  <2> QED BY <2>1, <2>2
<1>2. 1 \in DOMAIN Entries(t)
  <2>1. Entries(t) \in Seq([account_code : STRING, direction : {"debit", "credit"},
                            amount_minor : Int])
    BY PayloadAssumption DEF Entries
  <2>2. ~(Len(Entries(t)) < 2)
    BY <1>1 DEF validatePostingShape
  <2> QED BY <2>1, <2>2
<1>3. Payload[t].currency = SeededCurrency(t)
  BY <1>1, <1>2 DEF BalanceVerdict, UnknownAccount
<1>4. \A a \in Accounts : ~(balance_minor[a] + Delta(t, a) < 0)
  BY <1>1 DEF BalanceVerdict, Overdraws
<1> QED BY <1>1, <1>3, <1>4

\* A drain sends committed events only, and each of them once.
LEMMA IncludedIsPending ==
    ASSUME NEW force
    PROVE  /\ Included(force) \subseteq Pending
           /\ Oversized(force) \subseteq Pending
  BY DEF Included, Selected, Due, Oversized

-----------------------------------------------------------------------------
\* Typing of the parts several actions share.
LEMMA CommitType ==
    ASSUME TypeOK, NEW t \in TxIds, NEW s \in {"pending", "synced"}, Commit(t, s)
    PROVE  /\ posted' \subseteq TxIds
           /\ balance_minor' \in [Accounts -> Int]
           /\ outbox' \in [TxIds -> {"none", "pending", "synced"}]
           /\ outbox_id' \in [TxIds -> Nat]
           /\ backoff' \subseteq TxIds
<1>1. Cardinality(posted) \in Nat
  BY FiniteAssumption, FS_Subset, FS_CardinalityType DEF TypeOK
<1> QED BY <1>1, DeltaType DEF TypeOK, Commit

LEMMA SeededType ==
    ASSUME TypeOK, NEW t \in TxIds
    PROVE  SeededCurrency(t) \in Currencies
  BY PayloadAssumption DEF TypeOK, SeededCurrency

LEMMA D1Type ==
    ASSUME TypeOK, NEW S \in SUBSET TxIds, buildLedgerAuditStatements(S)
    PROVE  /\ mirror' \subseteq TxIds
           /\ registry' \in [TxIds -> {"none", "pending", "posted", "rejected"}]
  BY DEF TypeOK, buildLedgerAuditStatements

LEMMA LateType ==
    ASSUME TypeOK, NEW S \in SUBSET TxIds, GiveUpOn(S)
    PROVE  late' \subseteq SUBSET TxIds
  BY DEF TypeOK, GiveUpOn

LEMMA LoseMemoryType ==
    ASSUME TypeOK, LoseMemory
    PROVE  /\ batch' \in [Drainers -> [state : {"idle", "sent", "applied"}, rows : SUBSET TxIds]]
           /\ late' \subseteq SUBSET TxIds
           /\ alarm' \in {"none", "soon", "far"}
           /\ alarm_pc' \in {"idle", "draining", "drained"}
<1>1. late' \subseteq SUBSET TxIds
  <2>1. CASE UNCHANGED late
    BY <2>1 DEF TypeOK
  <2>2. ASSUME NEW d \in Drainers, GiveUpOn(batch[d].rows)
        PROVE  late' \subseteq SUBSET TxIds
    BY <2>2, LateType DEF TypeOK
  <2> QED BY <2>1, <2>2 DEF LoseMemory
<1> QED BY <1>1 DEF TypeOK, LoseMemory, Idle

\* One typing step per action of Next.
LEMMA TypeStep == TypeOK /\ [Next]_vars => TypeOK'
<1> SUFFICES ASSUME TypeOK, [Next]_vars PROVE TypeOK'
  OBVIOUS
<1>1. CASE Post
  <2> PICK t \in TxIds, r \in Results : postTransaction(t, r)
    BY <1>1 DEF Post
  <2>0. CASE PostFails(t, r)
    BY <2>0, SeededType DEF TypeOK, postTransaction, PostFails, outboxVars, d1Vars
  <2>1. ASSUME chart_currency' = SeededCurrency(t)
        PROVE  chart_currency' \in Currencies
    BY <2>1, SeededType
  <2>2. CASE PostRefused(t, r)
    BY <2>1, <2>2 DEF TypeOK, postTransaction, PostRefused, outboxVars, d1Vars
  <2>3. CASE PostWithOutbox(t, r)
    BY <2>1, <2>3, CommitType
    DEF TypeOK, postTransaction, PostWithOutbox, kickOutboxAlarm, d1Vars
  <2>4. CASE PostSynchronously(t, r)
    <3>1. /\ \E s \in {"pending", "synced"} : Commit(t, s)
          /\ UNCHANGED <<alarm, alarm_pc, batch>>
          /\ chart_currency' = SeededCurrency(t)
      BY <2>4 DEF postTransaction, PostSynchronously
    <3>2. /\ mirror' \subseteq TxIds
          /\ registry' \in [TxIds -> {"none", "pending", "posted", "rejected"}]
          /\ late' \subseteq SUBSET TxIds
      <4>1. CASE UNCHANGED late /\ buildLedgerAuditStatements({t})
        BY <4>1, D1Type DEF TypeOK
      <4>2. CASE GiveUpOn({t}) /\ UNCHANGED d1Vars
        BY <4>2, LateType DEF TypeOK, d1Vars
      <4> QED BY <2>4, <4>1, <4>2 DEF PostSynchronously
    <3> QED BY <2>1, <3>1, <3>2, CommitType DEF TypeOK
  <2> QED BY <2>0, <2>2, <2>3, <2>4 DEF postTransaction
<1>2. ASSUME NEW t \in TxIds, PostThenRestart(t) PROVE TypeOK'
  BY <1>2, SeededType, CommitType, LoseMemoryType DEF TypeOK, PostThenRestart, d1Vars
<1>3. CASE Restart
  BY <1>3, LoseMemoryType DEF TypeOK, Restart, bookVars, outboxVars, d1Vars
<1>4. ASSUME NEW S \in late, LateApply(S) PROVE TypeOK'
  BY <1>4, D1Type DEF TypeOK, LateApply, bookVars, outboxVars, alarmVars
<1>5. ASSUME NEW d \in Drainers, NEW force, drainOutbox(d, force)
      PROVE  /\ backoff' \subseteq TxIds
             /\ batch' \in [Drainers -> [state : {"idle", "sent", "applied"},
                                         rows : SUBSET TxIds]]
             /\ UNCHANGED <<bookVars, outbox, outbox_id, late, d1Vars>>
  BY <1>5, IncludedIsPending DEF TypeOK, drainOutbox, Pending, Idle
<1>6. ASSUME NEW d \in RpcDrainers, DrainRpc(d) PROVE TypeOK'
  BY <1>5, <1>6 DEF TypeOK, DrainRpc, bookVars, alarmVars, d1Vars
<1>7. ASSUME NEW d \in Drainers, BatchApply(d) PROVE TypeOK'
  <2>1. batch[d].rows \in SUBSET TxIds
    BY DEF TypeOK
  <2> QED BY <1>7, <2>1, D1Type DEF TypeOK, BatchApply, bookVars, outboxVars, alarmVars
<1>8. ASSUME NEW d \in Drainers, DrainReturns(d)
      PROVE  /\ batch' \in [Drainers -> [state : {"idle", "sent", "applied"},
                                         rows : SUBSET TxIds]]
             /\ alarm_pc' \in {"idle", "draining", "drained"}
             /\ UNCHANGED alarm
  BY <1>8 DEF TypeOK, DrainReturns, Idle
<1>9. ASSUME NEW d \in Drainers, DrainOk(d) PROVE TypeOK'
  BY <1>8, <1>9 DEF TypeOK, DrainOk, bookVars, d1Vars
<1>10. ASSUME NEW d \in Drainers, DrainFail(d) PROVE TypeOK'
  <2>1. late' \subseteq SUBSET TxIds
    BY <1>10, LateType DEF TypeOK, DrainFail
  <2> QED BY <1>8, <1>10, <2>1 DEF TypeOK, DrainFail, Pending, bookVars, d1Vars
<1>11. CASE AlarmFires
  BY <1>5, <1>11 DEF TypeOK, AlarmFires, bookVars, d1Vars
<1>12. CASE AlarmEnds
  <2> PICK old \in SUBSET Synced, failed \in BOOLEAN : AlarmFinishes(old, failed)
    BY <1>12 DEF AlarmEnds
  <2>1. alarm' \in {"soon", "far"}
    BY DEF AlarmFinishes, scheduleNextAlarm, Nearer
  <2> QED BY <2>1 DEF TypeOK, AlarmFinishes, Cleanup, bookVars, d1Vars
<1>13. ASSUME NEW t \in TxIds, BackoffEnds(t) PROVE TypeOK'
  BY <1>13 DEF TypeOK, BackoffEnds, bookVars, alarmVars, d1Vars
<1>14. CASE UNCHANGED vars
  BY <1>14 DEF TypeOK, vars, bookVars, outboxVars, alarmVars, d1Vars
<1> QED
  BY <1>1, <1>2, <1>3, <1>4, <1>6, <1>7, <1>9, <1>10, <1>11, <1>12, <1>13, <1>14
  DEF Next

LEMMA TypeInit == Init => TypeOK
  BY LegacyAssumption DEF Init, TypeOK, Idle

\* The object, its outbox and the mirror keep their types.
THEOREM TypeCorrect == Spec => []TypeOK
  BY TypeInit, TypeStep, PTL DEF Spec

-----------------------------------------------------------------------------
\* The conjunction that is inductive.
SafetyInv ==
    /\ TypeOK
    /\ NoOverdraft
    /\ OneCurrencyBook
    /\ MirrorNeverAhead
    /\ TransitInv

\* The invariants about the book alone.
BookInv == NoOverdraft /\ OneCurrencyBook /\ (posted # {} => chart_currency # NoCurrency)

\* The invariants about the copies of the book.
MirrorInv ==
    /\ MirrorNeverAhead
    /\ \A t \in TxIds : outbox[t] # "none" => t \in posted
    /\ \A t \in TxIds : outbox[t] = "synced" => t \in mirror

TravelInv ==
    /\ \A d \in Drainers :
          /\ batch[d].rows \subseteq posted
          /\ batch[d].state = "applied" => batch[d].rows \subseteq mirror
    /\ \A S \in late : S \subseteq posted

LEMMA SafetyParts == SafetyInv <=> TypeOK /\ BookInv /\ MirrorInv /\ TravelInv
  BY DEF SafetyInv, BookInv, MirrorInv, TravelInv, TransitInv

\* A commit keeps every account funded and every transaction in the currency
\* of the chart, which the first posting has seeded.
LEMMA CommitKeepsBook ==
    ASSUME TypeOK, BookInv, NEW t \in TxIds, Verdict(t) = "posted",
           NEW s \in {"pending", "synced"}, Commit(t, s),
           chart_currency' = SeededCurrency(t)
    PROVE  BookInv'
<1>1. NoOverdraft'
  <2> SUFFICES ASSUME NEW a \in Accounts PROVE balance_minor'[a] >= 0
    BY DEF NoOverdraft
  <2>1. ~(balance_minor[a] + Delta(t, a) < 0)
    BY VerdictPosted
  <2>2. balance_minor[a] \in Int /\ Delta(t, a) \in Int
    BY DeltaType DEF TypeOK
  <2>3. balance_minor'[a] = balance_minor[a] + Delta(t, a)
    BY DEF Commit
  <2> QED BY <2>1, <2>2, <2>3
<1>2. chart_currency' # NoCurrency
  BY SeededType, PayloadAssumption
<1>3. posted # {} => chart_currency' = chart_currency
  BY DEF BookInv, SeededCurrency
<1>4. OneCurrencyBook'
  BY <1>3, VerdictPosted DEF BookInv, OneCurrencyBook, Commit
<1> QED BY <1>1, <1>2, <1>4 DEF BookInv

\* What D1 does with rows the book holds keeps the mirror behind the book.
LEMMA D1KeepsMirror ==
    ASSUME TypeOK, MirrorInv, NEW S \in SUBSET TxIds, S \subseteq posted,
           buildLedgerAuditStatements(S), UNCHANGED <<posted, outbox>>
    PROVE  MirrorInv' /\ S \subseteq mirror' /\ mirror \subseteq mirror'
<1>1. mirror' = mirror \cup S
  BY DEF buildLedgerAuditStatements
<1>2. \A t \in TxIds : registry'[t] = IF t \in S THEN "posted" ELSE registry[t]
  BY DEF buildLedgerAuditStatements
<1>3. MirrorNeverAhead'
  BY <1>1, <1>2 DEF MirrorInv, MirrorNeverAhead
<1> QED BY <1>1, <1>3 DEF MirrorInv

\* A commit whose event stays pending leaves the mirror behind the book.
LEMMA CommitKeepsMirror ==
    ASSUME TypeOK, MirrorInv, NEW t \in TxIds, t \notin posted,
           Commit(t, "pending"), UNCHANGED d1Vars
    PROVE  MirrorInv'
  BY DEF TypeOK, MirrorInv, Commit, d1Vars, MirrorNeverAhead

\* So does one that D1 learns of in the same step.
LEMMA CommitAndMirror ==
    ASSUME TypeOK, MirrorInv, NEW t \in TxIds, NEW s \in {"pending", "synced"},
           t \notin posted, Commit(t, s), buildLedgerAuditStatements({t})
    PROVE  MirrorInv' /\ mirror \subseteq mirror'
<1>1. mirror' = mirror \cup {t} /\ posted' = posted \cup {t}
  BY DEF Commit, buildLedgerAuditStatements
<1>2. \A u \in TxIds : /\ registry'[u] = IF u = t THEN "posted" ELSE registry[u]
                       /\ outbox'[u] = IF u = t THEN s ELSE outbox[u]
  BY DEF TypeOK, Commit, buildLedgerAuditStatements
<1>3. posted \subseteq TxIds
  BY DEF TypeOK
<1> QED BY <1>1, <1>2, <1>3 DEF MirrorInv, MirrorNeverAhead

\* Batches that travel stay within the book as it grows.
LEMMA GiveUpKeepsTravel ==
    ASSUME TravelInv, NEW S, S \subseteq posted', GiveUpOn(S),
           posted \subseteq posted', mirror \subseteq mirror',
           \A d \in Drainers : batch'[d] \in {batch[d], Idle}
    PROVE  TravelInv'
  BY DEF TravelInv, GiveUpOn, Idle

LEMMA GrowthKeepsTravel ==
    ASSUME TravelInv, late' \subseteq late,
           posted \subseteq posted', mirror \subseteq mirror',
           \A d \in Drainers : batch'[d] \in {batch[d], Idle}
    PROVE  TravelInv'
  BY DEF TravelInv, Idle

LEMMA LoseMemoryKeepsTravel ==
    ASSUME TravelInv, LoseMemory, posted \subseteq posted', mirror \subseteq mirror'
    PROVE  TravelInv'
<1>1. \A d \in Drainers : batch'[d] \in {batch[d], Idle}
  BY DEF LoseMemory
<1>2. CASE UNCHANGED late
  BY <1>1, <1>2, GrowthKeepsTravel
<1>3. ASSUME NEW d \in Drainers, GiveUpOn(batch[d].rows) PROVE TravelInv'
  <2>1. batch[d].rows \subseteq posted'
    BY DEF TravelInv
  <2> QED BY <1>1, <1>3, <2>1, GiveUpKeepsTravel
<1> QED BY <1>2, <1>3 DEF LoseMemory

-----------------------------------------------------------------------------
LEMMA SafetyInit == Init => SafetyInv
<1> SUFFICES ASSUME Init PROVE SafetyInv
  OBVIOUS
<1>1. TypeOK
  BY TypeInit
<1>2. posted \subseteq LegacyTx
  BY DEF Init
<1>3. BookInv
  BY DEF Init, BookInv, NoOverdraft, OneCurrencyBook
<1>4. MirrorInv
  <2> PICK waiting \in SUBSET LegacyTx :
        registry = [t \in TxIds |-> IF t \in waiting THEN "pending" ELSE "none"]
    BY DEF Init
  <2> QED BY <1>1, <1>2 DEF Init, TypeOK, MirrorInv, MirrorNeverAhead
<1>5. TravelInv
  BY DEF Init, TravelInv, Idle
<1> QED BY <1>1, <1>3, <1>4, <1>5, SafetyParts

\* One step per action, and under it one per group of conjuncts it can disturb.
LEMMA SafetyStep == SafetyInv /\ [Next]_vars => SafetyInv'
<1> SUFFICES ASSUME SafetyInv, [Next]_vars PROVE SafetyInv'
  OBVIOUS
<1>1. TypeOK /\ BookInv /\ MirrorInv /\ TravelInv
  BY SafetyParts
<1>2. TypeOK'
  BY <1>1, TypeStep
<1>3. SUFFICES BookInv' /\ MirrorInv' /\ TravelInv'
  BY <1>2 DEF SafetyInv, BookInv, MirrorInv, TravelInv, TransitInv
<1>4. UNCHANGED bookVars => BookInv'
  BY <1>1 DEF bookVars, BookInv, NoOverdraft, OneCurrencyBook
<1>5. UNCHANGED <<posted, outbox, d1Vars>> => MirrorInv'
  BY <1>1 DEF d1Vars, MirrorInv, MirrorNeverAhead
<1>6. CASE Post
  <2> PICK t \in TxIds, r \in Results : postTransaction(t, r)
    BY <1>6 DEF Post
  <2>1. /\ UNCHANGED batch
        /\ PostFails(t, r) \/ chart_currency' = SeededCurrency(t)
    BY DEF postTransaction, PostRefused, PostWithOutbox, PostSynchronously
  <2>2. CASE PostRefused(t, r) \/ PostFails(t, r)
    <3>0. /\ UNCHANGED <<balance_minor, posted, outboxVars, late, d1Vars>>
          /\ chart_currency' \in {chart_currency, SeededCurrency(t)}
      BY <2>2 DEF PostRefused, PostFails
    <3>1. BookInv'
      BY <1>1, <3>0, SeededType, PayloadAssumption
      DEF BookInv, NoOverdraft, OneCurrencyBook, SeededCurrency
    <3>2. MirrorInv'
      BY <1>5, <3>0 DEF outboxVars
    <3>3. TravelInv'
      BY <1>1, <2>1, <3>0, GrowthKeepsTravel DEF d1Vars
    <3> QED BY <3>1, <3>2, <3>3
  <2>3. CASE PostWithOutbox(t, r)
    <3>1. /\ Verdict(t) = "posted" /\ Commit(t, "pending") /\ UNCHANGED <<late, d1Vars>>
          /\ chart_currency' = SeededCurrency(t)
      BY <2>3 DEF PostWithOutbox
    <3>2. t \notin posted /\ posted \subseteq posted'
      BY <3>1, VerdictPosted DEF Commit
    <3>3. BookInv' /\ MirrorInv'
      BY <1>1, <2>1, <3>1, <3>2, CommitKeepsBook, CommitKeepsMirror
    <3>4. TravelInv'
      BY <1>1, <2>1, <3>1, <3>2, GrowthKeepsTravel DEF d1Vars
    <3> QED BY <3>3, <3>4
  <2>4. CASE PostSynchronously(t, r)
    <3>1. Verdict(t) = "posted" /\ chart_currency' = SeededCurrency(t)
      BY <2>4 DEF PostSynchronously
    <3>2. ASSUME NEW s \in {"pending", "synced"}, Commit(t, s)
          PROVE  BookInv' /\ t \in posted' /\ t \notin posted /\ posted \subseteq posted'
      BY <1>1, <2>1, <3>1, <3>2, CommitKeepsBook, VerdictPosted DEF Commit
    <3>3. ASSUME NEW s \in {"pending", "synced"}, Commit(t, s),
                 buildLedgerAuditStatements({t}), UNCHANGED late
          PROVE  BookInv' /\ MirrorInv' /\ TravelInv'
      BY <1>1, <2>1, <3>2, <3>3, CommitAndMirror, GrowthKeepsTravel
    <3>4. ASSUME Commit(t, "pending"), GiveUpOn({t}), UNCHANGED d1Vars
          PROVE  BookInv' /\ MirrorInv' /\ TravelInv'
      <4>1. {t} \subseteq posted' /\ mirror \subseteq mirror'
        BY <3>2, <3>4 DEF d1Vars
      <4> QED BY <1>1, <2>1, <3>2, <3>4, <4>1, CommitKeepsMirror, GiveUpKeepsTravel
    <3> QED BY <2>4, <3>3, <3>4 DEF PostSynchronously
  <2> QED BY <2>2, <2>3, <2>4 DEF postTransaction
<1>7. ASSUME NEW t \in TxIds, PostThenRestart(t)
      PROVE  BookInv' /\ MirrorInv' /\ TravelInv'
  <2>1. /\ Verdict(t) = "posted" /\ chart_currency' = SeededCurrency(t)
        /\ Commit(t, "pending") /\ LoseMemory /\ UNCHANGED d1Vars
    BY <1>7 DEF PostThenRestart
  <2>2. t \notin posted /\ posted \subseteq posted' /\ mirror \subseteq mirror'
    BY <2>1, VerdictPosted DEF Commit, d1Vars
  <2> QED BY <1>1, <2>1, <2>2, CommitKeepsBook, CommitKeepsMirror, LoseMemoryKeepsTravel
<1>8. CASE Restart
  BY <1>1, <1>4, <1>5, <1>8, LoseMemoryKeepsTravel
  DEF Restart, bookVars, outboxVars, d1Vars
<1>9. ASSUME NEW S \in late, LateApply(S)
      PROVE  BookInv' /\ MirrorInv' /\ TravelInv'
  <2>1. /\ S \subseteq posted /\ S \in SUBSET TxIds /\ late' \subseteq late
        /\ buildLedgerAuditStatements(S) /\ UNCHANGED <<bookVars, outboxVars, batch>>
    BY <1>1, <1>9 DEF LateApply, TravelInv, TypeOK
  <2>2. MirrorInv' /\ mirror \subseteq mirror'
    BY <1>1, <2>1, D1KeepsMirror DEF bookVars, outboxVars
  <2> QED BY <1>1, <1>4, <2>1, <2>2, GrowthKeepsTravel DEF bookVars
<1>10. ASSUME NEW d \in Drainers, NEW force, drainOutbox(d, force)
       PROVE  BookInv' /\ MirrorInv' /\ TravelInv'
  <2>1. Included(force) \subseteq posted
    BY <1>1, IncludedIsPending DEF MirrorInv, Pending
  <2>2. \A e \in Drainers : batch'[e] \in {batch[e], Idle,
                               [state |-> "sent", rows |-> Included(force)]}
    BY <1>1, <1>10 DEF drainOutbox, TypeOK
  <2>3. UNCHANGED <<posted, mirror, late>>
    BY <1>10 DEF drainOutbox, bookVars, d1Vars
  <2>4. TravelInv'
    BY <1>1, <2>1, <2>2, <2>3 DEF TravelInv, Idle
  <2> QED BY <1>4, <1>5, <1>10, <2>4 DEF drainOutbox, bookVars
<1>11. ASSUME NEW d \in RpcDrainers, DrainRpc(d)
       PROVE  BookInv' /\ MirrorInv' /\ TravelInv'
  BY <1>10, <1>11 DEF DrainRpc
<1>12. ASSUME NEW d \in Drainers, BatchApply(d)
       PROVE  BookInv' /\ MirrorInv' /\ TravelInv'
  <2>1. /\ batch[d].rows \subseteq posted /\ batch[d].rows \in SUBSET TxIds
        /\ buildLedgerAuditStatements(batch[d].rows)
        /\ UNCHANGED <<bookVars, outboxVars, late>>
    BY <1>1, <1>12 DEF BatchApply, TravelInv, TypeOK
  <2>2. MirrorInv' /\ batch[d].rows \subseteq mirror' /\ mirror \subseteq mirror'
    BY <1>1, <2>1, D1KeepsMirror DEF bookVars, outboxVars
  <2>3. \A e \in Drainers : batch'[e] = IF e = d
              THEN [state |-> "applied", rows |-> batch[d].rows] ELSE batch[e]
    BY <1>1, <1>12 DEF BatchApply, TypeOK
  <2>4. TravelInv'
    BY <1>1, <2>1, <2>2, <2>3 DEF TravelInv, bookVars
  <2> QED BY <1>4, <2>1, <2>2, <2>4
<1>13. ASSUME NEW d \in Drainers, DrainReturns(d)
       PROVE  \A e \in Drainers : batch'[e] \in {batch[e], Idle}
  BY <1>1, <1>13 DEF DrainReturns, TypeOK
<1>14. ASSUME NEW d \in Drainers, DrainOk(d)
       PROVE  BookInv' /\ MirrorInv' /\ TravelInv'
  <2>1. /\ batch[d].rows \subseteq mirror /\ UNCHANGED <<bookVars, late, d1Vars>>
        /\ DrainReturns(d)
    BY <1>1, <1>14 DEF DrainOk, TravelInv
  <2>2. \A t \in TxIds : outbox'[t] = IF t \in batch[d].rows /\ outbox[t] # "none"
                                      THEN "synced" ELSE outbox[t]
    BY <1>14 DEF DrainOk
  <2>3. MirrorInv'
    BY <1>1, <2>1, <2>2
    DEF TypeOK, bookVars, d1Vars, MirrorInv, MirrorNeverAhead
  <2>4. TravelInv'
    BY <1>1, <1>13, <2>1, GrowthKeepsTravel DEF bookVars, d1Vars
  <2> QED BY <1>4, <2>1, <2>3, <2>4
<1>15. ASSUME NEW d \in Drainers, DrainFail(d)
       PROVE  BookInv' /\ MirrorInv' /\ TravelInv'
  <2>1. /\ GiveUpOn(batch[d].rows) \/ UNCHANGED late
        /\ DrainReturns(d) /\ UNCHANGED <<bookVars, outbox, d1Vars>>
    BY <1>15 DEF DrainFail
  <2>2. batch[d].rows \subseteq posted' /\ posted \subseteq posted' /\ mirror \subseteq mirror'
    BY <1>1, <2>1 DEF TravelInv, bookVars, d1Vars
  <2>3. TravelInv'
    BY <1>1, <1>13, <2>1, <2>2, GiveUpKeepsTravel, GrowthKeepsTravel
  <2> QED BY <1>4, <1>5, <2>1, <2>3 DEF bookVars
<1>16. CASE AlarmFires
  BY <1>10, <1>16 DEF AlarmFires
<1>17. CASE AlarmEnds
  <2> PICK old \in SUBSET Synced, failed \in BOOLEAN : AlarmFinishes(old, failed)
    BY <1>17 DEF AlarmEnds
  <2>1. UNCHANGED <<bookVars, batch, late, d1Vars>>
    BY DEF AlarmFinishes
  <2>2. \A t \in TxIds : \/ outbox'[t] = outbox[t]
                         \/ (outbox[t] = "synced" /\ outbox'[t] = "none")
    BY DEF AlarmFinishes, Cleanup, Synced
  <2>3. MirrorInv'
    BY <1>1, <2>1, <2>2
    DEF TypeOK, bookVars, d1Vars, MirrorInv, MirrorNeverAhead
  <2>4. TravelInv'
    BY <1>1, <2>1, GrowthKeepsTravel DEF bookVars, d1Vars
  <2> QED BY <1>4, <2>1, <2>3, <2>4
<1>18. ASSUME NEW t \in TxIds, BackoffEnds(t)
       PROVE  BookInv' /\ MirrorInv' /\ TravelInv'
  BY <1>1, <1>4, <1>5, <1>18, GrowthKeepsTravel DEF BackoffEnds, bookVars, d1Vars
<1>19. CASE UNCHANGED vars
  BY <1>1, <1>4, <1>5, <1>19, GrowthKeepsTravel DEF vars, bookVars, outboxVars, d1Vars
<1> QED
  BY <1>6, <1>7, <1>8, <1>9, <1>11, <1>12, <1>14, <1>15, <1>16, <1>17, <1>18, <1>19
  DEF Next

\* The inductive invariant holds throughout.
THEOREM SafetyCorrect == Spec => []SafetyInv
  BY SafetyInit, SafetyStep, PTL DEF Spec

\* checkBalances keeps every account funded, whatever is posted.
THEOREM NeverOverdrawn == Spec => []NoOverdraft
<1>1. SafetyInv => NoOverdraft
  BY DEF SafetyInv
<1> QED BY <1>1, SafetyCorrect, PTL

\* A book is of one currency: seedChart seeds once, checkBalances compares.
THEOREM CurrencyCorrect == Spec => []OneCurrencyBook
<1>1. SafetyInv => OneCurrencyBook
  BY DEF SafetyInv
<1> QED BY <1>1, SafetyCorrect, PTL

\* What is on its way (an outbox row, a batch, a late batch) is of the book, and
\* what counts as synced is in the mirror.
THEOREM TransitCorrect == Spec => []TransitInv
<1>1. SafetyInv => TransitInv
  BY DEF SafetyInv
<1> QED BY <1>1, SafetyCorrect, PTL

\* The mirror shows committed transactions only.
THEOREM MirrorCorrect == Spec => []MirrorNeverAhead
<1>1. SafetyInv => MirrorNeverAhead
  BY DEF SafetyInv
<1> QED BY <1>1, SafetyCorrect, PTL

-----------------------------------------------------------------------------
(***************************************************************************)
(* The object implements AccountBook.                                      *)
(***************************************************************************)
\* A commit is the step Enter of the book.
LEMMA CommitEnters ==
    ASSUME TypeOK, NEW t \in TxIds, Verdict(t) = "posted", NEW s, Commit(t, s)
    PROVE  Book!Enter(t)
<1>1. t \notin posted /\ \A a \in Accounts : ~(balance_minor[a] + Delta(t, a) < 0)
  BY VerdictPosted
<1>2. \A a \in Accounts : balance_minor[a] + Delta(t, a) >= 0
  BY <1>1, DeltaType DEF TypeOK
<1> QED BY <1>1, <1>2 DEF Commit, Book!Enter

\* A step enters one transaction or leaves the book alone, and the mirror only
\* grows.
LEMMA BookStep ==
    SafetyInv /\ SafetyInv' /\ [Next]_vars => Book!Next
<1> SUFFICES ASSUME SafetyInv, SafetyInv', [Next]_vars PROVE Book!Next
  OBVIOUS
<1> DEFINE Same  == UNCHANGED <<posted, balance_minor>>
           Grows == mirror \subseteq mirror'
<1>1. TypeOK
  BY DEF SafetyInv
<1>2. \A S : buildLedgerAuditStatements(S) => Grows
  BY DEF buildLedgerAuditStatements
<1>3. UNCHANGED d1Vars => Grows
  BY DEF d1Vars
<1>4. UNCHANGED bookVars => Same
  BY DEF bookVars
<1>5. SUFFICES (Same \/ \E t \in TxIds : Book!Enter(t)) /\ Grows
  <2>1. mirror' \subseteq posted'
    BY DEF SafetyInv, MirrorNeverAhead
  <2> QED BY <1>5, <2>1 DEF Book!Next, Book!Copy
<1>6. CASE Post
  <2> PICK t \in TxIds, r \in Results : postTransaction(t, r)
    BY <1>6 DEF Post
  <2>1. CASE PostRefused(t, r) \/ PostFails(t, r)
    BY <1>3, <2>1 DEF PostRefused, PostFails
  <2>2. CASE PostWithOutbox(t, r)
    BY <1>1, <1>3, <2>2, CommitEnters DEF PostWithOutbox
  <2>3. CASE PostSynchronously(t, r)
    <3>1. Verdict(t) = "posted" /\ \E s : Commit(t, s)
      BY <2>3 DEF PostSynchronously
    <3>2. Grows
      BY <1>2, <1>3, <2>3 DEF PostSynchronously
    <3> QED BY <1>1, <3>1, <3>2, CommitEnters
  <2> QED BY <2>1, <2>2, <2>3 DEF postTransaction
<1>7. ASSUME NEW t \in TxIds, PostThenRestart(t)
      PROVE  (\E u \in TxIds : Book!Enter(u)) /\ Grows
  BY <1>1, <1>3, <1>7, CommitEnters DEF PostThenRestart
<1>8. CASE Restart
  BY <1>3, <1>4, <1>8 DEF Restart
<1>9. ASSUME NEW S, LateApply(S) PROVE Same /\ Grows
  BY <1>2, <1>4, <1>9 DEF LateApply
<1>10. ASSUME NEW d, NEW force, drainOutbox(d, force) PROVE Same /\ Grows
  BY <1>3, <1>4, <1>10 DEF drainOutbox
<1>11. ASSUME NEW d, DrainRpc(d) \/ BatchApply(d) \/ DrainOk(d) \/ DrainFail(d)
       PROVE  Same /\ Grows
  BY <1>2, <1>3, <1>4, <1>10, <1>11 DEF DrainRpc, BatchApply, DrainOk, DrainFail
<1>12. CASE AlarmFires
  BY <1>10, <1>12 DEF AlarmFires
<1>13. CASE AlarmEnds
  BY <1>3, <1>4, <1>13 DEF AlarmEnds, AlarmFinishes
<1>14. ASSUME NEW t, BackoffEnds(t) PROVE Same /\ Grows
  BY <1>3, <1>4, <1>14 DEF BackoffEnds
<1>15. CASE UNCHANGED vars
  BY <1>3, <1>4, <1>15 DEF vars
<1> QED
  BY <1>6, <1>7, <1>8, <1>9, <1>11, <1>12, <1>13, <1>14, <1>15 DEF Next

\* The ledger object keeps the promise of AccountBook: transactions are entered
\* once and whole, balances move in no other way, the mirror follows.
THEOREM Refinement == Spec => ImplementsBook
<1>1. Init => Book!Init
  <2> SUFFICES ASSUME Init PROVE Book!Init
    OBVIOUS
  <2>1. balance_minor \in [Accounts -> Nat]
    BY DEF Init
  <2> QED BY <2>1, LegacyAssumption DEF Init, Book!Init
<1>2. SafetyInv /\ SafetyInv' /\ [Next]_vars
        => [Book!Next]_<<posted, balance_minor, mirror>>
  BY BookStep
<1> QED BY <1>1, <1>2, SafetyCorrect, PTL DEF Spec, ImplementsBook, Book!Spec

-----------------------------------------------------------------------------
(***************************************************************************)
(* The trial balance.                                                      *)
(***************************************************************************)
\* The fold of BookBalance is the sum of what the transactions add.
LEMMA BalanceIsSum ==
    ASSUME NEW a \in Accounts, NEW S \in SUBSET TxIds
    PROVE  BookBalance(S, a) = SumOver([t \in TxIds |-> Delta(t, a)], S)
<1> DEFINE w == [t \in TxIds |-> Delta(t, a)]
           Folds(f) == f = [T \in SUBSET S |->
                              IF T = {} THEN 0 ELSE Delta(Pick(T), a) + f[T \ {Pick(T)}]]
<1>1. BookBalance(S, a) = (CHOOSE f : Folds(f))[S]
  BY DEF BookBalance, MapThenSumSet, MapThenFoldSet, Pick
<1>2. IsFiniteSet(S)
  BY FiniteAssumption, FS_Subset
<1>3. \A T \in SUBSET S : T # {} => w[Pick(T)] = Delta(Pick(T), a)
  BY DEF Pick
<1>4. \A f : Folds(f) <=> IsSum(f, w, S)
  BY <1>3 DEF IsSum
<1>5. IsSum(CHOOSE f : Folds(f), w, S)
  BY <1>2, <1>4, SumExists
<1>6. QED
  BY <1>1, <1>2, <1>5, SumValue

\* So is each side of the journal.
LEMMA TotalIsSum ==
    ASSUME NEW direction, NEW S \in SUBSET TxIds
    PROVE  MapThenSumSet(LAMBDA t : Total(t, direction), S)
             = SumOver([t \in TxIds |-> Total(t, direction)], S)
<1> DEFINE w == [t \in TxIds |-> Total(t, direction)]
           Folds(f) == f = [T \in SUBSET S |->
                              IF T = {} THEN 0
                              ELSE Total(Pick(T), direction) + f[T \ {Pick(T)}]]
<1>1. MapThenSumSet(LAMBDA t : Total(t, direction), S) = (CHOOSE f : Folds(f))[S]
  BY DEF MapThenSumSet, MapThenFoldSet, Pick
<1>2. IsFiniteSet(S)
  BY FiniteAssumption, FS_Subset
<1>3. \A T \in SUBSET S : T # {} => w[Pick(T)] = Total(Pick(T), direction)
  BY DEF Pick
<1>4. \A f : Folds(f) <=> IsSum(f, w, S)
  BY <1>3 DEF IsSum
<1>5. IsSum(CHOOSE f : Folds(f), w, S)
  BY <1>2, <1>4, SumExists
<1>6. QED
  BY <1>1, <1>2, <1>5, SumValue

\* Every transaction of the book is balanced in itself, and every balance is
\* what the book adds up to.
BalancedInv ==
    /\ \A t \in posted : validatePostingShape[t] = "ok"
    /\ \A a \in Accounts : balance_minor[a] = BookBalance(posted, a)

LEMMA BalancedBook == TypeOK /\ BalancedInv => TrialBalance
<1> SUFFICES ASSUME TypeOK, BalancedInv PROVE TrialBalance
  OBVIOUS
<1>1. posted \in SUBSET TxIds /\ IsFiniteSet(posted)
  BY FiniteAssumption, FS_Subset DEF TypeOK
<1>2. \A t \in posted : Total(t, "debit") = Total(t, "credit")
  BY <1>1 DEF BalancedInv, validatePostingShape
<1>3. SumOver([t \in TxIds |-> Total(t, "debit")], posted)
        = SumOver([t \in TxIds |-> Total(t, "credit")], posted)
  <2> DEFINE w == [t \in TxIds |-> Total(t, "debit")]
             v == [t \in TxIds |-> Total(t, "credit")]
  <2>1. \A t \in posted : w[t] = v[t]
    BY <1>1, <1>2
  <2> HIDE DEF w, v
  <2>2. SumOver(w, posted) = SumOver(v, posted)
    BY <1>1, <2>1, SumSame
  <2>3. QED
    BY <2>2 DEF w, v
<1>4. QED
  BY <1>1, <1>3, TotalIsSum DEF TrialBalance, BalancedInv

\* A posting adds to the balances what it adds to the sums.
LEMMA CommitBalances ==
    ASSUME TypeOK, BalancedInv, NEW t \in TxIds, Verdict(t) = "posted", NEW s, Commit(t, s)
    PROVE  BalancedInv'
<1>1. /\ posted \in SUBSET TxIds /\ posted \cup {t} \in SUBSET TxIds
      /\ IsFiniteSet(posted) /\ t \notin posted
  BY FiniteAssumption, FS_Subset, VerdictPosted DEF TypeOK
<1>2. posted' = posted \cup {t}
  BY DEF Commit
<1>3. ASSUME NEW a \in Accounts
      PROVE  balance_minor'[a] = BookBalance(posted \cup {t}, a)
  <2> DEFINE w == [u \in TxIds |-> Delta(u, a)]
  <2>1. \A u \in posted \cup {t} : w[u] \in Int
    BY <1>1, DeltaType
  <2>2. w[t] = Delta(t, a)
    OBVIOUS
  <2>3. BookBalance(posted, a) = SumOver(w, posted)
        /\ BookBalance(posted \cup {t}, a) = SumOver(w, posted \cup {t})
    BY <1>1, BalanceIsSum
  <2> HIDE DEF w
  <2>4. SumOver(w, posted \cup {t}) = SumOver(w, posted) + w[t]
    BY <1>1, <2>1, SumAdd
  <2>5. balance_minor'[a] = balance_minor[a] + Delta(t, a)
    BY DEF Commit
  <2>6. QED
    BY <2>2, <2>3, <2>4, <2>5 DEF BalancedInv
<1>4. \A u \in posted' : validatePostingShape[u] = "ok"
  BY <1>2, VerdictPosted DEF BalancedInv
<1>5. QED
  BY <1>2, <1>3, <1>4 DEF BalancedInv

LEMMA BalancedStep == TypeOK /\ BalancedInv /\ [Next]_vars => BalancedInv'
<1> SUFFICES ASSUME TypeOK, BalancedInv, [Next]_vars PROVE BalancedInv'
  OBVIOUS
<1>1. UNCHANGED <<posted, balance_minor>> => BalancedInv'
  BY DEF BalancedInv
<1>2. \A t \in TxIds : \A s : Verdict(t) = "posted" /\ Commit(t, s) => BalancedInv'
  BY CommitBalances
<1>3. CASE Post
  BY <1>1, <1>2, <1>3
  DEF Post, postTransaction, PostFails, PostRefused, PostWithOutbox, PostSynchronously
<1>4. ASSUME NEW t \in TxIds, PostThenRestart(t) PROVE BalancedInv'
  BY <1>2, <1>4 DEF PostThenRestart
<1>5. ASSUME NEW d, DrainRpc(d) \/ BatchApply(d) \/ DrainOk(d) \/ DrainFail(d)
      PROVE  BalancedInv'
  BY <1>1, <1>5 DEF DrainRpc, drainOutbox, BatchApply, DrainOk, DrainFail, bookVars
<1>6. CASE Restart \/ AlarmFires \/ AlarmEnds
  BY <1>1, <1>6 DEF Restart, AlarmFires, drainOutbox, AlarmEnds, AlarmFinishes, bookVars
<1>7. ASSUME NEW x, LateApply(x) \/ BackoffEnds(x) PROVE BalancedInv'
  BY <1>1, <1>7 DEF LateApply, BackoffEnds, bookVars
<1>8. CASE UNCHANGED vars
  BY <1>1, <1>8 DEF vars, bookVars
<1>9. QED
  BY <1>3, <1>4, <1>5, <1>6, <1>7, <1>8 DEF Next

\* trialBalance() always answers "balanced", for any number of transactions with
\* any number of entries: debits equal credits over the journal, and each stored
\* balance is what the journal entries of its account add up to.
THEOREM AlwaysBalanced == Spec => []TrialBalance
<1>1. Init => BalancedInv
  BY DEF Init, BalancedInv
<1>2. Spec => []BalancedInv
  BY <1>1, BalancedStep, TypeCorrect, PTL DEF Spec
<1>3. QED
  BY <1>2, BalancedBook, TypeCorrect, PTL

-----------------------------------------------------------------------------
\* An alarm is stored, or the handler that will store one is running.
AlarmInv == alarm # "none" \/ alarm_pc # "idle"

\* A pending event is never left without a wake-up: the constructor, alarm()
\* and kickOutboxAlarm between them see to it that there always is one.
THEOREM AlwaysWoken == Spec => []PendingHasWakeup
<1>1. Init => AlarmInv
  BY DEF Init, AlarmInv
<1>2. AlarmInv /\ [Next]_vars => AlarmInv'
  <2> SUFFICES ASSUME AlarmInv, [Next]_vars PROVE AlarmInv'
    OBVIOUS
  <2>1. UNCHANGED alarmVars => AlarmInv'
    BY DEF alarmVars, AlarmInv
  <2>2. LoseMemory => AlarmInv'
    BY DEF LoseMemory, AlarmInv
  <2>3. CASE Post
    BY <2>3 DEF AlarmInv, Post, postTransaction, PostFails, PostRefused, PostWithOutbox,
                PostSynchronously, kickOutboxAlarm
  <2>4. CASE Restart \/ \E t \in TxIds : PostThenRestart(t)
    BY <2>2, <2>4 DEF Restart, PostThenRestart
  <2>5. ASSUME NEW d, DrainOk(d) \/ DrainFail(d) PROVE AlarmInv'
    BY <2>5 DEF AlarmInv, DrainOk, DrainFail, DrainReturns
  <2>6. ASSUME NEW d, DrainRpc(d) \/ BatchApply(d) PROVE AlarmInv'
    BY <2>1, <2>6 DEF DrainRpc, BatchApply
  <2>7. CASE AlarmFires
    BY <2>7 DEF AlarmInv, AlarmFires
  <2>8. CASE AlarmEnds
    BY <2>8 DEF AlarmInv, AlarmEnds, AlarmFinishes, scheduleNextAlarm, Nearer
  <2>9. CASE (\E S \in late : LateApply(S)) \/ (\E t \in TxIds : BackoffEnds(t))
    BY <2>1, <2>9 DEF LateApply, BackoffEnds
  <2>10. CASE UNCHANGED vars
    BY <2>1, <2>10 DEF vars
  <2> QED BY <2>3, <2>4, <2>5, <2>6, <2>7, <2>8, <2>9, <2>10 DEF Next
<1>3. AlarmInv => PendingHasWakeup
  BY DEF AlarmInv, PendingHasWakeup
<1> QED BY <1>1, <1>2, <1>3, PTL DEF Spec

-----------------------------------------------------------------------------
(* The way of a posting from the commit to the mirror                      *)

\* A posting that waits for its registry row to be replayed.
Waits(t) == t \in posted \ mirror /\ outbox[t] # "pending"

\* What was on its way stays so until it is in the mirror, what is new is on
\* its way, and what is left is what waited before, in the registry.
OnItsWay ==
    /\ mirror \subseteq mirror'
    /\ \A t \in TxIds : outbox[t] # "none" => outbox'[t] # "none" \/ t \in mirror
    /\ \A t \in posted' : t \in posted \/ (validatePostingShape[t] = "ok" /\ outbox'[t] # "none")
    /\ \A t \in posted' \ mirror' : \/ outbox'[t] = "pending"
                                    \/ Waits(t) /\ registry'[t] = registry[t]

LEMMA CommitIsOnItsWay ==
    ASSUME TypeOK, NEW t \in TxIds, Verdict(t) = "posted", NEW s \in {"pending", "synced"},
           Commit(t, s), s = "synced" => t \in mirror', mirror \subseteq mirror',
           \A u \in TxIds : u \in mirror' \/ registry'[u] = registry[u]
    PROVE  OnItsWay
<1>1. validatePostingShape[t] = "ok"
  BY VerdictPosted
<1>2. \A u \in TxIds : outbox'[u] = IF u = t THEN s ELSE outbox[u]
  BY DEF TypeOK, Commit
<1>3. posted' = posted \cup {t} /\ posted \subseteq TxIds
  BY DEF TypeOK, Commit
<1> QED BY <1>1, <1>2, <1>3 DEF OnItsWay, Waits

LEMMA LedgerOnItsWay == SafetyInv /\ [Next]_vars => OnItsWay
<1> SUFFICES ASSUME SafetyInv, [Next]_vars PROVE OnItsWay
  OBVIOUS
<1>0. TypeOK /\ TransitInv
  BY DEF SafetyInv
<1> DEFINE Copies == /\ mirror \subseteq mirror'
                     /\ \A t \in TxIds : t \in mirror' \/ registry'[t] = registry[t]
<1>1. \A S : buildLedgerAuditStatements(S) => Copies
  BY DEF buildLedgerAuditStatements
<1>2. UNCHANGED d1Vars => Copies
  BY DEF d1Vars
<1>3. ASSUME UNCHANGED <<posted, outbox>>, Copies PROVE OnItsWay
  BY <1>0, <1>3 DEF OnItsWay, Waits, TypeOK
<1>4. CASE Post
  <2> PICK t \in TxIds, r \in Results : postTransaction(t, r)
    BY <1>4 DEF Post
  <2>1. CASE PostRefused(t, r) \/ PostFails(t, r)
    BY <1>2, <1>3, <2>1 DEF PostRefused, PostFails, outboxVars
  <2>2. CASE PostWithOutbox(t, r)
    BY <1>0, <1>2, <2>2, CommitIsOnItsWay DEF PostWithOutbox
  <2>3. CASE PostSynchronously(t, r)
    <3>1. Verdict(t) = "posted" /\ Copies
      BY <1>1, <1>2, <2>3 DEF PostSynchronously
    <3>2. CASE Commit(t, "pending")
      BY <1>0, <3>1, <3>2, CommitIsOnItsWay
    <3>3. CASE Commit(t, "synced") /\ buildLedgerAuditStatements({t})
      <4>1. t \in mirror'
        BY <3>3 DEF buildLedgerAuditStatements
      <4> QED BY <1>0, <3>1, <3>3, <4>1, CommitIsOnItsWay
    <3> QED BY <2>3, <3>2, <3>3 DEF PostSynchronously
  <2> QED BY <2>1, <2>2, <2>3 DEF postTransaction
<1>5. ASSUME NEW t \in TxIds, PostThenRestart(t) PROVE OnItsWay
  BY <1>0, <1>2, <1>5, CommitIsOnItsWay DEF PostThenRestart
<1>6. Restart \/ AlarmFires \/ UNCHANGED vars => UNCHANGED <<posted, outbox, d1Vars>>
  BY DEF Restart, AlarmFires, drainOutbox, vars, bookVars, outboxVars
<1>7. ASSUME NEW x, LateApply(x) \/ BatchApply(x)
      PROVE  UNCHANGED <<posted, outbox>> /\ Copies
  BY <1>1, <1>7 DEF LateApply, BatchApply, bookVars, outboxVars
<1>8. ASSUME NEW x, DrainRpc(x) \/ DrainFail(x) \/ BackoffEnds(x)
      PROVE  UNCHANGED <<posted, outbox, d1Vars>>
  BY <1>8 DEF DrainRpc, drainOutbox, DrainFail, BackoffEnds, bookVars
<1>9. ASSUME NEW d \in Drainers, DrainOk(d) PROVE OnItsWay
  <2>1. /\ batch[d].rows \subseteq mirror
        /\ UNCHANGED <<posted, mirror, registry>>
        /\ \A t \in TxIds : outbox'[t] = IF t \in batch[d].rows /\ outbox[t] # "none"
                                          THEN "synced" ELSE outbox[t]
    BY <1>0, <1>9 DEF DrainOk, TransitInv, bookVars, d1Vars
  <2> QED BY <1>0, <2>1 DEF OnItsWay, Waits, TypeOK
<1>10. CASE AlarmEnds
  <2>1. /\ UNCHANGED <<posted, mirror, registry>>
        /\ \A t \in TxIds : \/ outbox'[t] = outbox[t]
                             \/ (outbox[t] = "synced" /\ outbox'[t] = "none")
    <3> PICK old \in SUBSET Synced, failed \in BOOLEAN : AlarmFinishes(old, failed)
      BY <1>10 DEF AlarmEnds
    <3> QED BY DEF AlarmFinishes, Cleanup, Synced, bookVars, d1Vars
  <2> QED BY <1>0, <2>1 DEF TransitInv, OnItsWay, Waits, TypeOK
<1> QED BY <1>2, <1>3, <1>4, <1>5, <1>6, <1>7, <1>8, <1>9, <1>10 DEF Next

\* Between the commit and the D1 mirror no posting is lost, for any number of
\* overlapping drains, failed or late batches, retention sweeps and restarts.
THEOREM NothingLost == Spec => []NoPostingLost
<1>1. Init => NoPostingLost
  <2> SUFFICES ASSUME Init PROVE NoPostingLost
    OBVIOUS
  <2> PICK waiting \in SUBSET LegacyTx :
        /\ posted \subseteq waiting
        /\ registry = [t \in TxIds |-> IF t \in waiting THEN "pending" ELSE "none"]
    BY DEF Init
  <2> QED BY LegacyAssumption DEF NoPostingLost
<1>2. SafetyInv /\ NoPostingLost /\ [Next]_vars => NoPostingLost'
  BY LedgerOnItsWay DEF OnItsWay, Waits, NoPostingLost
<1> QED BY <1>1, <1>2, SafetyCorrect, PTL DEF Spec

-----------------------------------------------------------------------------
(* The reconciliation                                                      *)

\* A run is a record of what it has read.
RunShape ==
    /\ recon = [k \in Reconcilers |-> recon[k]]
    /\ \A k \in Reconcilers :
          recon[k] = [rows |-> recon[k].rows, tx |-> recon[k].tx, answer |-> recon[k].answer]

ReconInv == ReconTypeOK /\ RunShape /\ HealIsOfPosted

-----------------------------------------------------------------------------
\* No step of the object drops a posting.
LEMMA PostedGrows == [Next]_vars => posted \subseteq posted'
<1> SUFFICES ASSUME [Next]_vars PROVE posted \subseteq posted'
  OBVIOUS
<1>1. \A t, s : Commit(t, s) => posted \subseteq posted'
  BY DEF Commit
<1>2. CASE Post
  BY <1>1, <1>2
  DEF Post, postTransaction, PostFails, PostRefused, PostWithOutbox, PostSynchronously
<1>3. ASSUME NEW t, PostThenRestart(t) PROVE posted \subseteq posted'
  BY <1>1, <1>3 DEF PostThenRestart
<1>4. ASSUME UNCHANGED bookVars PROVE posted \subseteq posted'
  BY <1>4 DEF bookVars
<1>5. ASSUME NEW d, DrainRpc(d) \/ BatchApply(d) \/ DrainOk(d) \/ DrainFail(d)
      PROVE  UNCHANGED bookVars
  BY <1>5 DEF DrainRpc, drainOutbox, BatchApply, DrainOk, DrainFail
<1>6. Restart \/ AlarmFires \/ AlarmEnds \/ UNCHANGED vars => UNCHANGED bookVars
  BY DEF Restart, AlarmFires, drainOutbox, AlarmEnds, AlarmFinishes, vars
<1>7. ASSUME NEW x, LateApply(x) \/ BackoffEnds(x) PROVE UNCHANGED bookVars
  BY <1>7 DEF LateApply, BackoffEnds
<1> QED BY <1>2, <1>3, <1>4, <1>5, <1>6, <1>7 DEF Next

\* Whoever is told that a posting is there is told the truth.
LEMMA AnswerIsTrue ==
    ASSUME NEW t \in TxIds, NEW r \in Results, postTransaction(t, r),
           r \in {"duplicate", "posted"}
    PROVE  t \in posted'
<1>1. ASSUME NEW s, Commit(t, s) PROVE t \in posted'
  BY <1>1 DEF Commit
<1>2. CASE PostRefused(t, r)
  <2>1. validatePostingShape[t] \in {"INVALID", "UNBALANCED", "ok"}
    BY DEF validatePostingShape
  <2>2. BalanceVerdict(t, SeededCurrency(t))
          \in {"CURRENCY_MISMATCH", "UNKNOWN_ACCOUNT", "INSUFFICIENT_FUNDS", "posted"}
    BY DEF BalanceVerdict
  <2>3. Verdict(t) = "duplicate" => t \in posted
    BY <2>1, <2>2 DEF Verdict
  <2> QED BY <1>2, <2>3 DEF PostRefused
<1>3. CASE PostWithOutbox(t, r)
  BY <1>1, <1>3 DEF PostWithOutbox
<1>4. CASE PostSynchronously(t, r)
  BY <1>1, <1>4 DEF PostSynchronously
<1>5. ~PostFails(t, r)
  BY DEF PostFails
<1> QED BY <1>2, <1>3, <1>4, <1>5 DEF postTransaction

\* One run moves, the others stay.
LEMMA RunMoves ==
    ASSUME RunShape, NEW k \in Reconcilers, NEW run,
           run = [rows |-> run.rows, tx |-> run.tx, answer |-> run.answer],
           recon' = [recon EXCEPT ![k] = run]
    PROVE  /\ RunShape'
           /\ \A j \in Reconcilers : j # k => recon'[j] = recon[j]
           /\ recon'[k] = run
  BY DEF RunShape

LEMMA AttemptsType ==
    ASSUME ReconTypeOK, NEW t \in TxIds, bumpAttempts(t) \/ UNCHANGED attempts
    PROVE  attempts' \in [TxIds -> 0..MaxPendingAttempts]
  BY AttemptsAssumption DEF ReconTypeOK, bumpAttempts

\* A run that rests holds no answer.
LEMMA Resting ==
    ASSUME ReconInv, NEW k \in Reconcilers, NEW t \in TxIds,
           NextRow(k, t) \/ AbortRun(k), posted \subseteq posted',
           TypeOK', attempts' \in [TxIds -> 0..MaxPendingAttempts]
    PROVE  ReconInv'
<1>1. PICK run : /\ recon' = [recon EXCEPT ![k] = run]
                 /\ run = [rows |-> run.rows, tx |-> {}, answer |-> "none"]
                 /\ DOMAIN run.rows \subseteq TxIds
  <2>1. CASE NextRow(k, t)
    <3> DEFINE run == [NotRunning EXCEPT !.rows = Rest(recon[k].rows, t)]
    <3>1. DOMAIN Rest(recon[k].rows, t) \subseteq TxIds
      BY DEF ReconInv, ReconTypeOK, Rest
    <3>2. run = [rows |-> run.rows, tx |-> {}, answer |-> "none"] /\ DOMAIN run.rows \subseteq TxIds
      BY <3>1 DEF NotRunning
    <3>3. recon' = [recon EXCEPT ![k] = run]
      BY <2>1 DEF NextRow
    <3> HIDE DEF run
    <3> QED BY <3>2, <3>3
  <2>2. CASE AbortRun(k)
    <3>1. /\ NotRunning = [rows |-> NotRunning.rows, tx |-> {}, answer |-> "none"]
          /\ DOMAIN NotRunning.rows \subseteq TxIds
      BY DEF NotRunning, NoRows
    <3> QED BY <2>2, <3>1 DEF AbortRun
  <2> QED BY <2>1, <2>2
<1>2. run.tx = {} /\ run.answer = "none"
  BY <1>1
<1>3. /\ RunShape'
      /\ \A j \in Reconcilers : j # k => recon'[j] = recon[j]
      /\ recon'[k] = run
  BY <1>1, <1>2, RunMoves DEF ReconInv
<1>4. ReconTypeOK'
  BY <1>1, <1>2, <1>3 DEF ReconInv, ReconTypeOK
<1>5. HealIsOfPosted'
  BY <1>2, <1>3 DEF ReconInv, HealIsOfPosted
<1> QED BY <1>3, <1>4, <1>5 DEF ReconInv

\* A run gets an answer that is true.
LEMMA Answers ==
    ASSUME ReconInv, NEW k \in Reconcilers, NEW t \in TxIds,
           NEW r \in Results \cup {"TRANSPORT"}, Answered(k, t, r),
           TypeOK', posted \subseteq posted',
           r \in {"duplicate", "posted"} => t \in posted'
    PROVE  ReconInv'
<1> DEFINE run == [recon[k] EXCEPT !.tx = {t}, !.answer = r]
<1>1. /\ run = [rows |-> run.rows, tx |-> run.tx, answer |-> run.answer]
      /\ run.rows = recon[k].rows /\ run.tx = {t} /\ run.answer = r
  <2>1. PICK rows, tx, answer : recon[k] = [rows |-> rows, tx |-> tx, answer |-> answer]
    BY DEF ReconInv, RunShape
  <2>2. run = [rows |-> rows, tx |-> {t}, answer |-> r]
    <3>1. [recon[k] EXCEPT !.tx = {t}] = [rows |-> rows, tx |-> {t}, answer |-> answer]
      BY <2>1
    <3>2. run = [[recon[k] EXCEPT !.tx = {t}] EXCEPT !.answer = r]
      OBVIOUS
    <3> HIDE DEF run
    <3> QED BY <3>1, <3>2
  <2>3. recon[k].rows = rows
    BY <2>1
  <2> HIDE DEF run
  <2> QED BY <2>2, <2>3
<1>2. recon' = [recon EXCEPT ![k] = run] /\ t \in DOMAIN recon[k].rows /\ UNCHANGED attempts
  BY DEF Answered
<1> HIDE DEF run
<1>3. /\ RunShape'
      /\ \A j \in Reconcilers : j # k => recon'[j] = recon[j]
      /\ recon'[k] = run
  BY <1>1, <1>2, RunMoves DEF ReconInv
<1>4. ReconTypeOK'
  BY <1>1, <1>2, <1>3 DEF ReconInv, ReconTypeOK
<1>5. HealIsOfPosted'
  BY <1>1, <1>3 DEF ReconInv, HealIsOfPosted
<1> QED BY <1>3, <1>4, <1>5 DEF ReconInv

-----------------------------------------------------------------------------
LEMMA ReconInitial == ReconInit => ReconInv
<1> SUFFICES ASSUME ReconInit PROVE ReconInv
  OBVIOUS
<1>1. TypeOK
  BY TypeInit DEF ReconInit
<1> QED BY <1>1, AttemptsAssumption
    DEF ReconInit, ReconInv, ReconTypeOK, RunShape, HealIsOfPosted, NotRunning, NoRows

LEMMA ReconStep == ReconInv /\ [ReconNext]_allVars => ReconInv'
<1> SUFFICES ASSUME ReconInv, [ReconNext]_allVars PROVE ReconInv'
  OBVIOUS
<1>0. TypeOK /\ ReconTypeOK
  BY DEF ReconInv, ReconTypeOK
<1>1. [Next]_vars => TypeOK' /\ posted \subseteq posted'
  BY <1>0, TypeStep, PostedGrows
<1>2. ASSUME NEW t \in TxIds, NEW r \in Results, postTransaction(t, r) PROVE [Next]_vars
  BY <1>2 DEF Next, Post
<1>3. CASE [Next]_vars /\ UNCHANGED reconVars
  BY <1>1, <1>3 DEF ReconInv, ReconTypeOK, RunShape, HealIsOfPosted, reconVars
<1>4. ASSUME NEW k \in Reconcilers, SelectPending(k) PROVE ReconInv'
  <2> DEFINE pending == {t \in TxIds : registry[t] = "pending"}
             run == [NotRunning EXCEPT !.rows = [t \in pending |-> attempts[t]]]
  <2>1. UNCHANGED <<vars, attempts>>
    BY <1>4 DEF SelectPending
  <2>2. TypeOK' /\ posted \subseteq posted'
    BY <1>1, <2>1
  <2>3. recon[k] = NotRunning /\ recon' = [recon EXCEPT ![k].rows = [t \in pending |-> attempts[t]]]
    BY <1>4 DEF SelectPending
  <2>4. recon' = [recon EXCEPT ![k] = run]
    BY <2>3
  <2>5. /\ run = [rows |-> run.rows, tx |-> run.tx, answer |-> run.answer]
        /\ run.tx = {} /\ run.answer = "none" /\ DOMAIN run.rows \subseteq TxIds
    BY DEF NotRunning
  <2> HIDE DEF run
  <2>6. /\ RunShape'
        /\ \A j \in Reconcilers : j # k => recon'[j] = recon[j]
        /\ recon'[k] = run
    BY <2>4, <2>5, RunMoves DEF ReconInv
  <2> QED BY <2>1, <2>2, <2>5, <2>6 DEF ReconInv, ReconTypeOK, HealIsOfPosted
<1>5. ASSUME NEW k \in Reconcilers, NEW t \in TxIds, Replay(k, t) PROVE ReconInv'
  <2> PICK r \in Results : Answered(k, t, r) /\ postTransaction(t, r)
    BY <1>5 DEF Replay
  <2> QED BY <1>1, <1>2, AnswerIsTrue, Answers
<1>6. ASSUME NEW k \in Reconcilers, NEW t \in TxIds, ReplayThrows(k, t) PROVE ReconInv'
  <2>1. Answered(k, t, "TRANSPORT")
    BY <1>6 DEF ReplayThrows
  <2>2. [Next]_vars
    BY <1>2, <1>6 DEF ReplayThrows, Next
  <2> QED BY <1>1, <2>1, <2>2, Answers
<1>7. ASSUME NEW k \in Reconcilers, NEW t \in TxIds, Settle(k, t) PROVE ReconInv'
  <2>1. (bumpAttempts(t) \/ UNCHANGED attempts) /\ (NextRow(k, t) \/ AbortRun(k))
    BY <1>7 DEF Settle, Settled, Reject, RetryLater, UpdateThrows, Heal, HealThrows,
                Drain, DrainThrows
  <2>2. attempts' \in [TxIds -> 0..MaxPendingAttempts]
    BY <1>0, <2>1, AttemptsType
  <2>3. SUFFICES TypeOK' /\ posted \subseteq posted'
    BY <2>1, <2>2, Resting
  <2>4. CASE Reject(k, t)
    <3>1. registry' \in [TxIds -> {"none", "pending", "posted", "rejected"}] /\ UNCHANGED ledgerButRegistry
      BY <1>0, <2>4 DEF Reject, TypeOK
    <3> QED BY <1>0, <3>1 DEF ledgerButRegistry, bookVars, outboxVars, alarmVars, TypeOK
  <2>5. CASE RetryLater(k, t) \/ UpdateThrows(k, t) \/ DrainThrows(k, t)
    BY <1>1, <2>5 DEF RetryLater, UpdateThrows, DrainThrows
  <2>6. CASE Heal(k, t)
    <3>1. buildLedgerAuditStatements({t}) /\ UNCHANGED <<bookVars, outboxVars, alarmVars, batch, late>>
      BY <2>6 DEF Heal
    <3> QED BY <1>0, <3>1, D1Type DEF bookVars, outboxVars, alarmVars, TypeOK
  <2>7. CASE HealThrows(k, t)
    <3>1. GiveUpOn({t}) /\ UNCHANGED <<bookVars, outboxVars, alarmVars, batch, d1Vars>>
      BY <2>7 DEF HealThrows
    <3> QED BY <1>0, <3>1, LateType DEF bookVars, outboxVars, alarmVars, d1Vars, TypeOK
  <2>8. CASE Drain(k, t)
    BY <1>1, <2>8 DEF Drain, Next
  <2> QED BY <1>7, <2>4, <2>5, <2>6, <2>7, <2>8 DEF Settle
<1>8. UNCHANGED allVars \/ LedgerStep => [Next]_vars /\ UNCHANGED reconVars
  BY DEF allVars, LedgerStep
<1> QED BY <1>3, <1>4, <1>5, <1>6, <1>7, <1>8 DEF ReconNext

LEMMA ReconInvariant == ReconSpec => []ReconInv
BY ReconInitial, ReconStep, PTL DEF ReconSpec

\* The ledger and the runs beside it keep their types
\* (services/reconciliation.ts).
THEOREM ReconTypeCorrect == ReconSpec => []ReconTypeOK
<1>1. ReconInv => ReconTypeOK
  BY DEF ReconInv
<1> QED BY <1>1, ReconInvariant, PTL

\* The audit trail is only written for what the object has committed, however
\* old the answer it is written for (reconciliation.ts:124, 'duplicate').
THEOREM HealsPosted == ReconSpec => []HealIsOfPosted
<1>1. ReconInv => HealIsOfPosted
  BY DEF ReconInv
<1> QED BY <1>1, ReconInvariant, PTL

-----------------------------------------------------------------------------
(***************************************************************************)
(* The ledger keeps its invariants although runs write to D1 beside it.    *)
(* A heal writes committed postings only, by HealIsOfPosted.  A rejection  *)
(* takes the 'pending' away that a posting of the write-ahead protocol may *)
(* rely on.  RefusalInv says that what was refused for good is not such a  *)
(* posting, so only the attempts can be the reason, and CountInv that the  *)
(* attempts a run has read have been made.                                 *)
(***************************************************************************)
Refused(k, t) == t \in recon[k].tx /\ recon[k].answer \in DeterministicFailures

RefusalInv ==
    /\ \A t \in posted : validatePostingShape[t] = "ok"
    /\ \A k \in Reconcilers, t \in TxIds :
          Refused(k, t) /\ t \in posted => outbox[t] # "none" \/ t \in mirror

CountInv ==
    \A k \in Reconcilers : \A t \in DOMAIN recon[k].rows :
        recon[k].rows[t] \in Nat /\ recon[k].rows[t] <= attempts[t]

ReconSafe == ReconInv /\ SafetyInv /\ RefusalInv /\ CountInv /\ OnlyExhaustedLost

\* A posting the object refuses for good is not in the book.
LEMMA RefusalIsTrue ==
    ASSUME RefusalInv, NEW t \in TxIds, NEW r \in Results, postTransaction(t, r),
           r \in DeterministicFailures
    PROVE  t \notin posted'
<1>1. r \notin {"posted", "duplicate", "INTERNAL"}
  BY DEF DeterministicFailures
<1>2. PostRefused(t, r)
  BY <1>1 DEF postTransaction, PostFails, PostWithOutbox, PostSynchronously
<1>3. t \in posted => Verdict(t) = "duplicate"
  BY DEF RefusalInv, Verdict
<1> QED BY <1>1, <1>2, <1>3 DEF PostRefused

\* A run holds a new refusal only if it is true, and the old ones stay true.
LEMMA RefusalStays ==
    ASSUME RefusalInv, OnItsWay, posted' \subseteq TxIds,
           \A k \in Reconcilers, t \in TxIds :
               Refused(k, t)' => Refused(k, t) \/ t \notin posted'
    PROVE  RefusalInv'
  BY DEF RefusalInv, OnItsWay

\* Attempts are only counted up.
LEMMA AttemptsGrow ==
    ASSUME ReconTypeOK, NEW t \in TxIds, bumpAttempts(t) \/ UNCHANGED attempts
    PROVE  \A u \in TxIds : attempts[u] <= attempts'[u]
  BY AttemptsAssumption DEF ReconTypeOK, bumpAttempts

LEMMA CountStays ==
    ASSUME ReconInv, ReconTypeOK', CountInv, NEW k \in Reconcilers, NEW t \in TxIds,
           \A u \in TxIds : attempts[u] <= attempts'[u],
           NextRow(k, t) \/ AbortRun(k)
    PROVE  CountInv'
<1>1. \A j \in Reconcilers : \A u \in DOMAIN recon'[j].rows :
          u \in DOMAIN recon[j].rows /\ recon'[j].rows[u] = recon[j].rows[u]
  <2>1. CASE NextRow(k, t)
    BY <2>1 DEF NextRow, NotRunning, Rest, ReconInv, RunShape
  <2>2. CASE AbortRun(k)
    BY <2>2 DEF AbortRun, NotRunning, NoRows, ReconInv, RunShape
  <2> QED BY <2>1, <2>2
<1>2. \A j \in Reconcilers : DOMAIN recon[j].rows \subseteq TxIds
  BY DEF ReconInv, ReconTypeOK
<1>3. \A u \in TxIds : attempts[u] \in Nat /\ attempts'[u] \in Nat
  BY AttemptsAssumption DEF ReconInv, ReconTypeOK
<1> QED BY <1>1, <1>2, <1>3 DEF CountInv

\* What waits in the registry or is given up stays so while neither changes.
LEMMA ExhaustedStays ==
    ASSUME TypeOK, TransitInv, TypeOK', OnlyExhaustedLost, OnItsWay,
           TransitInv', UNCHANGED attempts
    PROVE  OnlyExhaustedLost'
<1> SUFFICES ASSUME NEW t \in posted', t \notin mirror', outbox'[t] # "pending"
             PROVE  t \in LegacyTx /\ (registry'[t] = "pending" \/ GivenUp(t)')
  BY DEF OnlyExhaustedLost
<1>1. Waits(t) /\ registry'[t] = registry[t]
  BY DEF OnItsWay
<1>2. outbox'[t] = "none"
  BY DEF TypeOK, TransitInv
<1> QED BY <1>1, <1>2 DEF OnlyExhaustedLost, Waits, GivenUp

LEMMA SettledIsSafe ==
    ASSUME ReconSafe, NEW k \in Reconcilers, NEW t \in TxIds, Settle(k, t), ReconInv'
    PROVE  SafetyInv' /\ mirror \subseteq mirror' /\ RefusalInv' /\ OnlyExhaustedLost'
<1>0. TypeOK /\ TypeOK' /\ BookInv /\ MirrorInv /\ TravelInv /\ TransitInv
  BY SafetyParts DEF ReconSafe, ReconInv, ReconTypeOK, SafetyInv
<1>1. posted' \subseteq TxIds /\ ReconTypeOK
  BY <1>0 DEF TypeOK, ReconSafe, ReconInv
<1>2. NextRow(k, t) \/ AbortRun(k)
  BY DEF Settle, Settled, Reject, RetryLater, UpdateThrows, Heal, HealThrows, Drain, DrainThrows
<1>3. \A j \in Reconcilers, u \in TxIds : Refused(j, u)' => Refused(j, u)
  BY <1>2 DEF NextRow, AbortRun, NotRunning, Refused, ReconSafe, ReconInv, RunShape
<1>4. bumpAttempts(t) \/ UNCHANGED attempts
  BY DEF Settle, Reject, RetryLater, UpdateThrows, Heal, HealThrows, Drain, DrainThrows
<1>5. \A u \in TxIds : attempts[u] = MaxPendingAttempts => attempts'[u] = MaxPendingAttempts
  BY <1>1, <1>4, AttemptsAssumption DEF bumpAttempts, ReconTypeOK
<1>6. ASSUME SafetyInv', OnItsWay
      PROVE  SafetyInv' /\ mirror \subseteq mirror' /\ RefusalInv' /\ OnlyExhaustedLost'
  <2>1. RefusalInv'
    BY <1>1, <1>3, <1>6, RefusalStays DEF ReconSafe
  <2>2. OnlyExhaustedLost'
    <3> SUFFICES ASSUME NEW u \in posted', u \notin mirror', outbox'[u] # "pending"
                 PROVE  u \in LegacyTx /\ (registry'[u] = "pending" \/ GivenUp(u)')
      BY DEF OnlyExhaustedLost
    <3>1. Waits(u) /\ registry'[u] = registry[u]
      BY <1>6 DEF OnItsWay
    <3>2. outbox'[u] = "none"
      BY <1>0, <1>1, <1>6 DEF TypeOK, SafetyInv, TransitInv
    <3> QED BY <1>1, <1>5, <3>1, <3>2 DEF ReconSafe, OnlyExhaustedLost, Waits, GivenUp
  <2> QED BY <1>6, <2>1, <2>2 DEF OnItsWay
<1>7. ASSUME [Next]_vars PROVE SafetyInv' /\ OnItsWay
  BY <1>7, SafetyStep, LedgerOnItsWay DEF ReconSafe
<1>8. ASSUME UNCHANGED bookVars, MirrorInv', TravelInv' PROVE SafetyInv'
  BY <1>0, <1>8
  DEF SafetyInv, BookInv, MirrorInv, TravelInv, TransitInv, bookVars, NoOverdraft, OneCurrencyBook
<1>9. CASE Reject(k, t)
  <2>1. /\ UNCHANGED <<bookVars, posted, outbox, batch, late, mirror>>
        /\ \A u \in TxIds : registry'[u] = IF u = t THEN "rejected" ELSE registry[u]
    BY <1>0, <1>9 DEF Reject, ledgerButRegistry, outboxVars, bookVars, TypeOK
  <2>2. Refused(k, t) \/ attempts'[t] = MaxPendingAttempts
    <3>1. t \in recon[k].tx /\ t \in DOMAIN recon[k].rows /\ Quarantined(k, t) /\ bumpAttempts(t)
      BY <1>1, <1>9 DEF Reject, Awaiting, ReconTypeOK
    <3>2. CASE recon[k].answer \in DeterministicFailures
      BY <3>1, <3>2 DEF Refused
    <3>3. CASE recon[k].rows[t] + 1 >= MaxPendingAttempts
      <4>1. recon[k].rows[t] \in Nat /\ recon[k].rows[t] <= attempts[t]
        BY <3>1 DEF ReconSafe, CountInv
      <4>2. /\ attempts[t] \in 0..MaxPendingAttempts
            /\ attempts'[t] = IF attempts[t] < MaxPendingAttempts THEN attempts[t] + 1 ELSE attempts[t]
        BY <1>1, <3>1 DEF ReconTypeOK, bumpAttempts
      <4> QED BY <3>3, <4>1, <4>2, AttemptsAssumption
    <3> QED BY <3>1, <3>2, <3>3 DEF Quarantined
  <2>3. SafetyInv'
    <3>1. MirrorInv'
      BY <1>0, <2>1 DEF MirrorInv, MirrorNeverAhead
    <3>2. TravelInv'
      BY <1>0, <2>1 DEF TravelInv
    <3> QED BY <1>8, <2>1, <3>1, <3>2
  <2>4. RefusalInv'
    BY <1>3, <2>1 DEF ReconSafe, RefusalInv
  <2>5. OnlyExhaustedLost'
    <3> SUFFICES ASSUME NEW u \in posted, u \notin mirror, outbox[u] # "pending"
                 PROVE  u \in LegacyTx /\ (registry'[u] = "pending" \/ GivenUp(u)')
      BY <2>1 DEF OnlyExhaustedLost
    <3>1. u \in TxIds /\ outbox[u] = "none" /\ outbox'[u] = "none"
      BY <1>0, <2>1 DEF TypeOK, TransitInv
    <3>2. u \in LegacyTx
      BY DEF ReconSafe, OnlyExhaustedLost, GivenUp
    <3>3. CASE u = t
      BY <2>1, <2>2, <3>1, <3>2, <3>3 DEF ReconSafe, RefusalInv, GivenUp
    <3>4. CASE u # t
      BY <1>5, <2>1, <3>1, <3>2, <3>4 DEF ReconSafe, OnlyExhaustedLost, GivenUp
    <3> QED BY <3>3, <3>4
  <2> QED BY <2>1, <2>3, <2>4, <2>5
<1>10. CASE RetryLater(k, t) \/ UpdateThrows(k, t) \/ DrainThrows(k, t)
  BY <1>6, <1>7, <1>10 DEF RetryLater, UpdateThrows, DrainThrows
<1>11. ASSUME Heal(k, t) \/ HealThrows(k, t) PROVE t \in posted
  BY <1>11 DEF Heal, HealThrows, Awaiting, ReconSafe, ReconInv, HealIsOfPosted
<1>12. CASE Heal(k, t)
  <2>1. /\ buildLedgerAuditStatements({t}) /\ {t} \subseteq posted
        /\ UNCHANGED <<bookVars, posted, outbox, batch, late>>
    BY <1>11, <1>12 DEF Heal, bookVars, outboxVars
  <2>2. MirrorInv' /\ mirror \subseteq mirror'
    BY <1>0, <2>1, D1KeepsMirror
  <2>3. TravelInv'
    BY <1>0, <2>1, <2>2, GrowthKeepsTravel
  <2>4. OnItsWay
    BY <1>0, <2>1, <2>2 DEF OnItsWay, Waits, buildLedgerAuditStatements, TypeOK
  <2> QED BY <1>6, <1>8, <2>1, <2>2, <2>3, <2>4
<1>13. CASE HealThrows(k, t)
  <2>1. /\ GiveUpOn({t}) /\ {t} \subseteq posted'
        /\ UNCHANGED <<bookVars, posted, outbox, batch, d1Vars, mirror, registry>>
    BY <1>11, <1>13 DEF HealThrows, bookVars, outboxVars, d1Vars
  <2>2. MirrorInv'
    BY <1>0, <2>1 DEF d1Vars, MirrorInv, MirrorNeverAhead
  <2>3. TravelInv'
    BY <1>0, <2>1, GiveUpKeepsTravel
  <2>4. OnItsWay
    BY <1>0, <2>1 DEF OnItsWay, Waits, TypeOK
  <2> QED BY <1>6, <1>8, <2>1, <2>2, <2>3, <2>4
<1>14. CASE Drain(k, t)
  BY <1>6, <1>7, <1>14 DEF Drain, Next
<1> QED BY <1>9, <1>10, <1>12, <1>13, <1>14 DEF Settle

LEMMA ReconSafeInit == ReconInit => ReconSafe
<1> SUFFICES ASSUME ReconInit PROVE ReconSafe
  OBVIOUS
<1>1. ReconInv /\ SafetyInv
  BY ReconInitial, SafetyInit DEF ReconInit
<1>2. RefusalInv
  BY DEF ReconInit, Init, RefusalInv, Refused, NotRunning
<1>3. CountInv
  BY DEF ReconInit, CountInv, NotRunning, NoRows
<1>4. OnlyExhaustedLost
  <2> PICK waiting \in SUBSET LegacyTx :
        /\ posted \subseteq waiting
        /\ registry = [t \in TxIds |-> IF t \in waiting THEN "pending" ELSE "none"]
    BY DEF ReconInit, Init
  <2> QED BY LegacyAssumption DEF OnlyExhaustedLost
<1> QED BY <1>1, <1>2, <1>3, <1>4 DEF ReconSafe

LEMMA ReconSafeStep == ReconSafe /\ [ReconNext]_allVars => ReconSafe'
<1> SUFFICES ASSUME ReconSafe, [ReconNext]_allVars PROVE ReconSafe'
  OBVIOUS
<1>0. /\ ReconInv' /\ ReconTypeOK' /\ TypeOK' /\ TypeOK /\ ReconTypeOK
      /\ posted' \subseteq TxIds
  BY ReconStep DEF ReconSafe, ReconInv, ReconTypeOK, TypeOK
<1>1. [Next]_vars => SafetyInv' /\ OnItsWay
  BY SafetyStep, LedgerOnItsWay DEF ReconSafe
<1>2. ASSUME [Next]_vars, UNCHANGED attempts,
             \A k \in Reconcilers, t \in TxIds :
                 Refused(k, t)' => Refused(k, t) \/ t \notin posted',
             CountInv'
      PROVE  ReconSafe'
  <2>1. SafetyInv' /\ OnItsWay /\ TransitInv /\ TransitInv'
    BY <1>1, <1>2 DEF SafetyInv, ReconSafe
  <2>2. RefusalInv'
    BY <1>0, <1>2, <2>1, RefusalStays DEF ReconSafe
  <2>3. OnlyExhaustedLost'
    BY <1>0, <1>2, <2>1, ExhaustedStays DEF ReconSafe
  <2> QED BY <1>0, <1>2, <2>1, <2>2, <2>3 DEF ReconSafe
<1>3. CASE [Next]_vars /\ UNCHANGED reconVars
  <2>1. CountInv'
    BY <1>3 DEF ReconSafe, CountInv, reconVars
  <2> QED BY <1>2, <1>3, <2>1 DEF Refused, reconVars
<1>4. ASSUME NEW k \in Reconcilers, NEW t \in TxIds, NEW r \in Results \cup {"TRANSPORT"},
             Answered(k, t, r)
      PROVE  /\ \A j \in Reconcilers, u \in TxIds :
                    Refused(j, u)' =>
                        Refused(j, u) \/ (j = k /\ u = t /\ r \in DeterministicFailures)
             /\ CountInv' /\ UNCHANGED attempts
  <2>1. \A j \in Reconcilers : recon'[j].rows = recon[j].rows
    BY <1>4 DEF Answered, ReconSafe, ReconInv, RunShape
  <2>2. CountInv'
    BY <1>4, <2>1 DEF Answered, ReconSafe, CountInv
  <2> QED BY <1>4, <2>2 DEF Answered, Refused, ReconSafe, ReconInv, RunShape
<1>6. ASSUME NEW k \in Reconcilers, SelectPending(k) PROVE ReconSafe'
  <2>1. \A j \in Reconcilers, u \in TxIds : Refused(j, u)' => Refused(j, u)
    BY <1>6 DEF SelectPending, NotRunning, Refused, ReconSafe, ReconInv, RunShape
  <2>2. UNCHANGED <<vars, attempts>>
    BY <1>6 DEF SelectPending
  <2>3. CountInv'
    <3> DEFINE pending == {t \in TxIds : registry[t] = "pending"}
    <3>1. \A j \in Reconcilers : recon'[j].rows = IF j = k THEN [t \in pending |-> attempts[t]]
                                                  ELSE recon[j].rows
      BY <1>6 DEF SelectPending, ReconSafe, ReconInv, RunShape
    <3>2. \A u \in TxIds : attempts[u] \in Nat
      BY <1>0, AttemptsAssumption DEF ReconTypeOK
    <3>3. \A u \in pending : recon'[k].rows[u] = attempts[u] /\ attempts'[u] = attempts[u]
      BY <2>2, <3>1
    <3>4. DOMAIN recon'[k].rows = pending
      BY <3>1
    <3>5. \A u \in DOMAIN recon'[k].rows :
              recon'[k].rows[u] \in Nat /\ recon'[k].rows[u] <= attempts'[u]
      BY <3>2, <3>3, <3>4
    <3>6. \A j \in Reconcilers : j # k => recon'[j].rows = recon[j].rows
      BY <3>1
    <3> QED BY <2>2, <3>5, <3>6 DEF ReconSafe, CountInv
  <2> QED BY <1>2, <2>1, <2>2, <2>3
<1>7. ASSUME NEW k \in Reconcilers, NEW t \in TxIds, Replay(k, t) PROVE ReconSafe'
  <2> PICK r \in Results : Answered(k, t, r) /\ postTransaction(t, r)
    BY <1>7 DEF Replay
  <2>1. [Next]_vars
    BY DEF Next, Post
  <2>2. r \in DeterministicFailures => t \notin posted'
    BY RefusalIsTrue DEF ReconSafe
  <2> QED BY <1>2, <1>4, <2>1, <2>2
<1>8. ASSUME NEW k \in Reconcilers, NEW t \in TxIds, ReplayThrows(k, t) PROVE ReconSafe'
  <2>1. [Next]_vars /\ Answered(k, t, "TRANSPORT")
    BY <1>8 DEF ReplayThrows, Next, Post
  <2>2. "TRANSPORT" \notin DeterministicFailures
    BY DEF DeterministicFailures
  <2> QED BY <1>2, <1>4, <2>1, <2>2
<1>9. ASSUME NEW k \in Reconcilers, NEW t \in TxIds, Settle(k, t) PROVE ReconSafe'
  <2>1. /\ NextRow(k, t) \/ AbortRun(k)
        /\ bumpAttempts(t) \/ UNCHANGED attempts
    BY <1>9 DEF Settle, Settled, Reject, RetryLater, UpdateThrows, Heal, HealThrows,
                Drain, DrainThrows
  <2>2. CountInv'
    BY <1>0, <2>1, AttemptsGrow, CountStays DEF ReconSafe
  <2>3. SafetyInv' /\ RefusalInv' /\ OnlyExhaustedLost'
    BY <1>0, <1>9, SettledIsSafe
  <2> QED BY <1>0, <2>2, <2>3 DEF ReconSafe
<1>10. UNCHANGED allVars \/ LedgerStep => [Next]_vars /\ UNCHANGED reconVars
  BY DEF allVars, LedgerStep
<1> QED BY <1>3, <1>6, <1>7, <1>8, <1>9, <1>10 DEF ReconNext

\* Replays, heals and rejections beside the ledger never put the mirror ahead of
\* the book or an account below zero, and lose no posting but one of the
\* write-ahead protocol whose attempts are used up
\* (services/reconciliation.ts:60-135).
THEOREM ReconKeepsLedger ==
    ReconSpec => [](OnlyExhaustedLost /\ MirrorNeverAhead /\ NoOverdraft)
<1>1. ReconSafe => OnlyExhaustedLost /\ MirrorNeverAhead /\ NoOverdraft
  BY DEF ReconSafe, SafetyInv
<1> QED BY <1>1, ReconSafeInit, ReconSafeStep, PTL DEF ReconSpec

\* Beside the object's own steps, a run touches at most the mirror and the
\* registry: a heal copies.
LEMMA RunsOnlyCopy ==
    ASSUME [ReconNext]_allVars
    PROVE  [Next]_vars \/ (UNCHANGED bookVars /\ mirror \subseteq mirror')
<1>1. CASE LedgerStep \/ UNCHANGED allVars
  BY <1>1 DEF LedgerStep, allVars
<1>2. ASSUME NEW k \in Reconcilers, SelectPending(k) PROVE [Next]_vars
  BY <1>2 DEF SelectPending
<1>3. ASSUME NEW k \in Reconcilers, NEW t \in TxIds, Replay(k, t) \/ ReplayThrows(k, t)
      PROVE  [Next]_vars
  BY <1>3 DEF Replay, ReplayThrows, Next, Post
<1>4. ASSUME NEW k \in Reconcilers, NEW t \in TxIds, Settle(k, t)
      PROVE  [Next]_vars \/ (UNCHANGED bookVars /\ mirror \subseteq mirror')
  <2>1. CASE Reject(k, t)
    BY <2>1 DEF Reject, ledgerButRegistry
  <2>2. CASE Heal(k, t)
    BY <2>2 DEF Heal, buildLedgerAuditStatements
  <2>3. CASE HealThrows(k, t)
    BY <2>3 DEF HealThrows, d1Vars
  <2>4. CASE Drain(k, t)
    BY <2>4 DEF Drain, Next
  <2>5. CASE RetryLater(k, t) \/ UpdateThrows(k, t) \/ DrainThrows(k, t)
    BY <2>5 DEF RetryLater, UpdateThrows, DrainThrows
  <2> QED BY <1>4, <2>1, <2>2, <2>3, <2>4, <2>5 DEF Settle
<1> QED BY <1>1, <1>2, <1>3, <1>4 DEF ReconNext

\* The object keeps the promise of AccountBook with any number of
\* reconciliations beside it: a replay enters a transaction like any caller, and
\* a heal copies to D1 only what is entered (services/reconciliation.ts:60-135).
THEOREM ReconRefinement == ReconSpec => ImplementsBook
<1>1. ReconInit => Book!Init
  <2> SUFFICES ASSUME ReconInit PROVE Book!Init
    OBVIOUS
  <2>1. balance_minor \in [Accounts -> Nat]
    BY DEF ReconInit, Init
  <2> QED BY <2>1, LegacyAssumption DEF ReconInit, Init, Book!Init
<1>2. ReconSafe /\ ReconSafe' /\ [ReconNext]_allVars
        => [Book!Next]_<<posted, balance_minor, mirror>>
  <2> SUFFICES ASSUME ReconSafe, ReconSafe', [ReconNext]_allVars PROVE Book!Next
    OBVIOUS
  <2>1. SafetyInv /\ SafetyInv'
    BY DEF ReconSafe
  <2>2. CASE [Next]_vars
    BY <2>1, <2>2, BookStep
  <2>3. CASE UNCHANGED bookVars /\ mirror \subseteq mirror'
    BY <2>1, <2>3 DEF bookVars, SafetyInv, MirrorNeverAhead, Book!Next, Book!Copy
  <2> QED BY <2>2, <2>3, RunsOnlyCopy
<1>3. ReconSpec => []ReconSafe
  BY ReconSafeInit, ReconSafeStep, PTL DEF ReconSpec
<1> QED BY <1>1, <1>2, <1>3, PTL DEF ReconSpec, ImplementsBook, Book!Spec

\* The books balance with reconciliations beside the object too: a replay adds
\* to the balances what it adds to the journal, a heal to neither.
THEOREM ReconBalanced == ReconSpec => []TrialBalance
<1>1. ReconInit => BalancedInv
  BY DEF ReconInit, Init, BalancedInv
<1>2. TypeOK /\ BalancedInv /\ [ReconNext]_allVars => BalancedInv'
  <2> SUFFICES ASSUME TypeOK, BalancedInv, [ReconNext]_allVars PROVE BalancedInv'
    OBVIOUS
  <2>1. CASE [Next]_vars
    BY <2>1, BalancedStep
  <2>2. CASE UNCHANGED bookVars
    BY <2>2 DEF bookVars, BalancedInv
  <2> QED BY <2>1, <2>2, RunsOnlyCopy
<1>3. ReconSafe => TypeOK
  BY DEF ReconSafe, SafetyInv
<1>4. ReconSpec => [](TypeOK /\ BalancedInv)
  BY <1>1, <1>2, <1>3, ReconSafeInit, ReconSafeStep, PTL DEF ReconSpec
<1> QED BY <1>4, BalancedBook, PTL
=============================================================================
