---------------------- MODULE PaymentSettlement_proofs ----------------------
(***************************************************************************)
(* PaymentSettlement, proved for every set of intents, TrxIDs and          *)
(* concurrent invocations.                                                 *)
(*                                                                         *)
(* Inv is one inductive invariant.  That a completed payment is in the     *)
(* ledger needs that an invocation at "settle" has posted it, that it was  *)
(* posted on evidence needs that one at "post" has some, and that both     *)
(* rows complete together needs that no invocation can settle a payment    *)
(* whose transaction row is still to be inserted: SettlementInv.  The      *)
(* evidence is a TrxID the consumer finds in a row, perhaps long after the *)
(* customer gave it, hence ClaimInv.                                       *)
(***************************************************************************)
EXTENDS PaymentSettlement, TLAPS

USE DEF Put, At

Inv ==
    /\ TypeOK
    /\ CompletedTogether
    /\ CompletedIsPosted
    /\ PostedOnEvidence
    /\ SettlementInv

-----------------------------------------------------------------------------
\* Nothing an invocation relies on is ever taken back.
Grows ==
    /\ \A i \in Intents : tx[i] # "none" => tx'[i] # "none"
    /\ \A i \in Intents : intent[i] # "none" => intent'[i] # "none"
    /\ posted \subseteq posted' /\ paid \subseteq paid' /\ received \subseteq received'
    /\ \A i \in Intents : submitted[i] \subseteq submitted'[i]

\* What a search for an order or an SMS leaves alone.
LEMMA LookFrame ==
    ASSUME NEW w \in Workers, CorroborateSms(w) \/ SearchSms(w)
    PROVE  UNCHANGED <<rows, smsVars, outcome, cronVars, world, history, faults>>
  BY DEF CorroborateSms, SearchSms

\* Parsing writes the row of the SMS only.
LEMMA ParseFrame ==
    ASSUME NEW w \in Workers, ParseSms(w)
    PROVE  UNCHANGED <<rows, queue, dlq, outcome, cronVars, world, history, faults>>
  BY DEF ParseSms

\* Recording an event touches no payment.
LEMMA EventFrame ==
    ASSUME NEW w \in Workers, RecordEvent(w)
    PROVE  UNCHANGED <<rows, smsVars, posted, notified, cronVars, paid, received, history, faults>>
  BY DEF RecordEvent

\* No step takes anything back.
LEMMA GrowsStep == Inv /\ [Next]_vars => Grows
<1> SUFFICES ASSUME Inv, [Next]_vars PROVE Grows
  OBVIOUS
<1> USE DEF Inv, TypeOK, DataTypeOK, SettlementInv, JobInv, InsertInv, Sound, Grows,
    rows, smsVars, outcome, cronVars, world, history
<1>1. ASSUME NEW w \in Workers, NEW i \in Intents, createIntent(w, i) PROVE Grows
  BY <1>1 DEF createIntent
<1>2. ASSUME NEW w \in Workers, InsertTransaction(w) PROVE Grows
  BY <1>2 DEF InsertTransaction
<1>3. ASSUME NEW w \in Workers, MarkProcessing(w) PROVE Grows
  BY <1>3 DEF MarkProcessing
<1>4. ASSUME NEW w \in Workers, MarkFailed(w) PROVE Grows
  BY <1>4 DEF MarkFailed
<1>5. ASSUME NEW w \in Workers, PostLedger(w) PROVE Grows
  BY <1>5 DEF PostLedger, postPaymentLedgerEntry
<1>6. ASSUME NEW w \in Workers, Settle(w) PROVE Grows
  BY <1>6 DEF Settle
<1>7. ASSUME NEW w \in Workers, StoreClaim(w) PROVE Grows
  BY <1>7 DEF StoreClaim
<1>8. CASE expirePendingIntents
  BY <1>8 DEF expirePendingIntents
<1>9. CASE ExpireTransactions
  BY <1>9 DEF ExpireTransactions
<1>10. ASSUME NEW i \in Intents, Pay(i) PROVE Grows
  BY <1>10 DEF Pay
<1>11. ASSUME NEW x \in TrxIds, DeliverSms(x) PROVE Grows
  BY <1>11 DEF DeliverSms
<1>12. ASSUME NEW w \in Workers, NEW i \in Intents, NEW x \in TrxIds, SubmitTrx(w, i, x)
      PROVE  Grows
  BY <1>12 DEF SubmitTrx
<1>13. CASE UNCHANGED <<intent, tx, posted, paid, received, submitted>>
  BY <1>13
<1> QED BY <1>1, <1>2, <1>3, <1>4, <1>5, <1>6, <1>7, <1>8, <1>9, <1>10, <1>11, <1>12, <1>13,
  LookFrame, ParseFrame, EventFrame
  DEF Next, Request, Continue, Cron, World, vars, initiatePayment, handleCallback,
  ReceiveWebhook, Notify, MarkMatched, TakeSms, RefuseSms, MissSms, ReviewSms, CheckUsed, Fault,
  CronFault, RequeuePending, PassTime

\* Elements of a sequence may be exchanged.
LEMMA SmsUpdate ==
    ASSUME NEW S, NEW s \in Seq(S), NEW r, NEW e, r \in DOMAIN s => e \in S
    PROVE  [s EXCEPT ![r] = e] \in Seq(S)
<1>1. s \in [1 .. Len(s) -> S] /\ Len(s) \in Nat
  OBVIOUS
<1>2. [s EXCEPT ![r] = e] \in [1 .. Len(s) -> S]
  BY <1>1
<1> QED BY <1>1, <1>2

SmsRow == [trx : TrxIds, status : SmsStatus, found : Findings]

\* A row keeps its type when its status is set.
LEMMA StatusUpdate ==
    ASSUME NEW s \in Seq(SmsRow), NEW r, NEW status \in SmsStatus
    PROVE  [s EXCEPT ![r] = [s[r] EXCEPT !.status = status]] \in Seq(SmsRow)
<1>1. ASSUME r \in DOMAIN s PROVE [s[r] EXCEPT !.status = status] \in SmsRow
  <2>1. s[r] \in SmsRow
    BY <1>1
  <2> QED BY <2>1 DEF SmsRow
<1> QED BY <1>1, SmsUpdate

\* Every step keeps the types of the tables, queues and sets.
LEMMA DataStep == Inv /\ [Next]_vars => DataTypeOK'
<1> SUFFICES ASSUME Inv, [Next]_vars PROVE DataTypeOK'
  OBVIOUS
<1> USE DEF Inv, TypeOK, DataTypeOK, SettlementInv, JobInv, SmsInv, Sound, JobType,
    SetStatus, SmsMessage, TxStatus, IntentStatus, SmsStatus, Findings, rows, smsVars, outcome,
    cronVars, world, history
<1>1. ASSUME NEW w \in Workers, NEW i \in Intents, createIntent(w, i) PROVE DataTypeOK'
  BY <1>1 DEF createIntent
<1>2. ASSUME NEW w \in Workers, InsertTransaction(w) PROVE DataTypeOK'
  BY <1>2 DEF InsertTransaction
<1>3. ASSUME NEW w \in Workers, NEW i \in Intents, initiatePayment(w, i) PROVE DataTypeOK'
  BY <1>3 DEF initiatePayment
<1>4. ASSUME NEW w \in Workers, MarkProcessing(w) PROVE DataTypeOK'
  BY <1>4 DEF MarkProcessing
<1>5. ASSUME NEW w \in Workers, NEW i \in Intents, handleCallback(w, i) PROVE DataTypeOK'
  BY <1>5 DEF handleCallback
<1>6. ASSUME NEW w \in Workers, MarkFailed(w) PROVE DataTypeOK'
  BY <1>6 DEF MarkFailed
<1>7. ASSUME NEW w \in Workers, NEW i \in Intents, NEW k \in Announced, ReceiveWebhook(w, i, k) PROVE DataTypeOK'
  BY <1>7, AnnouncedAssumption DEF ReceiveWebhook
<1>8. ASSUME NEW w \in Workers, RecordEvent(w) PROVE DataTypeOK'
  <2>1. <<job[w].intent, job[w].kind>> \in Intents \X EventKinds
    BY <1>8 DEF RecordEvent
  <2>2. events' \subseteq Intents \X EventKinds /\ acked' \subseteq Intents \X EventKinds
    BY <1>8, <2>1 DEF RecordEvent
  <2> QED BY <1>8, <2>2 DEF RecordEvent
<1>9. ASSUME NEW w \in Workers, PostLedger(w) PROVE DataTypeOK'
  BY <1>9 DEF PostLedger, postPaymentLedgerEntry
<1>10. ASSUME NEW w \in Workers, Settle(w) PROVE DataTypeOK'
  BY <1>10 DEF Settle
<1>11. ASSUME NEW w \in Workers, Notify(w) PROVE DataTypeOK'
  BY <1>11 DEF Notify
<1>12. ASSUME NEW w \in Workers, MarkMatched(w) PROVE DataTypeOK'
  BY <1>12, StatusUpdate DEF MarkMatched, SmsRow
<1>13. ASSUME NEW w \in Workers, NEW m \in queue, TakeSms(w, m) PROVE DataTypeOK'
  BY <1>13 DEF TakeSms
<1>14. ASSUME NEW w \in Workers, RefuseSms(w) PROVE DataTypeOK'
  BY <1>14, StatusUpdate DEF RefuseSms, SmsRow
<1>15. ASSUME NEW w \in Workers, ParseSms(w) PROVE DataTypeOK'
  <2>1. job[w].ref \in TrxIds
    BY <1>15 DEF ParseSms
  <2>2. PICK found \in Findings : sms' = [sms EXCEPT ![job[w].row] =
                        [trx |-> job[w].ref, status |-> "parsed", found |-> found]]
    BY <1>15 DEF ParseSms
  <2>3. [trx |-> job[w].ref, status |-> "parsed", found |-> found] \in SmsRow
    BY <2>1 DEF SmsRow
  <2>4. sms' \in Seq(SmsRow)
    BY <2>2, <2>3, SmsUpdate DEF SmsRow
  <2> QED BY <1>15, <2>4 DEF ParseSms, SmsRow
<1>16. ASSUME NEW w \in Workers, CorroborateSms(w) PROVE DataTypeOK'
  BY <1>16 DEF CorroborateSms
<1>17. ASSUME NEW w \in Workers, ReviewSms(w) PROVE DataTypeOK'
  BY <1>17, StatusUpdate DEF ReviewSms, SmsRow
<1>18. ASSUME NEW w \in Workers, NEW i \in Intents, NEW x \in TrxIds, SubmitTrx(w, i, x)
      PROVE  DataTypeOK'
  BY <1>18 DEF SubmitTrx
<1>19. ASSUME NEW w \in Workers, CheckUsed(w) PROVE DataTypeOK'
  BY <1>19 DEF CheckUsed
<1>20. ASSUME NEW w \in Workers, SearchSms(w) PROVE DataTypeOK'
  BY <1>20 DEF SearchSms
<1>21. ASSUME NEW w \in Workers, StoreClaim(w) PROVE DataTypeOK'
  BY <1>21 DEF StoreClaim
<1>22. ASSUME NEW w \in Workers, Fault(w) PROVE DataTypeOK'
  <2>1. job[w].kind = "sms" => job[w].ref \in TrxIds
    OBVIOUS
  <2>2. queue' \subseteq [trx : TrxIds, tries : Nat, signed : BOOLEAN, store : Stores]
    <3>1. CASE UNCHANGED queue
      BY <3>1
    <3>2. CASE job[w].kind = "sms" /\ queue' = queue \cup
                  {[trx |-> job[w].ref, tries |-> job[w].tries + 1,
                    signed |-> ~At(w, "refuse"), store |-> job[w].store]}
      <4> DEFINE signed == ~At(w, "refuse")
      <4>1. signed \in BOOLEAN
        BY Zenon
      <4>2. queue' = queue \cup {[trx |-> job[w].ref, tries |-> job[w].tries + 1,
                                  signed |-> signed, store |-> job[w].store]}
        BY <3>2
      <4> HIDE DEF signed
      <4> QED BY <2>1, <3>2, <4>1, <4>2
    <3> QED BY <1>22, <3>1, <3>2 DEF Fault
  <2> QED BY <1>22, <2>1, <2>2, BoundAssumption DEF Fault
<1>23. CASE expirePendingIntents
  BY <1>23 DEF expirePendingIntents
<1>24. CASE ExpireTransactions
  BY <1>24 DEF ExpireTransactions
<1>25. CASE CronFault
  BY <1>25 DEF CronFault
<1>26. ASSUME NEW r \in DOMAIN sms, RequeuePending(r) PROVE DataTypeOK'
  <2>1. [trx |-> sms[r].trx, tries |-> 0, signed |-> FALSE, store |-> NoStore]
            \in [trx : TrxIds, tries : Nat, signed : BOOLEAN, store : Stores]
    BY DEF Stores
  <2> QED BY <1>26, <2>1 DEF RequeuePending
<1>27. ASSUME NEW i \in Intents, Pay(i) PROVE DataTypeOK'
  BY <1>27 DEF Pay
<1>28. ASSUME NEW i \in Intents, PassTime(i) PROVE DataTypeOK'
  BY <1>28 DEF PassTime
<1>29. ASSUME NEW x \in TrxIds, DeliverSms(x) PROVE DataTypeOK'
  <2>1. [trx |-> x, tries |-> 0, signed |-> TRUE, store |-> SmsStore[x]]
            \in [trx : TrxIds, tries : Nat, signed : BOOLEAN, store : Stores]
    BY DEF Stores
  <2> QED BY <1>29, <2>1 DEF DeliverSms
<1>30. ASSUME NEW w \in Workers, MissSms(w) PROVE DataTypeOK'
  BY <1>30, StatusUpdate DEF MissSms, SmsRow
<1>31. CASE UNCHANGED <<vars>>
  BY <1>31 DEF vars
<1> QED BY <1>1, <1>2, <1>3, <1>4, <1>5, <1>6, <1>7, <1>8, <1>9, <1>10, <1>11,
<1>12, <1>13, <1>14, <1>15, <1>16, <1>17, <1>18, <1>19, <1>20, <1>21, <1>22, <1>23,
<1>24, <1>25, <1>26, <1>27, <1>28, <1>29, <1>30, <1>31
  DEF Next, Request, Continue, Cron, World, vars

\* What holds of an invocation that does nothing goes on to hold.
LEMMA SoundGrows == Inv /\ Grows => \A j \in JobType : Sound(j) => Sound(j)'
<1> SUFFICES ASSUME Inv, Grows, NEW j \in JobType, Sound(j) PROVE Sound(j)'
  OBVIOUS
<1> USE DEF Grows
<1>1. ASSUME NEW i \in Intents, Evidence(i) PROVE Evidence(i)'
  BY <1>1 DEF Evidence
<1> QED BY <1>1 DEF Sound

\* One invocation moves, to where it is sound; so all of them are.
Moves(w) == job' = [job EXCEPT ![w] = job'[w]] /\ job'[w] \in JobType /\ Sound(job[w])'

LEMMA OneMoves ==
    ASSUME Inv, [Next]_vars, NEW w \in Workers, Moves(w)
    PROVE  job' \in [Workers -> JobType] /\ JobInv'
<1>1. job' \in [Workers -> JobType]
  BY DEF Inv, TypeOK, Moves
<1>2. ASSUME NEW v \in Workers, v # w PROVE Sound(job[v])'
  <2>1. job'[v] = job[v] /\ job[v] \in JobType /\ Sound(job[v])
    BY <1>2 DEF Inv, TypeOK, SettlementInv, JobInv, Moves
  <2> QED BY <2>1, GrowsStep, SoundGrows
<1> QED BY <1>1, <1>2 DEF Moves, JobInv

\* Every step leaves every invocation well-typed and sound.
LEMMA JobStep == Inv /\ [Next]_vars => job' \in [Workers -> JobType] /\ JobInv'
<1> SUFFICES ASSUME Inv, [Next]_vars PROVE job' \in [Workers -> JobType] /\ JobInv'
  OBVIOUS
<1> DEFINE Goal == job' \in [Workers -> JobType] /\ JobInv'
<1>a. Grows /\ \A j \in JobType : Sound(j) => Sound(j)'
  BY GrowsStep, SoundGrows
<1>b. \A w \in Workers : job[w] \in JobType /\ Sound(job[w])
  BY DEF Inv, TypeOK, SettlementInv, JobInv
<1>c. \A w \in Workers : Moves(w) => Goal
  BY OneMoves
<1>d. ASSUME NEW w \in Workers, Return(w) PROVE Goal
  <2>1. job'[w] = Resting
    BY <1>b, <1>d DEF Return, Inv, TypeOK
  <2>2. Resting \in JobType /\ Sound(Resting)'
    BY DEF Resting, JobType, Kinds, Places, Stores, Sound
  <2> QED BY <1>c, <1>d, <2>1, <2>2 DEF Return, Moves
<1> HIDE DEF Goal
<1> USE <1>a, <1>b DEF Moves, Inv, TypeOK, DataTypeOK, SettlementInv, InsertInv, SmsInv, Sound,
    JobType, Goto, Start, Job, rows, smsVars, outcome, cronVars, world, history
<1>1. ASSUME NEW w \in Workers, NEW i \in Intents, createIntent(w, i)
      PROVE  Goal
  <2>1. Moves(w)
    BY <1>1 DEF createIntent, Kinds, Places, Stores
  <2> QED BY <1>c, <2>1
<1>2. ASSUME NEW w \in Workers, InsertTransaction(w)
      PROVE  Goal
  BY <1>d, <1>2 DEF InsertTransaction
<1>3. ASSUME NEW w \in Workers, NEW i \in Intents, initiatePayment(w, i)
      PROVE  Goal
  <2>1. Moves(w)
    BY <1>3 DEF initiatePayment, Kinds, Places, Stores
  <2> QED BY <1>c, <2>1
<1>4. ASSUME NEW w \in Workers, MarkProcessing(w)
      PROVE  Goal
  BY <1>d, <1>4 DEF MarkProcessing
<1>5. ASSUME NEW w \in Workers, NEW i \in Intents, handleCallback(w, i)
      PROVE  Goal
  <2>1. CASE Start(w, Job("callback", "post", i, OtherRef)) /\ i \in paid
    <3>1. Evidence(i)'
      BY <1>5, <2>1 DEF Evidence, handleCallback
    <3>2. Moves(w)
      BY <1>5, <2>1, <3>1 DEF handleCallback, Kinds, Places, Stores
    <3> QED BY <1>c, <3>2
  <2>2. CASE Start(w, Job("callback", "fail", i, NoRef))
    <3>1. Moves(w)
      BY <1>5, <2>2 DEF handleCallback, Kinds, Places, Stores
    <3> QED BY <1>c, <3>1
  <2> QED BY <1>5, <2>1, <2>2 DEF handleCallback
<1>6. ASSUME NEW w \in Workers, MarkFailed(w)
      PROVE  Goal
  BY <1>d, <1>6 DEF MarkFailed
<1>7. ASSUME NEW w \in Workers, NEW i \in Intents, NEW k \in Announced, ReceiveWebhook(w, i, k)
      PROVE  Goal
  <2>1. CASE UNCHANGED job
    BY <1>7, <2>1 DEF ReceiveWebhook, Goal, JobInv
  <2>2. CASE Start(w, Job(k, "record", i, OtherRef))
    <3>1. Moves(w)
      BY <1>7, <2>2, AnnouncedAssumption DEF ReceiveWebhook, EventKinds, Kinds, Places, Stores
    <3> QED BY <1>c, <3>1
  <2> QED BY <1>7, <2>1, <2>2 DEF ReceiveWebhook
<1>8. ASSUME NEW w \in Workers, RecordEvent(w)
      PROVE  Goal
  <2>1. CASE Return(w)
    BY <1>d, <2>1
  <2>2. CASE Goto(w, "post") /\ job[w].kind # "notice"
    <3>1. job[w].intent \in Intents /\ Evidence(job[w].intent)
      BY <1>8, <2>2 DEF RecordEvent, Evidence
    <3>2. \A i \in Intents : Evidence(i) => Evidence(i)'
      BY <1>8, EventFrame DEF Evidence
    <3>3. Moves(w)
      BY <1>8, <2>2, <3>1, <3>2, EventFrame DEF RecordEvent, Places
    <3> QED BY <1>c, <3>3
  <2> QED BY <1>8, <2>1, <2>2 DEF RecordEvent
<1>9. ASSUME NEW w \in Workers, PostLedger(w)
      PROVE  Goal
  <2>1. Moves(w)
    BY <1>9 DEF PostLedger, postPaymentLedgerEntry, Places
  <2> QED BY <1>c, <2>1
<1>10. ASSUME NEW w \in Workers, Settle(w)
      PROVE  Goal
  <2>1. Moves(w)
    BY <1>10 DEF Settle, Places
  <2> QED BY <1>c, <2>1
<1>11. ASSUME NEW w \in Workers, Notify(w)
      PROVE  Goal
  <2>1. CASE Goto(w, "match") /\ job[w].row # 0
    <3>1. Moves(w)
      BY <1>11, <2>1 DEF Notify, Places
    <3> QED BY <1>c, <3>1
  <2>2. CASE Return(w)
    BY <1>d, <2>2
  <2> QED BY <1>11, <2>1, <2>2 DEF Notify
<1>12. ASSUME NEW w \in Workers, MarkMatched(w)
      PROVE  Goal
  BY <1>d, <1>12 DEF MarkMatched
<1>13. ASSUME NEW w \in Workers, NEW m \in queue, TakeSms(w, m)
      PROVE  Goal
  <2>1. m.trx \in TrxIds /\ m.trx \in received /\ m.store \in Stores /\ m.tries \in Nat
    OBVIOUS
  <2>2. Len(sms) + 1 \in Nat /\ Len(sms) + 1 # 0
    OBVIOUS
  <2>3. CASE job'[w].at = "parse" /\ m.trx \in Trusted
    <3>1. Moves(w)
      BY <1>13, <2>1, <2>2, <2>3 DEF TakeSms, Kinds, Places
    <3> QED BY <1>c, <3>1
  <2>4. CASE job'[w].at = "refuse"
    <3>1. Moves(w)
      BY <1>13, <2>1, <2>2, <2>4 DEF TakeSms, Kinds, Places
    <3> QED BY <1>c, <3>1
  <2> QED BY <1>13, <2>3, <2>4 DEF TakeSms, validateCarrierSender
<1>14. ASSUME NEW w \in Workers, RefuseSms(w)
      PROVE  Goal
  BY <1>d, <1>14 DEF RefuseSms
<1>15. ASSUME NEW w \in Workers, ParseSms(w)
      PROVE  Goal
  <2>1. ASSUME NEW place \in {"corroborate", "miss"}, Goto(w, place) PROVE Goal
    <3>1. Moves(w)
      BY <1>15, <2>1, ParseFrame DEF ParseSms, Places
    <3> QED BY <1>c, <3>1
  <2> QED BY <1>15, <2>1 DEF ParseSms
<1>16. ASSUME NEW w \in Workers, CorroborateSms(w)
      PROVE  Goal
  <2>1. CASE Goto(w, "review")
    <3>1. Moves(w)
      BY <1>16, <2>1, LookFrame DEF CorroborateSms, Places
    <3> QED BY <1>c, <3>1
  <2>2. ASSUME NEW loaded \in Loads(job[w].store),
               NEW i \in corroborateSmsPayment(job[w].ref, loaded),
               job' = [job EXCEPT ![w] = [kind |-> "sms", at |-> "post", intent |-> i,
                          ref |-> job[w].ref, row |-> job[w].row,
                          tries |-> job[w].tries, store |-> job[w].store]]
        PROVE  Goal
    <3>1. i \in Intents /\ tx[i] # "none" /\ Amount[i] = SmsAmount[job[w].ref]
      BY DEF corroborateSmsPayment, Loads, OpenOrders
    <3>2. CustomerTrx(i) = job[w].ref
      BY DEF corroborateSmsPayment
    <3>3. job[w].ref \in Trusted /\ job[w].row # 0 /\ job[w].ref \in received
          /\ job[w].ref \in TrxIds
      BY <1>16 DEF CorroborateSms
    <3>4. job[w].ref \in submitted[i]
      BY <3>1, <3>2, <3>3, RefAssumption DEF CustomerTrx, ClaimInv
    <3>5. Evidence(i)'
      BY <1>16, <3>1, <3>3, <3>4, LookFrame DEF Evidence
    <3>6. Moves(w)
      BY <1>16, <2>2, <3>1, <3>3, <3>4, <3>5, LookFrame DEF Kinds, Places
    <3> QED BY <1>c, <3>6
  <2> QED BY <1>16, <2>1, <2>2 DEF CorroborateSms
<1>17. ASSUME NEW w \in Workers, ReviewSms(w)
      PROVE  Goal
  BY <1>d, <1>17 DEF ReviewSms
<1>18. ASSUME NEW w \in Workers, NEW i \in Intents, NEW x \in TrxIds, SubmitTrx(w, i, x)
      PROVE  Goal
  <2>1. Moves(w)
    BY <1>18 DEF SubmitTrx, Put, Kinds, Places, Stores
  <2> QED BY <1>c, <2>1
<1>19. ASSUME NEW w \in Workers, CheckUsed(w)
      PROVE  Goal
  <2>1. CASE Return(w)
    BY <1>d, <2>1
  <2>2. CASE Goto(w, "search")
    <3>1. Moves(w)
      BY <1>19, <2>2 DEF CheckUsed, Places
    <3> QED BY <1>c, <3>1
  <2> QED BY <1>19, <2>1, <2>2 DEF CheckUsed
<1>20. ASSUME NEW w \in Workers, SearchSms(w)
      PROVE  Goal
  <2>1. CASE Goto(w, "await")
    <3>1. At(w, "search")
      BY <1>20 DEF SearchSms
    <3>2. Moves(w)
      BY <1>20, <2>1, <3>1, LookFrame DEF Places
    <3> QED BY <1>c, <3>2
  <2>2. CASE Return(w)
    BY <1>d, <2>2
  <2>3. ASSUME NEW r \in Usable(job[w].ref), tx[job[w].intent] # "none",
               SmsAmount[job[w].ref] = Amount[job[w].intent], SettleWith(w, r)
        PROVE  Goal
    <3>1. r \in Nat /\ r # 0 /\ job[w].ref \in received /\ job[w].ref \in Trusted
      BY DEF Usable
    <3>2. job[w].intent \in Intents /\ job[w].ref \in submitted[job[w].intent]
          /\ job[w].ref \in TrxIds
      BY <1>20 DEF SearchSms
    <3>3. Evidence(job[w].intent)
      BY <2>3, <3>1, <3>2 DEF Evidence
    <3>4. \A i \in Intents : Evidence(i) => Evidence(i)'
      BY <1>20, LookFrame DEF Evidence
    <3>5. Moves(w)
      BY <1>20, <2>3, <3>1, <3>2, <3>3, <3>4, LookFrame DEF SettleWith, Kinds, Places, Stores
    <3> QED BY <1>c, <3>5
  <2> QED BY <1>20, <2>1, <2>2, <2>3 DEF SearchSms
<1>21. ASSUME NEW w \in Workers, StoreClaim(w)
      PROVE  Goal
  BY <1>d, <1>21 DEF StoreClaim
<1>22. ASSUME NEW w \in Workers, Fault(w)
      PROVE  Goal
  BY <1>d, <1>22 DEF Fault
<1>23. ASSUME NEW w \in Workers, MissSms(w)
      PROVE  Goal
  BY <1>d, <1>23 DEF MissSms
<1>24. CASE UNCHANGED job
  <2>1. ASSUME NEW w \in Workers PROVE Sound(job[w])'
    BY <1>a, <1>b, <1>24
  <2> QED BY <1>24, <2>1 DEF Goal, JobInv
<1> QED
  BY <1>1, <1>2, <1>3, <1>4, <1>5, <1>6, <1>7, <1>8, <1>9, <1>10, <1>11, <1>12, <1>13,
  <1>14, <1>15, <1>16, <1>17, <1>18, <1>19, <1>20, <1>21, <1>22, <1>23, <1>24
  DEF Goal, Next, Request, Continue, Cron, World, vars, expirePendingIntents,
  ExpireTransactions, CronFault, RequeuePending, Pay, PassTime, DeliverSms

\* The rows of a payment are completed together.
LEMMA TogetherStep == Inv /\ [Next]_vars => CompletedTogether'
<1> SUFFICES ASSUME Inv, [Next]_vars PROVE CompletedTogether'
  OBVIOUS
<1> USE DEF Inv, TypeOK, DataTypeOK, CompletedTogether, SettlementInv, JobInv,
    InsertInv, Sound, rows, smsVars, outcome, cronVars, world, history
<1>1. ASSUME NEW w \in Workers, NEW i \in Intents, createIntent(w, i)
      PROVE  CompletedTogether'
  BY <1>1 DEF createIntent
<1>2. ASSUME NEW w \in Workers, InsertTransaction(w) PROVE CompletedTogether'
  BY <1>2 DEF InsertTransaction
<1>3. ASSUME NEW w \in Workers, MarkProcessing(w) PROVE CompletedTogether'
  BY <1>3 DEF MarkProcessing
<1>4. ASSUME NEW w \in Workers, MarkFailed(w) PROVE CompletedTogether'
  BY <1>4 DEF MarkFailed
<1>5. ASSUME NEW w \in Workers, Settle(w) PROVE CompletedTogether'
  BY <1>5 DEF Settle
<1>6. ASSUME NEW w \in Workers, StoreClaim(w) PROVE CompletedTogether'
  BY <1>6 DEF StoreClaim
<1>7. CASE expirePendingIntents
  BY <1>7 DEF expirePendingIntents
<1>8. CASE ExpireTransactions
  BY <1>8 DEF ExpireTransactions
<1>9. CASE UNCHANGED <<intent, tx>>
  BY <1>9
<1> QED BY <1>1, <1>2, <1>3, <1>4, <1>5, <1>6, <1>7, <1>8, <1>9, LookFrame, ParseFrame, EventFrame
  DEF Next, Request, Continue, Cron, World, vars, initiatePayment, handleCallback,
  ReceiveWebhook, PostLedger, postPaymentLedgerEntry, Notify, MarkMatched, TakeSms, RefuseSms,
  MissSms, ReviewSms, SubmitTrx, CheckUsed, Fault, CronFault, RequeuePending, Pay, PassTime,
  DeliverSms

\* The ledger comes first.
LEMMA PostedStep == Inv /\ [Next]_vars => CompletedIsPosted'
<1> SUFFICES ASSUME Inv, [Next]_vars PROVE CompletedIsPosted'
  OBVIOUS
<1> USE DEF Inv, TypeOK, DataTypeOK, CompletedIsPosted, SettlementInv, JobInv,
    Sound, rows, smsVars, outcome, cronVars, world, history
<1>1. ASSUME NEW w \in Workers, NEW i \in Intents, createIntent(w, i)
      PROVE  CompletedIsPosted'
  BY <1>1 DEF createIntent
<1>2. ASSUME NEW w \in Workers, MarkProcessing(w) PROVE CompletedIsPosted'
  BY <1>2 DEF MarkProcessing
<1>3. ASSUME NEW w \in Workers, PostLedger(w) PROVE CompletedIsPosted'
  BY <1>3 DEF PostLedger, postPaymentLedgerEntry
<1>4. ASSUME NEW w \in Workers, Settle(w) PROVE CompletedIsPosted'
  BY <1>4 DEF Settle
<1>5. ASSUME NEW w \in Workers, Notify(w) PROVE CompletedIsPosted'
  BY <1>5 DEF Notify
<1>6. ASSUME NEW w \in Workers, StoreClaim(w) PROVE CompletedIsPosted'
  BY <1>6 DEF StoreClaim
<1>7. CASE expirePendingIntents
  BY <1>7 DEF expirePendingIntents
<1>8. CASE UNCHANGED <<intent, notified, posted>>
  BY <1>8
<1> QED BY <1>1, <1>2, <1>3, <1>4, <1>5, <1>6, <1>7, <1>8, LookFrame, ParseFrame, EventFrame
  DEF Next, Request, Continue, Cron, World, vars, InsertTransaction, initiatePayment,
  handleCallback, MarkFailed, ReceiveWebhook, MarkMatched, TakeSms, RefuseSms, MissSms,
  ReviewSms, SubmitTrx, CheckUsed, Fault, ExpireTransactions, CronFault, RequeuePending, Pay,
  PassTime, DeliverSms

\* Evidence comes before the ledger.
LEMMA EvidenceStep == Inv /\ [Next]_vars => PostedOnEvidence'
<1> SUFFICES ASSUME Inv, [Next]_vars PROVE PostedOnEvidence'
  OBVIOUS
<1>1. \A i \in Intents : Evidence(i) => Evidence(i)'
  BY GrowsStep DEF Grows, Evidence
<1>2. \A i \in posted : i \in Intents /\ Evidence(i)
  BY DEF Inv, TypeOK, DataTypeOK, PostedOnEvidence
<1>3. ASSUME NEW w \in Workers, PostLedger(w) PROVE PostedOnEvidence'
  <2>1. job[w].intent \in Intents /\ Evidence(job[w].intent)
    BY <1>3 DEF PostLedger, Inv, SettlementInv, JobInv, Sound
  <2>2. posted' = posted \cup {job[w].intent}
    BY <1>3 DEF PostLedger, postPaymentLedgerEntry
  <2> QED BY <1>1, <1>2, <2>1, <2>2 DEF PostedOnEvidence
<1>4. CASE UNCHANGED posted
  BY <1>1, <1>2, <1>4 DEF PostedOnEvidence
<1> QED BY <1>3, <1>4, LookFrame, ParseFrame, EventFrame
  DEF Next, Request, Continue, Cron, World, vars, outcome, createIntent, InsertTransaction,
  initiatePayment, MarkProcessing, handleCallback, MarkFailed, ReceiveWebhook, Settle, Notify,
  MarkMatched, TakeSms, RefuseSms, MissSms, ReviewSms, SubmitTrx, CheckUsed, StoreClaim, Fault,
  expirePendingIntents, ExpireTransactions, CronFault, RequeuePending, Pay, PassTime, DeliverSms

\* A transaction row is inserted once.
LEMMA InsertStep == Inv /\ [Next]_vars => InsertInv'
<1> SUFFICES ASSUME Inv, [Next]_vars PROVE InsertInv'
  OBVIOUS
<1> USE DEF Inv, TypeOK, DataTypeOK, SettlementInv, JobInv, InsertInv, SmsInv,
    Sound, JobType, Goto, Return, Start, Resting, Job, rows, smsVars, outcome, cronVars,
    world, history
<1>1. ASSUME NEW w \in Workers, NEW i \in Intents, createIntent(w, i) PROVE InsertInv'
  BY <1>1 DEF createIntent
<1>2. ASSUME NEW w \in Workers, InsertTransaction(w) PROVE InsertInv'
  BY <1>2 DEF InsertTransaction
<1>3. ASSUME NEW w \in Workers, NEW i \in Intents, initiatePayment(w, i) PROVE InsertInv'
  BY <1>3 DEF initiatePayment
<1>4. ASSUME NEW w \in Workers, MarkProcessing(w) PROVE InsertInv'
  BY <1>4 DEF MarkProcessing
<1>5. ASSUME NEW w \in Workers, NEW i \in Intents, handleCallback(w, i) PROVE InsertInv'
  <2>1. CASE Start(w, Job("callback", "post", i, OtherRef)) /\ i \in paid
    BY <1>5, <2>1 DEF handleCallback
  <2>2. CASE Start(w, Job("callback", "fail", i, NoRef))
    BY <1>5, <2>2 DEF handleCallback
  <2> QED BY <1>5, <2>1, <2>2 DEF handleCallback
<1>6. ASSUME NEW w \in Workers, MarkFailed(w) PROVE InsertInv'
  BY <1>6 DEF MarkFailed
<1>7. ASSUME NEW w \in Workers, NEW i \in Intents, NEW k \in Announced, ReceiveWebhook(w, i, k) PROVE InsertInv'
  <2>1. CASE UNCHANGED job
    BY <1>7, <2>1 DEF ReceiveWebhook
  <2>2. CASE Start(w, Job(k, "record", i, OtherRef))
    BY <1>7, <2>2 DEF ReceiveWebhook
  <2> QED BY <1>7, <2>1, <2>2 DEF ReceiveWebhook
<1>8. ASSUME NEW w \in Workers, RecordEvent(w) PROVE InsertInv'
  <2>1. CASE Return(w)
    BY <1>8, <2>1 DEF RecordEvent
  <2>2. CASE Goto(w, "post")
    BY <1>8, <2>2 DEF RecordEvent
  <2> QED BY <1>8, <2>1, <2>2 DEF RecordEvent
<1>9. ASSUME NEW w \in Workers, PostLedger(w) PROVE InsertInv'
  BY <1>9 DEF PostLedger, postPaymentLedgerEntry
<1>10. ASSUME NEW w \in Workers, Settle(w) PROVE InsertInv'
  BY <1>10 DEF Settle
<1>11. ASSUME NEW w \in Workers, Notify(w) PROVE InsertInv'
  <2>1. CASE Goto(w, "match") /\ job[w].row # 0
    BY <1>11, <2>1 DEF Notify
  <2>2. CASE Return(w)
    BY <1>11, <2>2 DEF Notify
  <2> QED BY <1>11, <2>1, <2>2 DEF Notify
<1>12. ASSUME NEW w \in Workers, MarkMatched(w) PROVE InsertInv'
  BY <1>12 DEF MarkMatched
<1>13. ASSUME NEW w \in Workers, NEW m \in queue, TakeSms(w, m) PROVE InsertInv'
  BY <1>13 DEF TakeSms
<1>14. ASSUME NEW w \in Workers, RefuseSms(w) PROVE InsertInv'
  BY <1>14 DEF RefuseSms
<1>15. ASSUME NEW w \in Workers, ParseSms(w) PROVE InsertInv'
  <2>1. CASE Goto(w, "corroborate")
    BY <1>15, <2>1, ParseFrame DEF ParseSms
  <2>2. CASE Goto(w, "miss")
    BY <1>15, <2>2, ParseFrame DEF ParseSms
  <2> QED BY <1>15, <2>1, <2>2 DEF ParseSms
<1>16. ASSUME NEW w \in Workers, CorroborateSms(w) PROVE InsertInv'
  <2>1. CASE Goto(w, "review")
    BY <1>16, <2>1 DEF CorroborateSms
  <2>2. ASSUME NEW i, job' = [job EXCEPT ![w] = [kind |-> "sms", at |-> "post", intent |-> i,
                          ref |-> job[w].ref, row |-> job[w].row,
                          tries |-> job[w].tries, store |-> job[w].store]]
        PROVE  InsertInv'
    BY <1>16, <2>2 DEF CorroborateSms
  <2> QED BY <1>16, <2>1, <2>2 DEF CorroborateSms
<1>17. ASSUME NEW w \in Workers, ReviewSms(w) PROVE InsertInv'
  BY <1>17 DEF ReviewSms
<1>18. ASSUME NEW w \in Workers, NEW i \in Intents, NEW x \in TrxIds, SubmitTrx(w, i, x)
      PROVE  InsertInv'
  BY <1>18 DEF SubmitTrx
<1>19. ASSUME NEW w \in Workers, CheckUsed(w) PROVE InsertInv'
  <2>1. CASE Return(w)
    BY <1>19, <2>1 DEF CheckUsed
  <2>2. CASE Goto(w, "search")
    BY <1>19, <2>2 DEF CheckUsed
  <2> QED BY <1>19, <2>1, <2>2 DEF CheckUsed
<1>20. ASSUME NEW w \in Workers, SearchSms(w) PROVE InsertInv'
  <2>1. CASE Goto(w, "await")
    BY <1>20, <2>1 DEF SearchSms
  <2>2. CASE Return(w)
    BY <1>20, <2>2 DEF SearchSms
  <2>3. ASSUME NEW r, SettleWith(w, r) PROVE InsertInv'
    BY <1>20, <2>3 DEF SearchSms, SettleWith
  <2> QED BY <1>20, <2>1, <2>2, <2>3 DEF SearchSms
<1>21. ASSUME NEW w \in Workers, StoreClaim(w) PROVE InsertInv'
  BY <1>21 DEF StoreClaim
<1>22. ASSUME NEW w \in Workers, Fault(w) PROVE InsertInv'
  BY <1>22 DEF Fault
<1>23. CASE expirePendingIntents
  BY <1>23 DEF expirePendingIntents
<1>24. CASE ExpireTransactions
  BY <1>24 DEF ExpireTransactions
<1>25. ASSUME NEW w \in Workers, MissSms(w) PROVE InsertInv'
  BY <1>25 DEF MissSms
<1>26. CASE UNCHANGED <<job, tx, intent>>
  BY <1>26
<1> QED BY <1>1, <1>2, <1>3, <1>4, <1>5, <1>6, <1>7, <1>8, <1>9, <1>10, <1>11,
<1>12, <1>13, <1>14, <1>15, <1>16, <1>17, <1>18, <1>19, <1>20, <1>21, <1>22, <1>23,
<1>24, <1>25, <1>26
  DEF Next, Request, Continue, Cron, World, vars, CronFault, RequeuePending, Pay, PassTime,
  DeliverSms

\* Rows and messages speak of delivered SMS.
LEMMA SmsStep == Inv /\ [Next]_vars => SmsInv'
<1> SUFFICES ASSUME Inv, [Next]_vars PROVE SmsInv'
  OBVIOUS
<1> USE DEF Inv, TypeOK, DataTypeOK, SettlementInv, JobInv, SmsInv, Sound, Grows,
    SetStatus, SmsMessage, rows, smsVars, outcome, cronVars, world, history
<1>1. ASSUME NEW w \in Workers, InsertTransaction(w) PROVE SmsInv'
  BY <1>1, GrowsStep DEF InsertTransaction
<1>2. ASSUME NEW w \in Workers, MarkProcessing(w) PROVE SmsInv'
  BY <1>2, GrowsStep DEF MarkProcessing
<1>3. ASSUME NEW w \in Workers, MarkFailed(w) PROVE SmsInv'
  BY <1>3, GrowsStep DEF MarkFailed
<1>4. ASSUME NEW w \in Workers, Settle(w) PROVE SmsInv'
  BY <1>4, GrowsStep DEF Settle
<1>5. ASSUME NEW w \in Workers, MarkMatched(w) PROVE SmsInv'
  BY <1>5, GrowsStep DEF MarkMatched
<1>6. ASSUME NEW w \in Workers, NEW m \in queue, TakeSms(w, m) PROVE SmsInv'
  BY <1>6, GrowsStep DEF TakeSms
<1>7. ASSUME NEW w \in Workers, RefuseSms(w) PROVE SmsInv'
  BY <1>7, GrowsStep DEF RefuseSms
<1>8. ASSUME NEW w \in Workers, ParseSms(w) PROVE SmsInv'
  <2>1. PICK found : sms' = [sms EXCEPT ![job[w].row] =
                        [trx |-> job[w].ref, status |-> "parsed", found |-> found]]
    BY <1>8 DEF ParseSms
  <2>2. job[w].ref \in received /\ job[w].ref \in Trusted
    BY <1>8 DEF ParseSms
  <2> QED BY <1>8, <2>1, <2>2 DEF ParseSms
<1>9. ASSUME NEW w \in Workers, ReviewSms(w) PROVE SmsInv'
  BY <1>9, GrowsStep DEF ReviewSms
<1>10. ASSUME NEW w \in Workers, StoreClaim(w) PROVE SmsInv'
  BY <1>10, GrowsStep DEF StoreClaim
<1>11. ASSUME NEW w \in Workers, Fault(w) PROVE SmsInv'
  BY <1>11, GrowsStep DEF Fault
<1>12. CASE ExpireTransactions
  BY <1>12, GrowsStep DEF ExpireTransactions
<1>13. ASSUME NEW r \in DOMAIN sms, RequeuePending(r) PROVE SmsInv'
  BY <1>13, GrowsStep DEF RequeuePending
<1>14. ASSUME NEW i \in Intents, Pay(i) PROVE SmsInv'
  BY <1>14, GrowsStep DEF Pay
<1>15. ASSUME NEW x \in TrxIds, DeliverSms(x) PROVE SmsInv'
  BY <1>15, GrowsStep DEF DeliverSms
<1>16. ASSUME NEW w \in Workers, MissSms(w) PROVE SmsInv'
  BY <1>16, GrowsStep DEF MissSms
<1>17. CASE UNCHANGED <<queue, sms, paid, received, tx>>
  BY <1>17
<1> QED BY <1>1, <1>2, <1>3, <1>4, <1>5, <1>6, <1>7, <1>8, <1>9, <1>10, <1>11,
<1>12, <1>13, <1>14, <1>15, <1>16, <1>17, LookFrame, EventFrame
  DEF Next, Request, Continue, Cron, World, vars, createIntent, initiatePayment, handleCallback,
  ReceiveWebhook, PostLedger, postPaymentLedgerEntry, Notify, SubmitTrx, CheckUsed,
  expirePendingIntents, CronFault, PassTime

\* A TrxID is stored with a payment by an invocation it was submitted to, or by
\* the consumer that compared it with one.
LEMMA ClaimStep == Inv /\ [Next]_vars => ClaimInv'
<1> SUFFICES ASSUME Inv, [Next]_vars PROVE ClaimInv'
  OBVIOUS
<1>1. ASSUME NEW w \in Workers, Settle(w) PROVE ClaimInv'
  BY <1>1 DEF Settle, Inv, TypeOK, DataTypeOK, SettlementInv, JobInv, ClaimInv, Sound, history
<1>2. ASSUME NEW w \in Workers, StoreClaim(w) PROVE ClaimInv'
  BY <1>2 DEF StoreClaim, Inv, TypeOK, DataTypeOK, SettlementInv, JobInv, ClaimInv, Sound, history
<1>3. ASSUME NEW w \in Workers, NEW i \in Intents, NEW x \in TrxIds, SubmitTrx(w, i, x)
      PROVE  ClaimInv'
  BY <1>3 DEF SubmitTrx, Inv, TypeOK, DataTypeOK, SettlementInv, ClaimInv, rows
<1>4. CASE UNCHANGED <<claimed, reference, submitted>>
  BY <1>4 DEF Inv, SettlementInv, ClaimInv
<1> QED BY <1>1, <1>2, <1>3, <1>4, LookFrame, ParseFrame, EventFrame
  DEF Next, Request, Continue, Cron, World, vars, rows, history, createIntent, InsertTransaction,
  initiatePayment, MarkProcessing, handleCallback, MarkFailed, ReceiveWebhook, PostLedger,
  Notify, MarkMatched, TakeSms, RefuseSms, MissSms, ReviewSms, CheckUsed, Fault,
  expirePendingIntents, ExpireTransactions, CronFault, RequeuePending, Pay, PassTime, DeliverSms

-----------------------------------------------------------------------------
\* Nothing has happened yet.
LEMMA InvInit == Init => Inv
<1> SUFFICES ASSUME Init PROVE Inv
  OBVIOUS
<1>1. TypeOK
  BY DEF Init, TypeOK, DataTypeOK, JobType, Resting, Kinds, Places, IntentStatus, TxStatus,
  Stores
<1>2. CompletedTogether /\ CompletedIsPosted /\ PostedOnEvidence
  BY DEF Init, CompletedTogether, CompletedIsPosted, PostedOnEvidence
<1>3. SettlementInv
  BY DEF Init, SettlementInv, JobInv, InsertInv, SmsInv, ClaimInv, Sound, Resting
<1> QED BY <1>1, <1>2, <1>3 DEF Inv

LEMMA InvStep == Inv /\ [Next]_vars => Inv'
  BY DataStep, JobStep, TogetherStep, PostedStep, EvidenceStep, InsertStep, SmsStep,
  ClaimStep
  DEF Inv, TypeOK, SettlementInv

\* The invariant of services/payment.ts, the SMS consumer, the checkout and the
\* cron together, however their statements interleave and wherever they die.
THEOREM InvCorrect == Spec => []Inv
  BY InvInit, InvStep, PTL DEF Spec

\* Every variable keeps its type.
THEOREM TypeCorrect == Spec => []TypeOK
<1>1. Inv => TypeOK
  BY DEF Inv
<1> QED BY <1>1, InvCorrect, PTL

\* The transaction row and the intent row of a payment are completed together,
\* although five handlers write them, some in two statements.
THEOREM RowsCompleteTogether == Spec => []CompletedTogether
<1>1. Inv => CompletedTogether
  BY DEF Inv
<1> QED BY <1>1, InvCorrect, PTL

\* What is shown as completed or was reported to the merchant is in the ledger
\* (the order of the steps of completeTransaction).
THEOREM LedgerFirst == Spec => []CompletedIsPosted
<1>1. Inv => CompletedIsPosted
  BY DEF Inv
<1> QED BY <1>1, InvCorrect, PTL

\* Nothing is posted without a payment at the gateway, or an SMS the device has
\* delivered from a carrier's sender, of the intent's exact number and with a
\* TrxID submitted for that intent (corroborateSmsPayment, the AMOUNT_MISMATCH
\* of the checkout).
THEOREM EvidenceFirst == Spec => []PostedOnEvidence
<1>1. Inv => PostedOnEvidence
  BY DEF Inv
<1> QED BY <1>1, InvCorrect, PTL

KeepsCompleted ==
    \A i \in Intents : tx[i] = "completed" => tx'[i] \notin {"failed", "expired"}

\* Only an open transaction fails, and only one whose intent has expired expires.
LEMMA NeverFailsStep == Inv /\ [Next]_vars => KeepsCompleted
<1> SUFFICES ASSUME Inv, [Next]_vars PROVE KeepsCompleted
  OBVIOUS
<1> USE DEF KeepsCompleted, Inv, TypeOK, DataTypeOK, CompletedTogether, SettlementInv, JobInv,
    Sound, rows, smsVars, outcome, cronVars, world, history
<1>1. ASSUME NEW w \in Workers, InsertTransaction(w)
      PROVE  KeepsCompleted
  BY <1>1 DEF InsertTransaction
<1>2. ASSUME NEW w \in Workers, MarkProcessing(w)
      PROVE  KeepsCompleted
  BY <1>2 DEF MarkProcessing
<1>3. ASSUME NEW w \in Workers, MarkFailed(w)
      PROVE  KeepsCompleted
  BY <1>3 DEF MarkFailed
<1>4. ASSUME NEW w \in Workers, Settle(w)
      PROVE  KeepsCompleted
  BY <1>4 DEF Settle
<1>5. ASSUME NEW w \in Workers, StoreClaim(w)
      PROVE  KeepsCompleted
  BY <1>5 DEF StoreClaim
<1>6. CASE ExpireTransactions
  BY <1>6 DEF ExpireTransactions
<1>7. CASE UNCHANGED <<tx>>
  BY <1>7
<1> QED BY <1>1, <1>2, <1>3, <1>4, <1>5, <1>6, <1>7, LookFrame, ParseFrame, EventFrame
  DEF Next, Request, Continue, Cron, World, vars, createIntent, initiatePayment, handleCallback,
  ReceiveWebhook, PostLedger, postPaymentLedgerEntry, Notify, MarkMatched, TakeSms, RefuseSms,
  MissSms, ReviewSms, SubmitTrx, CheckUsed, Fault, expirePendingIntents, CronFault,
  RequeuePending, Pay, PassTime, DeliverSms

\* No step turns a completed transaction into a failed or an expired one (the
\* terminal state guard of handleCallback, the subselect of the cron).
THEOREM NeverFails == Spec => CompletedNeverFails
<1>1. Inv /\ [Next]_vars => [KeepsCompleted]_vars
  BY NeverFailsStep
<1> QED BY <1>1, InvCorrect, PTL DEF Spec, CompletedNeverFails, KeepsCompleted

\* What every invocation relies on between two of its awaits: the strengthening
\* without which none of the above is inductive.
THEOREM SettlementCorrect == Spec => []SettlementInv
<1>1. Inv => SettlementInv
  BY DEF Inv
<1> QED BY <1>1, InvCorrect, PTL

=============================================================================
