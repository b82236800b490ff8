----------------------- MODULE WebhookDelivery_proofs -----------------------
(***************************************************************************)
(* WebhookDelivery, proved for any endpoints, events, e-mails, outcomes of *)
(* the log and bounds on retries and deaths.                               *)
(*                                                                         *)
(* Inv adds what the queue knows of a message (Counted) and that a message *)
(* received earlier carries its cause, or the 2xx that will end it, from   *)
(* the POST to the end of its handling (Remembered).                       *)
(***************************************************************************)
EXTENDS WebhookDelivery, TLAPS

\* Deliveries are counted: a queued message has one left, a dead one none.
Counted ==
  \A m \in Messages :
    /\ msg[m] = "none" => attempts[m] = 0 /\ m \notin received
    /\ msg[m] = "queued" => attempts[m] <= MaxRetries
    /\ msg[m] = "dlq" => attempts[m] = MaxRetries + 1

\* Why a message that was received may be sent again.
Cause(m) ==
  \/ m \in unlogged \union crashed
  \/ \E row \in log : row.msg = m /\ ~row.success
  \/ m \in Emails

Remembered ==
  \A m \in Messages :
    m \in received /\ msg[m] \in {"log", "settle"} => Cause(m) \/ status[m] = "2xx"

Inv == TypeOK /\ EndsForCause /\ RepeatsForCause /\ Counted /\ Remembered

USE DEF Places, Handling, Settled, Outcomes

\* What a step does to one message, said of that message alone.
Fine(m) ==
  /\ msg[m] = "none" => attempts[m] = 0 /\ m \notin received
  /\ msg[m] = "queued" => attempts[m] <= MaxRetries
  /\ msg[m] = "dlq" => attempts[m] = MaxRetries + 1
  /\ m \in received /\ msg[m] \in {"log", "settle"} => Cause(m) \/ status[m] = "2xx"
  /\ m \in received /\ msg[m] \in {"queued", "post"} => Cause(m)
  /\ msg[m] = "acked" => \/ status[m] \in {"2xx", "4xx", "blocked"}
                         \/ m \in Emails /\ status[m] = "skipped"
  /\ msg[m] = "dropped" => m \in unlogged
  /\ msg[m] \in {"paged", "expired"} => attempts[m] = MaxRetries + 1
  /\ msg[m] = "paged" => dlqBound

LEMMA InvIsFine == Inv <=> TypeOK /\ \A m \in Messages : Fine(m)
  BY DEF Inv, EndsForCause, RepeatsForCause, Counted, Remembered, Fine, Cause

\* Nothing of the other messages changes but what is only ever added to.
LEMMA OthersKeep ==
  ASSUME TypeOK, NEW m \in Messages, Fine(m),
         msg'[m] = msg[m], attempts'[m] = attempts[m], status'[m] = status[m],
         m \in received' <=> m \in received,
         log \subseteq log', unlogged \subseteq unlogged', crashed \subseteq crashed', dlqBound' = dlqBound
  PROVE  Fine(m)'
  BY DEF Fine, Cause, TypeOK

LEMMA InvInit == Init => Inv
<1> SUFFICES ASSUME Init PROVE Inv
  OBVIOUS
<1>1. TypeOK
  BY HooksAssumption, DlqAssumption, BoundsAssumption DEF Init, TypeOK, NoHook
<1>2. \A m \in Messages : Fine(m)
  BY BoundsAssumption DEF Init, Fine
<1> QED BY <1>1, <1>2, InvIsFine

\* The rows of the log keep their type, and are only ever added to.
LEMMA LogType ==
  ASSUME TypeOK, NEW m \in Webhooks, NEW success \in BOOLEAN, NEW done \in BOOLEAN, logDelivery(m, success, done)
  PROVE  /\ log' \subseteq [msg: Webhooks, success: BOOLEAN] /\ unlogged' \subseteq Webhooks
         /\ log \subseteq log' /\ unlogged \subseteq unlogged'
         /\ done => [msg |-> m, success |-> success] \in log'
         /\ ~done => m \in unlogged'
<1>1. [msg |-> m, success |-> success] \in [msg: Webhooks, success: BOOLEAN]
  OBVIOUS
<1>2. CASE done
  BY <1>1, <1>2 DEF logDelivery, TypeOK
<1>3. CASE ~done
  BY <1>3 DEF logDelivery, TypeOK
<1> QED BY <1>2, <1>3

LEMMA TypeStep == Inv /\ [Next]_vars => TypeOK'
<1> SUFFICES ASSUME Inv, [Next]_vars PROVE TypeOK'
  OBVIOUS
<1>0. TypeOK /\ MaxRetries \in Nat /\ \A m \in Messages : Fine(m)
  BY InvIsFine, BoundsAssumption
<1> USE <1>0 DEF TypeOK, handled, Goto
<1>1. ASSUME NEW e \in Events, dispatch(e) PROVE TypeOK'
  BY <1>1 DEF dispatch
<1>2. ASSUME NEW w \in Hooks, sendTest(w) PROVE TypeOK'
  <2>1. hook' \in [Hooks -> [state: {"none", "active", "deleted"}, events: SUBSET (Events \union {TestEvent})]]
    BY <1>2 DEF sendTest
  <2> QED BY <1>2, <2>1 DEF sendTest
<1>3. ASSUME NEW w \in Hooks, deleteWebhook(w) PROVE TypeOK'
  BY <1>3 DEF deleteWebhook
<1>4. ASSUME NEW m \in Webhooks, NEW n \in 1..MaxRedeliveries, retryDelivery(m, n) PROVE TypeOK'
  BY <1>4 DEF retryDelivery
<1>5. ASSUME NEW m \in Emails, EnqueueEmail(m) PROVE TypeOK'
  BY <1>5 DEF EnqueueEmail
<1>6. ASSUME NEW m \in Messages, Deliver(m) PROVE TypeOK'
  BY <1>6 DEF Deliver, Fine
<1>7. ASSUME NEW m \in Messages, Crash(m) PROVE TypeOK'
  BY <1>7 DEF Crash, Retry
<1>8. ASSUME NEW m \in Messages, post(m) PROVE TypeOK'
  BY <1>8 DEF post
<1>9. ASSUME NEW m \in Messages, logAnswer(m) PROVE TypeOK'
  <2>1. PICK done \in Logging : logDelivery(m, status[m] = "2xx", done)
    BY <1>9 DEF logAnswer
  <2>2. m \in Webhooks /\ (status[m] = "2xx") \in BOOLEAN /\ done \in BOOLEAN
    BY <1>9, LoggingAssumption DEF logAnswer
  <2>3. log' \subseteq [msg: Webhooks, success: BOOLEAN] /\ unlogged' \subseteq Webhooks
    BY <1>0, <2>1, <2>2, LogType, Zenon
  <2> QED BY <1>9, <2>3 DEF logAnswer
<1>10. ASSUME NEW m \in Messages, settle(m) PROVE TypeOK'
  BY <1>10 DEF settle, Retry
<1>11. ASSUME NEW m \in Messages, catch(m) PROVE TypeOK'
  <2>1. PICK done \in Logging : logDelivery(m, FALSE, done)
    BY <1>11 DEF catch
  <2>2. m \in Webhooks /\ FALSE \in BOOLEAN /\ done \in BOOLEAN
    BY <1>11, LoggingAssumption DEF catch
  <2>3. log' \subseteq [msg: Webhooks, success: BOOLEAN] /\ unlogged' \subseteq Webhooks
    BY <1>0, <2>1, <2>2, LogType, Zenon
  <2> QED BY <1>11, <2>3 DEF catch, Retry
<1>12. ASSUME NEW m \in Messages, sendEmail(m) PROVE TypeOK'
  BY <1>12 DEF sendEmail, Retry
<1>13. ASSUME NEW m \in Messages, dlqConsumer(m) PROVE TypeOK'
  BY <1>13 DEF dlqConsumer
<1>14. CASE UNCHANGED vars
  BY <1>14 DEF vars
<1>15. ASSUME NEW m \in Messages, Expire(m) PROVE TypeOK'
  BY <1>15 DEF Expire
<1> QED BY <1>1, <1>2, <1>3, <1>4, <1>5, <1>6, <1>7, <1>8, <1>9, <1>10, <1>11, <1>12, <1>13, <1>14, <1>15
  DEF Next, processOne

LEMMA FineStep == Inv /\ [Next]_vars => (\A x \in Messages : Fine(x))'
<1> SUFFICES ASSUME Inv, [Next]_vars, NEW x \in Messages PROVE Fine(x)'
  BY DEF Messages, Webhooks
<1>0. TypeOK /\ TypeOK' /\ MaxRetries \in Nat /\ Fine(x)
  BY InvIsFine, TypeStep, BoundsAssumption
<1> USE <1>0 DEF handled, Goto
\* A new message has not been sent before.
<1>a. ASSUME msg[x] = "none", msg'[x] = "queued", UNCHANGED <<attempts, received>> PROVE Fine(x)'
  BY <1>a DEF Fine
<1>b. ASSUME msg'[x] = msg[x], UNCHANGED <<dlqBound, attempts, handled, crashed>> PROVE Fine(x)'
  BY <1>b, OthersKeep
<1>1. ASSUME NEW e \in Events, dispatch(e) PROVE Fine(x)'
  BY <1>1, <1>a, <1>b DEF dispatch, TypeOK
<1>2. ASSUME NEW w \in Hooks, sendTest(w) PROVE Fine(x)'
  BY <1>2, <1>a, <1>b DEF sendTest, TypeOK
<1>3. ASSUME NEW w \in Hooks, deleteWebhook(w) PROVE Fine(x)'
  BY <1>3, <1>b DEF deleteWebhook
<1>4. ASSUME NEW m \in Webhooks, NEW n \in 1..MaxRedeliveries, retryDelivery(m, n) PROVE Fine(x)'
  BY <1>4, <1>a, <1>b DEF retryDelivery, TypeOK
<1>5. ASSUME NEW m \in Emails, EnqueueEmail(m) PROVE Fine(x)'
  BY <1>5, <1>a, <1>b DEF EnqueueEmail, TypeOK
<1>6. ASSUME NEW m \in Messages, Deliver(m) PROVE Fine(x)'
  <2>1. CASE x = m
    BY <1>6, <2>1 DEF Deliver, Fine, Cause, TypeOK
  <2>2. CASE x # m
    BY <1>6, <2>2, OthersKeep DEF Deliver, TypeOK
  <2> QED BY <2>1, <2>2
<1>7. ASSUME NEW m \in Messages, Crash(m) PROVE Fine(x)'
  <2>1. CASE x = m
    BY <1>7, <2>1 DEF Crash, Retry, Fine, Cause, TypeOK
  <2>2. CASE x # m
    BY <1>7, <2>2, OthersKeep DEF Crash, Retry, TypeOK
  <2> QED BY <2>1, <2>2
<1>8. ASSUME NEW m \in Messages, post(m) PROVE Fine(x)'
  <2>1. CASE x = m
    <3>1. CASE m[2] \in BlockedHooks
      BY <1>8, <2>1, <3>1 DEF post, Fine, Cause, TypeOK
    <3>2. CASE m[2] \notin BlockedHooks
      BY <1>8, <2>1, <3>2 DEF post, Fine, Cause, TypeOK
    <3> QED BY <3>1, <3>2
  <2>2. CASE x # m
    BY <1>8, <2>2, OthersKeep DEF post, TypeOK
  <2> QED BY <2>1, <2>2
<1>9. ASSUME NEW m \in Messages, logAnswer(m) PROVE Fine(x)'
  <2>1. PICK done \in Logging :
          /\ logDelivery(m, status[m] = "2xx", done)
          /\ status' = IF done THEN status ELSE [status EXCEPT ![m] = "none"]
          /\ Goto(m, IF done THEN "settle" ELSE "catch")
    BY <1>9 DEF logAnswer
  <2>2. m \in Webhooks /\ (status[m] = "2xx") \in BOOLEAN /\ done \in BOOLEAN
    BY <1>9, LoggingAssumption DEF logAnswer
  <2>3. log \subseteq log' /\ unlogged \subseteq unlogged' /\ (~done => m \in unlogged')
    BY <2>1, <2>2, LogType, Zenon
  <2>4. UNCHANGED <<dlqBound, hook, attempts, received, crashed>> /\ msg[m] = "log"
    BY <1>9 DEF logAnswer
  <2>5. CASE x = m
    BY <2>1, <2>3, <2>4, <2>5 DEF Fine, Cause, TypeOK
  <2>6. CASE x # m
    BY <2>1, <2>3, <2>4, <2>6, OthersKeep DEF TypeOK
  <2> QED BY <2>5, <2>6
<1>10. ASSUME NEW m \in Messages, settle(m) PROVE Fine(x)'
  <2>1. CASE x = m
    BY <1>10, <2>1 DEF settle, Retry, Fine, Cause, TypeOK
  <2>2. CASE x # m
    BY <1>10, <2>2, OthersKeep DEF settle, Retry, TypeOK
  <2> QED BY <2>1, <2>2
<1>11. ASSUME NEW m \in Messages, catch(m) PROVE Fine(x)'
  <2>1. PICK done \in Logging :
          logDelivery(m, FALSE, done) /\ (IF done THEN Retry(m) ELSE Goto(m, "dropped"))
    BY <1>11 DEF catch
  <2>2. m \in Webhooks /\ msg[m] = "catch" /\ done \in BOOLEAN /\ UNCHANGED <<dlqBound, hook, attempts, status, received, crashed>>
    BY <1>11, LoggingAssumption DEF catch
  <2>3. /\ log \subseteq log' /\ unlogged \subseteq unlogged' /\ (~done => m \in unlogged')
        /\ done => [msg |-> m, success |-> FALSE] \in log'
    BY <2>1, <2>2, LogType, Zenon
  <2>4. CASE x = m
    <3>1. done => Cause(m)'
      BY <2>3 DEF Cause
    <3> QED BY <2>1, <2>2, <2>3, <2>4, <3>1 DEF Retry, Fine, TypeOK
  <2>5. CASE x # m
    BY <2>1, <2>2, <2>3, <2>5, OthersKeep DEF Retry, TypeOK
  <2> QED BY <2>4, <2>5
<1>12. ASSUME NEW m \in Messages, sendEmail(m) PROVE Fine(x)'
  <2>1. CASE x = m
    BY <1>12, <2>1 DEF sendEmail, Retry, Fine, Cause, TypeOK
  <2>2. CASE x # m
    BY <1>12, <2>2, OthersKeep DEF sendEmail, Retry, TypeOK
  <2> QED BY <2>1, <2>2
<1>13. ASSUME NEW m \in Messages, dlqConsumer(m) PROVE Fine(x)'
  <2>1. CASE x = m
    BY <1>13, <2>1 DEF dlqConsumer, Fine, Cause, TypeOK
  <2>2. CASE x # m
    BY <1>13, <2>2, OthersKeep DEF dlqConsumer, TypeOK
  <2> QED BY <2>1, <2>2
<1>14. CASE UNCHANGED vars
  BY <1>14, <1>b DEF vars
<1>15. ASSUME NEW m \in Messages, Expire(m) PROVE Fine(x)'
  <2>1. CASE x = m
    BY <1>15, <2>1 DEF Expire, Fine, Cause, TypeOK
  <2>2. CASE x # m
    BY <1>15, <2>2, OthersKeep DEF Expire, TypeOK
  <2> QED BY <2>1, <2>2
<1> QED BY <1>1, <1>2, <1>3, <1>4, <1>5, <1>6, <1>7, <1>8, <1>9, <1>10, <1>11, <1>12, <1>13, <1>14, <1>15
  DEF Next, processOne

LEMMA InvStep == Inv /\ [Next]_vars => Inv'
<1> SUFFICES ASSUME Inv, [Next]_vars PROVE Inv'
  OBVIOUS
<1>1. TypeOK' /\ (\A x \in Messages : Fine(x))'
  BY TypeStep, FineStep
<1> QED BY <1>1 DEF Inv, EndsForCause, RepeatsForCause, Counted, Remembered, Fine, Cause

\* The invariant of the producers, the queues and their consumers.
THEOREM InvCorrect == Spec => []Inv
  BY InvInit, InvStep, PTL DEF Spec

\* Every variable keeps its type; no message is delivered more than once beyond
\* max_retries.
THEOREM TypeCorrect == Spec => []TypeOK
<1>1. Inv => TypeOK
  BY DEF Inv
<1> QED BY <1>1, InvCorrect, PTL

\* A message ends received, refused for good, a dead letter after its last
\* delivery (paged only by a consumer that is bound), or dropped because its log
\* could not be written (processOne's ack and catch).
THEOREM EndForCause == Spec => []EndsForCause
<1>1. Inv => EndsForCause
  BY DEF Inv
<1> QED BY <1>1, InvCorrect, PTL

\* A receiver that has answered 2xx is called again only if the answer or the
\* log was lost or a Worker died.
THEOREM RepeatForCause == Spec => []RepeatsForCause
<1>1. Inv => RepeatsForCause
  BY DEF Inv
<1> QED BY <1>1, InvCorrect, PTL
=============================================================================
