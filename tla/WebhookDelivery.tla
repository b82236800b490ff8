--------------------------- MODULE WebhookDelivery ---------------------------
(***************************************************************************)
(* Outbound deliveries: webhooks from services/webhook-dispatcher.ts and   *)
(* the retry route of controllers/api.ts through the queue webhook-out to  *)
(* queues/webhook-consumer.ts, e-mails through email-out to                *)
(* queues/email-consumer.ts, and the dead-letter queues                    *)
(* (queues/dlq-consumer.ts).                                               *)
(*                                                                         *)
(* Cloudflare Queues (external) deliver a message again until it is        *)
(* acknowledged, max_retries times beyond the first, and then move it to   *)
(* the dead-letter queue.  A message its handler neither acknowledged nor  *)
(* retried is acknowledged when the handler returns, and process() returns *)
(* normally whatever its messages' promises did (Promise.allSettled).      *)
(***************************************************************************)
EXTENDS Naturals, FiniteSets

CONSTANTS
  Events,           \* events of the merchant
  TestEvent,        \* webhook.test
  Hooks,            \* rows of op_webhooks
  BlockedHooks,     \* those whose URL isAllowedWebhookUrl refuses
  InitialHooks,     \* the endpoints there may be at first, with their events ({}: all)
  Emails,           \* e-mails
  Logging,          \* the outcomes the INSERT of logDelivery can have
  DlqBound,         \* whether a consumer is bound to the dead-letter queues
  MaxRetries,       \* max_retries of the queues
  MaxRedeliveries,  \* times the merchant has one delivery sent again
  MaxMessages,      \* messages enqueued in all
  MaxCrashes        \* Workers that die while they handle a message

ASSUME EventsAssumption == TestEvent \notin Events
NoHook == [state |-> "none", events |-> {}]
ASSUME HooksAssumption ==
  InitialHooks \subseteq
    [Hooks -> {NoHook} \union [state: {"active"}, events: SUBSET (Events \union {TestEvent})]]
ASSUME LoggingAssumption == Logging \subseteq BOOLEAN
\* The deployments there may be; wrangler.jsonc binds none.
ASSUME DlqAssumption == DlqBound \subseteq BOOLEAN
ASSUME BoundsAssumption == {MaxRetries, MaxRedeliveries, MaxMessages, MaxCrashes} \subseteq Nat

\* A webhook message: its event, its endpoint, and which redelivery it is.
Webhooks == (Events \union {TestEvent}) \X Hooks \X (0..MaxRedeliveries)
Messages == Webhooks \union Emails

VARIABLES
  dlqBound,   \* a consumer is bound to the dead-letter queues
  hook,       \* op_webhooks: "none", "active" or "deleted", and its events
  msg,        \* where each message is: see Places
  attempts,   \* times the queue has delivered it
  status,     \* the answer to its last POST ("none": no answer)
  received,   \* messages a receiver has taken (2xx)
  log,        \* op_webhook_deliveries: rows of a message, and their outcome
  unlogged,   \* messages of which an INSERT into the log has failed
  crashed     \* messages whose Worker died

vars == <<dlqBound, hook, msg, attempts, status, received, log, unlogged, crashed>>

Outcomes == {"none", "2xx", "4xx", "5xx", "blocked", "skipped"}
Handling == {"post", "log", "settle", "catch"}
Settled == {"acked", "dropped", "paged", "expired"}
Places == {"none", "queued", "dlq"} \union Handling \union Settled

Init ==
  /\ dlqBound \in DlqBound
  /\ hook \in InitialHooks
  /\ msg = [m \in Messages |-> "none"]
  /\ attempts = [m \in Messages |-> 0]
  /\ status = [m \in Messages |-> "none"]
  /\ received = {}
  /\ log = {}
  /\ unlogged = {}
  /\ crashed = {}

\* Room for n more messages within the bound.
Room(n) == Cardinality({m \in Messages : msg[m] # "none"}) + n <= MaxMessages
Goto(m, place) == msg' = [msg EXCEPT ![m] = place]
handled == <<status, received, log, unlogged>>
-----------------------------------------------------------------------------
(* Producers                                                               *)

Subscribed(w, e) ==
  hook[w].state = "active" /\ (hook[w].events = {} \/ e \in hook[w].events)

\* dispatch: one message for every endpoint subscribed now, in one batch.
dispatch(e) ==
  LET batch == {<<e, w, 0>> : w \in {w \in Hooks : Subscribed(w, e)}}
  IN  /\ \A w \in Hooks : msg[<<e, w, 0>>] = "none"
      /\ batch # {} /\ Room(Cardinality(batch))
      /\ msg' = [m \in Messages |-> IF m \in batch THEN "queued" ELSE msg[m]]
      /\ UNCHANGED <<dlqBound, hook, attempts, handled, crashed>>

\* sendTest: to an active endpoint, or to one registered for it.
sendTest(w) ==
  LET m == <<TestEvent, w, 0>>
  IN  /\ msg[m] = "none" /\ Room(1)
      /\ \/ hook[w].state = "active" /\ UNCHANGED hook
         \/ /\ \A v \in Hooks : hook[v].state # "active"
            /\ hook[w].state = "none" /\ w \notin BlockedHooks
            /\ hook' = [hook EXCEPT ![w] = [state |-> "active", events |-> {}]]
      /\ Goto(m, "queued")
      /\ UNCHANGED <<dlqBound, attempts, handled, crashed>>

\* DELETE /webhooks/:id.  Messages on their way keep their URL and secret.
deleteWebhook(w) ==
  /\ hook[w].state = "active"
  /\ hook' = [hook EXCEPT ![w].state = "deleted"]
  /\ UNCHANGED <<dlqBound, msg, attempts, handled, crashed>>

\* POST /webhooks/deliveries/:id/retry: a logged delivery whose endpoint is
\* still there is sent again as a new message.
retryDelivery(m, n) ==
  LET again == <<m[1], m[2], n>>
  IN  /\ \E row \in log : row.msg = m
      /\ hook[m[2]].state = "active"
      /\ msg[again] = "none" /\ Room(1)
      /\ Goto(again, "queued")
      /\ UNCHANGED <<dlqBound, hook, attempts, handled, crashed>>

\* An e-mail is enqueued.
EnqueueEmail(m) ==
  /\ msg[m] = "none" /\ Room(1)
  /\ Goto(m, "queued")
  /\ UNCHANGED <<dlqBound, hook, attempts, handled, crashed>>
-----------------------------------------------------------------------------
(* The queue                                                               *)

Deliver(m) ==
  /\ msg[m] = "queued"
  /\ Goto(m, "post")
  /\ attempts' = [attempts EXCEPT ![m] = @ + 1]
  /\ status' = [status EXCEPT ![m] = "none"]
  /\ UNCHANGED <<dlqBound, hook, received, log, unlogged, crashed>>

\* msg.retry(), or no word at all: again, or to the dead-letter queue.
Retry(m) == Goto(m, IF attempts[m] <= MaxRetries THEN "queued" ELSE "dlq")

\* The Worker dies: the lease of the message runs out.
Crash(m) ==
  /\ msg[m] \in Handling
  /\ Cardinality(crashed) < MaxCrashes /\ m \notin crashed
  /\ crashed' = crashed \union {m}
  /\ Retry(m)
  /\ UNCHANGED <<dlqBound, hook, attempts, handled>>
-----------------------------------------------------------------------------
(* webhook-consumer.ts                                                     *)

\* The POST, unless the URL is blocked.  A 2xx may be lost on the way back
\* (timeout, network); redirects are errors.
post(m) ==
  /\ m \in Webhooks /\ msg[m] = "post"
  /\ IF m[2] \in BlockedHooks
       THEN /\ status' = [status EXCEPT ![m] = "blocked"]
            /\ Goto(m, "log")
            /\ UNCHANGED received
       ELSE \E s \in {"2xx", "4xx", "5xx", "none"}, got \in BOOLEAN :
              /\ s = "2xx" => got
              /\ got => s \in {"2xx", "none"}
              /\ status' = [status EXCEPT ![m] = s]
              /\ received' = IF got THEN received \union {m} ELSE received
              /\ Goto(m, IF s = "none" THEN "catch" ELSE "log")
  /\ UNCHANGED <<dlqBound, hook, attempts, log, unlogged, crashed>>

\* The INSERT into op_webhook_deliveries: it is done, or throws.
logDelivery(m, success, done) ==
  IF done THEN /\ log' = log \union {[msg |-> m, success |-> success]}
               /\ UNCHANGED unlogged
          ELSE /\ unlogged' = unlogged \union {m}
               /\ UNCHANGED log

logAnswer(m) ==
  /\ m \in Webhooks /\ msg[m] = "log"
  /\ \E done \in Logging :
       /\ logDelivery(m, status[m] = "2xx", done)
       /\ status' = IF done THEN status ELSE [status EXCEPT ![m] = "none"]
       /\ Goto(m, IF done THEN "settle" ELSE "catch")
  /\ UNCHANGED <<dlqBound, hook, attempts, received, crashed>>

\* Mutant of settle: a 5xx is acknowledged with the rest.
AcksServerErrors(m) ==
  /\ m \in Webhooks /\ msg[m] = "settle"
  /\ Goto(m, "acked")
  /\ UNCHANGED <<dlqBound, hook, attempts, handled, crashed>>

\* Mutant of settle: a delivered webhook is not acknowledged.
RetriesDelivered(m) ==
  /\ m \in Webhooks /\ msg[m] = "settle"
  /\ IF status[m] \in {"4xx", "blocked"} THEN Goto(m, "acked") ELSE Retry(m)
  /\ UNCHANGED <<dlqBound, hook, attempts, handled, crashed>>

\* Mutant of settle: a failed message is enqueued anew instead of retried, and
\* its deliveries are counted from nothing.
EnqueuesAnew(m) ==
  /\ m \in Webhooks /\ msg[m] = "settle"
  /\ Goto(m, IF status[m] \in {"2xx", "4xx", "blocked"} THEN "acked" ELSE "queued")
  /\ attempts' = [attempts EXCEPT ![m] = 0]
  /\ UNCHANGED <<dlqBound, hook, handled, crashed>>

\* 2xx, 4xx and a blocked URL are acknowledged, the rest is retried.
settle(m) ==
  /\ m \in Webhooks /\ msg[m] = "settle"
  /\ IF status[m] \in {"2xx", "4xx", "blocked"} THEN Goto(m, "acked") ELSE Retry(m)
  /\ UNCHANGED <<dlqBound, hook, attempts, handled, crashed>>

\* The catch clause logs a failure and retries.  If the log throws here the
\* promise of the message is rejected, and the message acknowledged unseen.
catch(m) ==
  /\ m \in Webhooks /\ msg[m] = "catch"
  /\ \E done \in Logging :
       logDelivery(m, FALSE, done) /\ (IF done THEN Retry(m) ELSE Goto(m, "dropped"))
  /\ UNCHANGED <<dlqBound, hook, attempts, status, received, crashed>>
-----------------------------------------------------------------------------
(* email-consumer.ts and dlq-consumer.ts                                   *)

\* Without an API key in KV an e-mail is acknowledged unsent; an answer that is
\* lost is an error.
sendEmail(m) ==
  /\ m \in Emails /\ msg[m] = "post"
  /\ \E s \in {"skipped", "2xx", "4xx", "5xx", "none"}, got \in BOOLEAN :
       /\ s = "2xx" => got
       /\ got => s \in {"2xx", "none"}
       /\ status' = [status EXCEPT ![m] = s]
       /\ received' = IF got THEN received \union {m} ELSE received
       /\ IF s \in {"skipped", "2xx", "4xx"} THEN Goto(m, "acked") ELSE Retry(m)
  /\ UNCHANGED <<dlqBound, hook, attempts, log, unlogged, crashed>>

\* The dead-letter consumer, where one is bound, pages and acknowledges.
dlqConsumer(m) ==
  /\ dlqBound
  /\ msg[m] = "dlq"
  /\ Goto(m, "paged")
  /\ UNCHANGED <<dlqBound, hook, attempts, handled, crashed>>

\* The retention of the dead-letter queue runs out, seen by nobody.
Expire(m) ==
  /\ msg[m] = "dlq"
  /\ Goto(m, "expired")
  /\ UNCHANGED <<dlqBound, hook, attempts, handled, crashed>>

processOne(m) == post(m) \/ logAnswer(m) \/ settle(m) \/ catch(m) \/ sendEmail(m)

Next ==
  \/ \E e \in Events : dispatch(e)
  \/ \E w \in Hooks : sendTest(w) \/ deleteWebhook(w)
  \/ \E m \in Webhooks, n \in 1..MaxRedeliveries : retryDelivery(m, n)
  \/ \E m \in Emails : EnqueueEmail(m)
  \/ \E m \in Messages : Deliver(m) \/ Crash(m) \/ processOne(m) \/ dlqConsumer(m) \/ Expire(m)

Spec == Init /\ [][Next]_vars

\* Cloudflare Queues keep delivering and forget what is past its retention, and
\* a handler that does not die goes on (the POST is cut off after 15 s).
\* Nothing is assumed of a dead-letter consumer.
Fairness ==
  \A m \in Messages : WF_vars(Deliver(m)) /\ WF_vars(processOne(m)) /\ WF_vars(Expire(m))

FairSpec == Spec /\ Fairness
-----------------------------------------------------------------------------
TypeOK ==
  /\ dlqBound \in BOOLEAN
  /\ hook \in [Hooks -> [state: {"none", "active", "deleted"}, events: SUBSET (Events \union {TestEvent})]]
  /\ msg \in [Messages -> Places]
  /\ attempts \in [Messages -> 0..(MaxRetries + 1)]
  /\ status \in [Messages -> Outcomes]
  /\ received \subseteq Messages
  /\ log \subseteq [msg: Webhooks, success: BOOLEAN]
  /\ unlogged \subseteq Webhooks
  /\ crashed \subseteq Messages

\* A message that ended was received, refused for good (4xx, a blocked URL),
\* lost from the dead-letter queue after its last delivery (paged only where a
\* consumer is bound to it) or, a webhook of which the log could not be
\* written, dropped; an e-mail may also go unsent for want of an API key.
EndsForCause ==
  \A m \in Messages :
    /\ msg[m] = "acked" => \/ status[m] \in {"2xx", "4xx", "blocked"}
                           \/ m \in Emails /\ status[m] = "skipped"
    /\ msg[m] = "dropped" => m \in unlogged
    /\ msg[m] \in {"paged", "expired"} => attempts[m] = MaxRetries + 1
    /\ msg[m] = "paged" => dlqBound

\* A receiver is only called again after a 2xx if the answer did not reach the
\* consumer, the log could not be written, or the Worker died
\* (webhook-consumer.ts:71).
RepeatsForCause ==
  \A m \in Messages :
    m \in received /\ msg[m] \in {"queued", "post"} =>
      \/ m \in unlogged \union crashed
      \/ \E row \in log : row.msg = m /\ ~row.success
      \/ m \in Emails

\* Every message comes to an end (delivered, refused, dropped, paged, or expired
\* among the dead letters) within the retries of its queue, whatever fails:
\* again and again nothing is under way.
Settles == []<>(\A m \in Messages : msg[m] \in {"none"} \union Settled)
=============================================================================
