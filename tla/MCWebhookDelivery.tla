-------------------------- MODULE MCWebhookDelivery --------------------------
(* Instances of WebhookDelivery for TLC.                                    *)
EXTENDS WebhookDelivery

CONSTANTS e1, test, w1, w2
Active(es) == [state |-> "active", events |-> es]
MCInitialHooks ==
  {[w \in Hooks |-> IF w = w1 THEN Active({e1}) ELSE Active({})],
   [w \in Hooks |-> IF w = w1 THEN NoHook ELSE Active({test})],
   [w \in Hooks |-> NoHook]}

\* What logDelivery's INSERT can do: go through or throw.  Against the table of
\* migrations/0001_initial_schema.sql, which lacks two of the columns it names,
\* it always throws; the runs that do so are among these.
Either == {TRUE, FALSE}
=============================================================================
