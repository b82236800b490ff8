----------------------------- MODULE MerchantApi -----------------------------
(***************************************************************************)
(* The merchant REST API (controllers/api.ts): authentication by API key   *)
(* (middleware/auth.ts), idempotency keys (middleware/idempotency.ts)      *)
(* around the routes that create something, and the life of the API keys   *)
(* themselves.                                                             *)
(*                                                                         *)
(* A request is a process, one action per statement sent to D1; a refusal  *)
(* that changed nothing ends it.  What a route creates (a payment intent, a*)
(* refund) is an effect, named by the request that had it; the record of an*)
(* idempotency key is named by the request that stored it.                 *)
(***************************************************************************)
EXTENDS Naturals, FiniteSets

CONSTANTS
  Requests,    \* requests to the API
  Merchants,   \* op_merchants
  ApiKeys,     \* rows of op_api_keys
  InitialKeys, \* the rows there are at first: see KeysAssumption
  AskedScopes, \* the sets of scopes new keys are asked with
  IdemKeys,    \* values of X-Idempotency-Key
  Bodies,      \* request bodies
  NoApiKey, NoMerchant, NoIdem, NoRecord,
  Yesterday,   \* requests of the day before, whose records have expired
  MaxExpired   \* records that outlive their 24 hours

Scopes == {"read", "write", "admin"}
KeyRows == [status: {"active", "revoked"}, owner: Merchants, scopes: SUBSET Scopes,
            from: ApiKeys \union {NoApiKey}]
NoRow == [status |-> "none"]

ASSUME KeysAssumption ==
  /\ InitialKeys \subseteq [ApiKeys -> KeyRows \union {NoRow}]
  /\ \A f \in InitialKeys, k \in ApiKeys :
       f[k] # NoRow => f[k].from = NoApiKey /\ f[k].status = "active"
ASSUME ScopesAssumption == AskedScopes \subseteq SUBSET Scopes
ASSUME NothingAssumption ==
  /\ NoApiKey \notin ApiKeys /\ NoMerchant \notin Merchants
  /\ NoIdem \notin IdemKeys /\ NoRecord \notin Requests
  /\ Requests \intersect {"none", "refused", "own"} = {}
ASSUME YesterdayAssumption ==
  /\ Yesterday \subseteq [req: Requests, merchant: Merchants, idem: IdemKeys, body: Bodies]
  /\ \A y, z \in Yesterday :
       y.req = z.req \/ (y.merchant = z.merchant /\ y.idem = z.idem) => y = z
ASSUME MaxExpiredAssumption == MaxExpired \in Nat

VARIABLES
  merchant,   \* op_merchants.status
  apiKey,     \* op_api_keys
  record,     \* op_idempotency_keys: by (merchant, key), the request that stored it
  expired,    \* requests whose record has outlived its TTL
  effect,     \* requests whose route has had its effect
  answer,     \* what each request was answered: see Answers
  covered,    \* requests that have met a live record of their key ever since they arrived
  req         \* requests

vars == <<merchant, apiKey, record, expired, effect, answer, covered, req>>
tenancy == <<merchant, apiKey>>
idempotency == <<record, expired, effect, covered>>

Idle == [pc |-> "idle", merchant |-> NoMerchant, key |-> NoApiKey, idem |-> NoIdem,
         body |-> NoIdem, stale |-> NoRecord, target |-> NoApiKey,
         made |-> NoApiKey]

\* A request is unanswered, refused, answered by what it did itself, or by the
\* recorded response of another request.
Answers == {"none", "refused", "own"} \union Requests

At(r, pc) == req[r].pc = pc
Goto(r, pc) == req' = [req EXCEPT ![r].pc = pc]
Answer(r, a) == answer' = [answer EXCEPT ![r] = a]
Finish(r, a) == Goto(r, "done") /\ Answer(r, a)
Live(m, i) == record[m, i] # NoRecord /\ record[m, i] \notin expired

Init ==
  /\ merchant = [m \in Merchants |-> "active"]
  /\ apiKey \in InitialKeys
  /\ record = [x \in Merchants \X IdemKeys |->
                 IF \E y \in Yesterday : <<y.merchant, y.idem>> = x
                 THEN (CHOOSE y \in Yesterday : <<y.merchant, y.idem>> = x).req ELSE NoRecord]
  /\ expired = {y.req : y \in Yesterday}
  /\ effect = expired
  /\ answer = [r \in Requests |-> IF r \in expired THEN "own" ELSE "none"]
  /\ covered = {}
  /\ req = [r \in Requests |->
              IF r \in expired
              THEN LET y == CHOOSE y \in Yesterday : y.req = r
                   IN  [Idle EXCEPT !.pc = "done", !.merchant = y.merchant, !.idem = y.idem,
                                    !.body = y.body]
              ELSE Idle]
-----------------------------------------------------------------------------
(* Authentication                                                          *)

\* The row of an active key of an active merchant; the scope of the method.
Authorised(k, scope) ==
  /\ apiKey[k].status = "active"
  /\ merchant[apiKey[k].owner] = "active"
  /\ scope \in apiKey[k].scopes

\* requireBearerApiAuth, then the write scope of a mutating method.
requireBearerApiAuth(r, k, scope, next) ==
  /\ At(r, "idle")
  /\ Authorised(k, scope)
  /\ req' = [req EXCEPT ![r] = [next EXCEPT !.merchant = apiKey[k].owner, !.key = k]]
-----------------------------------------------------------------------------
(* Routes under an idempotency key: POST /payments and POST /refunds       *)

\* POST /payments takes the key or goes without, POST /refunds insists on it;
\* that is all the two differ in here.  The route is not part of the record:
\* the key and the body of the one, sent to the other, replay its answer.
createPayment(r, k, i, b) ==
  /\ requireBearerApiAuth(r, k, "write",
       [Idle EXCEPT !.pc = IF i = NoIdem THEN "execute" ELSE "lookup", !.idem = i, !.body = b])
  /\ covered' = IF i # NoIdem /\ Live(apiKey[k].owner, i) THEN covered \union {r} ELSE covered
  /\ UNCHANGED <<tenancy, record, expired, effect, answer>>

createRefund(r, k, i, b) == i # NoIdem /\ createPayment(r, k, i, b)

\* Mutant of lookupRecord: the body is not compared.
ReplaysAnyBody(r) ==
  LET rec == record[req[r].merchant, req[r].idem]
  IN  /\ At(r, "lookup")
      /\ CASE rec = NoRecord -> Goto(r, "execute") /\ UNCHANGED answer
           [] rec # NoRecord /\ rec \in expired ->
                req' = [req EXCEPT ![r].pc = "delete", ![r].stale = rec] /\ UNCHANGED answer
           [] OTHER -> Finish(r, rec)
      /\ UNCHANGED <<tenancy, idempotency>>

\* SELECT by merchant and key: nothing, an expired record, one of another
\* body (409), or the response to replay.
lookupRecord(r) ==
  LET rec == record[req[r].merchant, req[r].idem]
  IN  /\ At(r, "lookup")
      /\ CASE rec = NoRecord -> Goto(r, "execute") /\ UNCHANGED answer
           [] rec # NoRecord /\ rec \in expired ->
                req' = [req EXCEPT ![r].pc = "delete", ![r].stale = rec] /\ UNCHANGED answer
           [] OTHER -> Finish(r, IF req[rec].body = req[r].body THEN rec ELSE "refused")
      /\ UNCHANGED <<tenancy, idempotency>>

\* Mutant of deleteExpired: by merchant and key.
DeletesByKey(r) ==
  /\ At(r, "delete")
  /\ record' = [record EXCEPT ![<<req[r].merchant, req[r].idem>>] = NoRecord]
  /\ Goto(r, "execute")
  /\ UNCHANGED <<tenancy, expired, effect, covered, answer>>

\* DELETE by id of the expired record read; a failure is ignored.
deleteExpired(r) ==
  /\ At(r, "delete")
  /\ \/ record' = [record EXCEPT ![<<req[r].merchant, req[r].idem>>] =
                     IF @ = req[r].stale THEN NoRecord ELSE @]
     \/ UNCHANGED record
  /\ Goto(r, "execute")
  /\ UNCHANGED <<tenancy, expired, effect, covered, answer>>

\* The route: it has its effect and is answered 2xx, or refuses, or dies
\* with the Worker before or after its effect.
execute(r) ==
  /\ At(r, "execute")
  /\ \/ /\ effect' = effect \union {r}
        /\ Answer(r, "own")
        /\ Goto(r, IF req[r].idem = NoIdem THEN "done" ELSE "store")
     \/ effect' \in {effect, effect \union {r}} /\ Finish(r, "refused")
  /\ UNCHANGED <<tenancy, record, expired, covered>>

\* In waitUntil, after the answer: INSERT ... ON CONFLICT DO NOTHING; an error
\* is swallowed.
storeRecord(r) ==
  /\ At(r, "store")
  /\ \/ record' = [record EXCEPT ![<<req[r].merchant, req[r].idem>>] = IF @ = NoRecord THEN r ELSE @]
     \/ UNCHANGED record
  /\ Goto(r, "done")
  /\ UNCHANGED <<tenancy, expired, effect, covered, answer>>

\* 24 hours pass for a stored record.
Expire(m, i) ==
  /\ Live(m, i)
  /\ Cardinality(expired) < MaxExpired
  /\ expired' = expired \union {record[m, i]}
  /\ covered' = {r \in covered : ~(req[r].merchant = m /\ req[r].idem = i)}
  /\ UNCHANGED <<tenancy, record, effect, answer, req>>
-----------------------------------------------------------------------------
(* API keys                                                                *)

Unused(k) == apiKey[k] = NoRow
Row(m, scopes, from) == [status |-> "active", owner |-> m, scopes |-> scopes, from |-> from]

\* POST /api-keys, with whatever scopes the body asks for.
createApiKey(r, k, new, scopes) ==
  /\ requireBearerApiAuth(r, k, "admin", [Idle EXCEPT !.pc = "done"])
  /\ Unused(new)
  /\ apiKey' = [apiKey EXCEPT ![new] = Row(apiKey[k].owner, scopes, NoApiKey)]
  /\ Answer(r, "own")
  /\ UNCHANGED <<merchant, idempotency>>

\* PATCH and DELETE /api-keys/:id read the row of the merchant,
revokeApiKey(r, k, t) ==
  /\ requireBearerApiAuth(r, k, "admin", [Idle EXCEPT !.pc = "revoke", !.target = t])
  /\ apiKey[t].status = "active" /\ apiKey[t].owner = apiKey[k].owner
  /\ UNCHANGED <<tenancy, idempotency, answer>>

\* and revoke it, whatever it is by now.
RevokeUpdate(r) ==
  /\ At(r, "revoke")
  /\ apiKey' = [apiKey EXCEPT ![req[r].target].status = "revoked"]
  /\ Finish(r, "own")
  /\ UNCHANGED <<merchant, idempotency>>

\* Mutant of rotateApiKey: the row is read by id alone.
ReadsAnyRow(r, k, t) ==
  /\ requireBearerApiAuth(r, k, "admin", [Idle EXCEPT !.pc = "rotate", !.target = t])
  /\ apiKey[t].status = "active"
  /\ UNCHANGED <<tenancy, idempotency, answer>>

\* POST /api-keys/:id/rotate reads an active row of the merchant,
rotateApiKey(r, k, t) ==
  /\ requireBearerApiAuth(r, k, "admin", [Idle EXCEPT !.pc = "rotate", !.target = t])
  /\ apiKey[t].status = "active" /\ apiKey[t].owner = apiKey[k].owner
  /\ UNCHANGED <<tenancy, idempotency, answer>>

\* Mutant of RotateBatch: the changes of the UPDATE are not looked at.
IgnoresChanges(r, new) ==
  LET t == req[r].target
  IN  /\ At(r, "rotate")
      /\ Unused(new)
      /\ apiKey' = [apiKey EXCEPT ![new] = Row(req[r].merchant, apiKey[t].scopes, t),
                                  ![t].status = "revoked"]
      /\ req' = [req EXCEPT ![r].pc = "done", ![r].made = new]
      /\ Answer(r, "own")
      /\ UNCHANGED <<merchant, idempotency>>

\* and, in one batch, inserts the new row and revokes the old one if it is
\* still active; if it was not, the answer is 409 and the new row stays.
RotateBatch(r, new) ==
  LET t == req[r].target
  IN  /\ At(r, "rotate")
      /\ Unused(new)
      /\ apiKey' = [apiKey EXCEPT ![new] = Row(req[r].merchant, apiKey[t].scopes, t),
                                  ![t].status = "revoked"]
      /\ req' = [req EXCEPT ![r].pc = "done", ![r].made = new]
      /\ Answer(r, IF apiKey[t].status = "active" THEN "own" ELSE "refused")
      /\ UNCHANGED <<merchant, idempotency>>

\* The platform suspends or reinstates a merchant.
SetMerchantStatus(m) ==
  /\ merchant' = [merchant EXCEPT ![m] = IF @ = "active" THEN "suspended" ELSE "active"]
  /\ UNCHANGED <<apiKey, idempotency, answer, req>>

\* The Worker dies between two statements.
Crash(r) ==
  /\ req[r].pc \notin {"idle", "done"}
  /\ Goto(r, "done")
  /\ UNCHANGED <<tenancy, idempotency, answer>>

Keys(r) ==
  \/ \E k \in ApiKeys, t \in ApiKeys :
       \/ revokeApiKey(r, k, t) \/ rotateApiKey(r, k, t)
       \/ \E scopes \in AskedScopes : createApiKey(r, k, t, scopes)
  \/ RevokeUpdate(r)
  \/ \E new \in ApiKeys : RotateBatch(r, new)

Creating(r) ==
  \/ \E k \in ApiKeys, b \in Bodies :
       \/ \E i \in IdemKeys \union {NoIdem} : createPayment(r, k, i, b)
       \/ \E i \in IdemKeys : createRefund(r, k, i, b)
  \/ lookupRecord(r) \/ deleteExpired(r) \/ execute(r) \/ storeRecord(r)

Next ==
  \/ \E r \in Requests : Creating(r) \/ Keys(r) \/ Crash(r)
  \/ \E m \in Merchants : SetMerchantStatus(m) \/ (\E i \in IdemKeys : Expire(m, i))

Spec == Init /\ [][Next]_vars
-----------------------------------------------------------------------------
Pcs == {"idle", "done", "lookup", "delete", "execute", "store", "revoke", "rotate"}
RequestRows ==
  [pc: Pcs, merchant: Merchants \union {NoMerchant}, key: ApiKeys \union {NoApiKey},
   idem: IdemKeys \union {NoIdem}, body: Bodies \union {NoIdem},
   stale: Requests \union {NoRecord}, target: ApiKeys \union {NoApiKey},
   made: ApiKeys \union {NoApiKey}]

\* Every row, record, answer and request keeps its type.
TypeOK ==
  /\ merchant \in [Merchants -> {"active", "suspended"}]
  /\ apiKey \in [ApiKeys -> KeyRows \union {NoRow}]
  /\ record \in [Merchants \X IdemKeys -> Requests \union {NoRecord}]
  /\ expired \subseteq Requests /\ effect \subseteq Requests /\ covered \subseteq Requests
  /\ answer \in [Requests -> Answers]
  /\ req \in [Requests -> RequestRows]

\* A replayed response is that of a request of the same merchant, under the same
\* key, with the same body, whose effect did happen; to which of the two
\* routes it went, the record does not say (idempotency.ts:93-97).
ReplayIsOfItsRequest ==
  \A r \in Requests : answer[r] \in Requests =>
    /\ req[answer[r]].merchant = req[r].merchant
    /\ req[answer[r]].idem = req[r].idem
    /\ req[answer[r]].body = req[r].body
    /\ answer[r] \in effect

\* A request that arrives under a key whose record is there, and stays so, does
\* not run the route again: no other request's handling of an expired record
\* takes the live one away (idempotency.ts:112, DELETE by id).
NotRunAgain ==
  \A r \in covered : r \notin effect /\ ~At(r, "execute")

\* Of the requests that rotate a key, one at most is handed a new secret.
OneSecretPerRotation ==
  \A r, s \in Requests :
    /\ answer[r] = "own" /\ answer[s] = "own"
    /\ req[r].made # NoApiKey /\ req[s].made # NoApiKey
    /\ req[r].target = req[s].target
    => r = s

\* An API key is only revoked or replaced by a request of its merchant, and its
\* successors are that merchant's.
KeysStayInTenant ==
  \A k \in ApiKeys : apiKey[k] # NoRow =>
    /\ apiKey[k].from # NoApiKey => apiKey[apiKey[k].from].owner = apiKey[k].owner
    /\ apiKey[k].status = "revoked" =>
         \E r \in Requests : req[r].target = k /\ req[r].merchant = apiKey[k].owner
=============================================================================
