------------------------- MODULE MerchantApi_proofs -------------------------
(***************************************************************************)
(* MerchantApi, proved for any requests, merchants, keys and bodies.       *)
(*                                                                         *)
(* KeysInv adds what a request under way knows of the key it works on: it  *)
(* is a row, of the request's merchant.  It was read some statements ago,  *)
(* and holds because no statement gives a key to another merchant.         *)
(*                                                                         *)
(* ReplayInv adds where a stored answer comes from: a record is that of a  *)
(* request which had its effect under that merchant and key, and a DELETE  *)
(* by id hits only what has expired.                                       *)
(***************************************************************************)
EXTENDS MerchantApi, TLAPS

TargetIsOwn ==
  \A r \in Requests : req[r].pc \in {"revoke", "rotate"} =>
    /\ req[r].target \in ApiKeys /\ apiKey[req[r].target] # NoRow
    /\ req[r].merchant = apiKey[req[r].target].owner

\* A row remembers a row, never one that is gone.
FromIsRow ==
  \A k \in ApiKeys : apiKey[k] # NoRow /\ apiKey[k].from # NoApiKey =>
    apiKey[k].from \in ApiKeys /\ apiKey[apiKey[k].from] # NoRow

\* A request looks up the record of a merchant and a key.
LookingUp ==
  \A r \in Requests : At(r, "lookup") => req[r].merchant \in Merchants /\ req[r].idem \in IdemKeys

\* A request that has not arrived is about no key.
IdleIsBlank == \A r \in Requests : At(r, "idle") => req[r].target = NoApiKey

KeysInv == TypeOK /\ LookingUp /\ KeysStayInTenant /\ TargetIsOwn /\ FromIsRow /\ IdleIsBlank
USE DEF Pcs, RequestRows

LEMMA TypeInit == Init => TypeOK
<1> SUFFICES ASSUME Init PROVE TypeOK
  OBVIOUS
<1> DEFINE OfKey(x) == CHOOSE y \in Yesterday : <<y.merchant, y.idem>> = x
           OfReq(r) == CHOOSE y \in Yesterday : y.req = r
<1>1. \A x : (\E y \in Yesterday : <<y.merchant, y.idem>> = x) => OfKey(x) \in Yesterday
  OBVIOUS
<1>2. \A r : (\E y \in Yesterday : y.req = r) => OfReq(r) \in Yesterday
  OBVIOUS
<1>3. expired \subseteq Requests /\ \A r \in expired : OfReq(r) \in Yesterday
  <2>1. \A y \in Yesterday : y.req \in Requests
    BY YesterdayAssumption
  <2>2. expired = {y.req : y \in Yesterday}
    BY DEF Init
  <2> HIDE DEF OfReq
  <2> QED BY <1>2, <2>1, <2>2
<1>4. record \in [Merchants \X IdemKeys -> Requests \union {NoRecord}]
  BY <1>1, YesterdayAssumption DEF Init
<1>5. \A r \in expired : /\ OfReq(r).merchant \in Merchants /\ OfReq(r).idem \in IdemKeys
                          /\ OfReq(r).body \in Bodies
  BY <1>3, YesterdayAssumption
<1>6. req = [r \in Requests |->
               IF r \in expired
               THEN [Idle EXCEPT !.pc = "done", !.merchant = OfReq(r).merchant,
                                 !.idem = OfReq(r).idem, !.body = OfReq(r).body]
               ELSE Idle]
  BY DEF Init
<1> HIDE DEF OfKey, OfReq
<1>7. \A r \in Requests : req[r] \in RequestRows
  BY <1>3, <1>5, <1>6 DEF Idle
<1> QED BY <1>3, <1>4, <1>6, <1>7, KeysAssumption DEF Init, TypeOK, Answers

\* A request goes on to another statement and keeps what it read.
LEMMA GotoType ==
  ASSUME TypeOK, NEW r \in Requests, NEW s \in Requests \union {NoRecord},
         NEW pc \in Pcs,
         \/ req' = [req EXCEPT ![r].pc = pc]
         \/ req' = [req EXCEPT ![r].pc = pc, ![r].stale = s]
  PROVE  req' \in [Requests -> RequestRows]
  BY DEF TypeOK

\* The owner of an authorised key is a merchant.
LEMMA AuthorisedKey ==
  ASSUME TypeOK, NEW k \in ApiKeys, NEW scope, Authorised(k, scope)
  PROVE  apiKey[k] \in KeyRows /\ apiKey[k].owner \in Merchants
  BY DEF TypeOK, Authorised, NoRow, KeyRows

LEMMA TypeStep == KeysInv /\ [Next]_vars => TypeOK'
<1> SUFFICES ASSUME KeysInv, [Next]_vars PROVE TypeOK'
  OBVIOUS
<1>0. TypeOK
  BY DEF KeysInv
<1> USE <1>0 DEF TypeOK, tenancy, idempotency, Answers, At, Goto, Answer, Finish
<1>1. ASSUME NEW r \in Requests, NEW k \in ApiKeys, NEW b \in Bodies,
             NEW i \in IdemKeys \union {NoIdem}, createPayment(r, k, i, b) PROVE TypeOK'
  <2>1. apiKey[k].owner \in Merchants
    BY <1>1, AuthorisedKey DEF createPayment, requireBearerApiAuth
  <2> QED BY <1>1, <2>1 DEF createPayment, requireBearerApiAuth, Idle
<1>2. ASSUME NEW r \in Requests, lookupRecord(r) PROVE TypeOK'
  <2> DEFINE rec == record[req[r].merchant, req[r].idem]
  <2>1. UNCHANGED <<merchant, apiKey, record, expired, effect, covered>>
    BY <1>2 DEF lookupRecord
  <2>2. CASE Goto(r, "execute") /\ UNCHANGED answer
    BY <2>1, <2>2, GotoType
  <2>3. CASE rec \in expired /\ req' = [req EXCEPT ![r].pc = "delete", ![r].stale = rec] /\ UNCHANGED answer
    <3>1. rec \in Requests
      BY <2>3
    <3> HIDE DEF rec
    <3>2. req' \in [Requests -> RequestRows]
      BY <2>3, <3>1, GotoType
    <3> QED BY <2>1, <2>3, <3>2
  <2>4. ASSUME NEW a \in Answers, Goto(r, "done"), Answer(r, a) PROVE TypeOK'
    <3>1. req' \in [Requests -> RequestRows]
      BY <2>4, GotoType
    <3>2. answer' \in [Requests -> Answers]
      BY <2>4
    <3> QED BY <2>1, <3>1, <3>2
  <2>5. (rec # NoRecord /\ rec \notin expired) => rec \in Requests
    <3>1. req[r].merchant \in Merchants /\ req[r].idem \in IdemKeys
      BY <1>2 DEF lookupRecord, KeysInv, LookingUp
    <3> QED BY <3>1
  <2> QED BY <1>2, <2>2, <2>3, <2>4, <2>5 DEF lookupRecord
<1>3. ASSUME NEW r \in Requests, deleteExpired(r) PROVE TypeOK'
  BY <1>3 DEF deleteExpired
<1>4. ASSUME NEW r \in Requests, execute(r) PROVE TypeOK'
  BY <1>4 DEF execute
<1>5. ASSUME NEW r \in Requests, storeRecord(r) PROVE TypeOK'
  BY <1>5 DEF storeRecord
<1>6. ASSUME NEW r \in Requests, NEW k \in ApiKeys, NEW t \in ApiKeys, revokeApiKey(r, k, t)
      PROVE TypeOK'
  <2>1. apiKey[k].owner \in Merchants
    BY <1>6, AuthorisedKey DEF revokeApiKey, requireBearerApiAuth
  <2> QED BY <1>6, <2>1 DEF revokeApiKey, requireBearerApiAuth, Idle
<1>7. ASSUME NEW r \in Requests, NEW k \in ApiKeys, NEW t \in ApiKeys, rotateApiKey(r, k, t)
      PROVE TypeOK'
  <2>1. apiKey[k].owner \in Merchants
    BY <1>7, AuthorisedKey DEF rotateApiKey, requireBearerApiAuth
  <2> QED BY <1>7, <2>1 DEF rotateApiKey, requireBearerApiAuth, Idle
<1>8. ASSUME NEW r \in Requests, NEW k \in ApiKeys, NEW t \in ApiKeys, NEW scopes \in AskedScopes,
             createApiKey(r, k, t, scopes) PROVE TypeOK'
  <2>1. apiKey[k].owner \in Merchants
    BY <1>8, AuthorisedKey DEF createApiKey, requireBearerApiAuth
  <2>2. Row(apiKey[k].owner, scopes, NoApiKey) \in KeyRows
    BY <2>1, ScopesAssumption DEF Row, KeyRows
  <2> QED BY <1>8, <2>1, <2>2 DEF createApiKey, requireBearerApiAuth, Idle
<1>9. ASSUME NEW r \in Requests, RevokeUpdate(r) PROVE TypeOK'
  <2>1. req[r].target \in ApiKeys /\ apiKey[req[r].target] \in KeyRows
    BY <1>9 DEF RevokeUpdate, KeysInv, TargetIsOwn
  <2>2. [apiKey[req[r].target] EXCEPT !.status = "revoked"] \in KeyRows
    BY <2>1 DEF KeyRows
  <2> QED BY <1>9, <2>1, <2>2 DEF RevokeUpdate
<1>10. ASSUME NEW r \in Requests, NEW new \in ApiKeys, RotateBatch(r, new) PROVE TypeOK'
  <2>1. /\ req[r].target \in ApiKeys /\ apiKey[req[r].target] \in KeyRows
        /\ req[r].merchant \in Merchants
    BY <1>10 DEF RotateBatch, KeysInv, TargetIsOwn, KeyRows
  <2>2. /\ [apiKey[req[r].target] EXCEPT !.status = "revoked"] \in KeyRows
        /\ Row(req[r].merchant, apiKey[req[r].target].scopes, req[r].target) \in KeyRows
        /\ req[r].target # new
    BY <1>10, <2>1 DEF KeyRows, Row, RotateBatch, Unused, KeysInv, TargetIsOwn
  <2>3. apiKey' \in [ApiKeys -> KeyRows \union {NoRow}]
    <3> DEFINE row == Row(req[r].merchant, apiKey[req[r].target].scopes, req[r].target)
               old == [apiKey[req[r].target] EXCEPT !.status = "revoked"]
    <3>1. apiKey' = [apiKey EXCEPT ![new] = row, ![req[r].target] = old]
      BY <1>10, <2>1, <2>2 DEF RotateBatch
    <3>2. row \in KeyRows /\ old \in KeyRows
      BY <2>2
    <3> HIDE DEF row, old
    <3> DEFINE f == [apiKey EXCEPT ![new] = row]
    <3>3. f \in [ApiKeys -> KeyRows \union {NoRow}]
      BY <3>2
    <3>4. apiKey' = [f EXCEPT ![req[r].target] = old]
      BY <3>1
    <3> HIDE DEF f
    <3> QED BY <2>1, <3>2, <3>3, <3>4
  <2>4. req' \in [Requests -> RequestRows]
    <3>1. req' = [req EXCEPT ![r] = [req[r] EXCEPT !.pc = "done", !.made = new]]
      BY <1>10 DEF RotateBatch
    <3>2. req[r] \in RequestRows
      BY <1>0
    <3>3. [req[r] EXCEPT !.pc = "done", !.made = new] \in RequestRows
      BY <3>2
    <3> HIDE DEF RequestRows
    <3> QED BY <3>1, <3>3
  <2>5. answer' \in [Requests -> Answers]
    BY <1>10 DEF RotateBatch
  <2> QED BY <1>10, <2>3, <2>4, <2>5 DEF RotateBatch
<1>11. ASSUME NEW r \in Requests, Crash(r) PROVE TypeOK'
  BY <1>11, GotoType DEF Crash
<1>12. ASSUME NEW m \in Merchants, SetMerchantStatus(m) PROVE TypeOK'
  BY <1>12 DEF SetMerchantStatus
<1>13. ASSUME NEW m \in Merchants, NEW i \in IdemKeys, Expire(m, i) PROVE TypeOK'
  BY <1>13 DEF Expire, Live
<1>14. CASE UNCHANGED vars
  BY <1>14 DEF vars
<1> QED BY <1>1, <1>2, <1>3, <1>4, <1>5, <1>6, <1>7, <1>8, <1>9, <1>10, <1>11, <1>12, <1>13, <1>14
  DEF Next, Creating, Keys, createRefund

-----------------------------------------------------------------------------
(* A step seen from the keys and the requests                              *)

\* Rows keep their owner and their origin.
RowsKept ==
  \A k \in ApiKeys : apiKey[k] # NoRow =>
    apiKey'[k] # NoRow /\ apiKey'[k].owner = apiKey[k].owner /\ apiKey'[k].from = apiKey[k].from

\* A request under way keeps its merchant and its key.
RequestsKept ==
  \A r \in Requests :
    /\ req[r].target # NoApiKey =>
         req'[r].target = req[r].target /\ req'[r].merchant = req[r].merchant
    /\ At(r, "idle")' => req'[r] = req[r]

\* A request starts on a row of its merchant.
StartsOnOwn ==
  \A r \in Requests :
    /\ req'[r].pc \in {"revoke", "rotate"} =>
         \/ req[r].pc = req'[r].pc
         \/ /\ req'[r].target \in ApiKeys /\ apiKey[req'[r].target] # NoRow
            /\ req'[r].merchant = apiKey[req'[r].target].owner
    /\ req'[r].pc = "lookup" => req'[r].merchant \in Merchants /\ req'[r].idem \in IdemKeys

\* A row is new, with a row of the same merchant as its origin, or revoked by
\* a request of its merchant.
RowsChange ==
  \A k \in ApiKeys : apiKey'[k] # apiKey[k] =>
    \/ /\ apiKey[k] = NoRow /\ apiKey'[k].status = "active"
       /\ \/ apiKey'[k].from = NoApiKey
          \/ /\ apiKey'[k].from \in ApiKeys /\ apiKey[apiKey'[k].from] # NoRow
             /\ apiKey[apiKey'[k].from].owner = apiKey'[k].owner
    \/ /\ apiKey[k] # NoRow
       /\ \E r \in Requests : req'[r].target = k /\ req'[r].merchant = apiKey[k].owner

LEMMA KeysFrame ==
  ASSUME KeysInv, RowsKept, RequestsKept, StartsOnOwn, RowsChange
  PROVE  LookingUp' /\ KeysStayInTenant' /\ TargetIsOwn' /\ FromIsRow' /\ IdleIsBlank'
<1> USE NothingAssumption DEF KeysInv
<1>1. LookingUp'
  BY DEF StartsOnOwn, LookingUp, At
<1>2. IdleIsBlank'
  BY DEF RequestsKept, IdleIsBlank, At
<1>3. TargetIsOwn'
  <2> SUFFICES ASSUME NEW r \in Requests, req'[r].pc \in {"revoke", "rotate"}
               PROVE  /\ req'[r].target \in ApiKeys /\ apiKey'[req'[r].target] # NoRow
                      /\ req'[r].merchant = apiKey'[req'[r].target].owner
    BY DEF TargetIsOwn
  <2>1. /\ req'[r].target \in ApiKeys /\ apiKey[req'[r].target] # NoRow
        /\ req'[r].merchant = apiKey[req'[r].target].owner
    BY DEF StartsOnOwn, RequestsKept, TargetIsOwn
  <2> QED BY <2>1 DEF RowsKept
<1>4. FromIsRow'
  <2> SUFFICES ASSUME NEW k \in ApiKeys, apiKey'[k] # NoRow, apiKey'[k].from # NoApiKey
               PROVE  apiKey'[k].from \in ApiKeys /\ apiKey'[apiKey'[k].from] # NoRow
    BY DEF FromIsRow
  <2>1. apiKey'[k].from \in ApiKeys /\ apiKey[apiKey'[k].from] # NoRow
    BY DEF RowsChange, RowsKept, FromIsRow
  <2> QED BY <2>1 DEF RowsKept
<1>5. KeysStayInTenant'
  <2> SUFFICES ASSUME NEW k \in ApiKeys, apiKey'[k] # NoRow
               PROVE  /\ apiKey'[k].from # NoApiKey => apiKey'[apiKey'[k].from].owner = apiKey'[k].owner
                      /\ apiKey'[k].status = "revoked" =>
                           \E r \in Requests : req'[r].target = k /\ req'[r].merchant = apiKey'[k].owner
    BY DEF KeysStayInTenant
  <2>1. ASSUME apiKey'[k].from # NoApiKey
        PROVE  apiKey'[apiKey'[k].from].owner = apiKey'[k].owner
    <3>1. /\ apiKey'[k].from \in ApiKeys /\ apiKey[apiKey'[k].from] # NoRow
          /\ apiKey[apiKey'[k].from].owner = apiKey'[k].owner
      BY <2>1 DEF RowsChange, RowsKept, FromIsRow, KeysStayInTenant
    <3> QED BY <3>1 DEF RowsKept
  <2>2. ASSUME apiKey'[k].status = "revoked"
        PROVE  \E r \in Requests : req'[r].target = k /\ req'[r].merchant = apiKey'[k].owner
    <3>1. CASE apiKey'[k] = apiKey[k]
      <4>1. PICK r \in Requests : req[r].target = k /\ req[r].merchant = apiKey[k].owner
        BY <2>2, <3>1 DEF KeysStayInTenant
      <4> QED BY <3>1, <4>1 DEF RequestsKept
    <3>2. CASE apiKey'[k] # apiKey[k]
      BY <2>2, <3>2 DEF RowsChange, RowsKept
    <3> QED BY <3>1, <3>2
  <2> QED BY <2>1, <2>2
<1> QED BY <1>1, <1>2, <1>3, <1>4, <1>5

\* The steps that touch no key: a request moves on, or nothing of it changes.
LEMMA OtherSteps ==
  ASSUME KeysInv, UNCHANGED apiKey,
         \A r \in Requests :
           /\ req'[r].target = req[r].target /\ req'[r].merchant = req[r].merchant
           /\ req'[r].pc \in {"done", "delete", "execute", "store"} \/ req'[r] = req[r]
  PROVE  LookingUp' /\ KeysStayInTenant' /\ TargetIsOwn' /\ FromIsRow' /\ IdleIsBlank'
<1>1. RowsKept /\ RowsChange
  BY DEF RowsKept, RowsChange
<1>2. RequestsKept
  BY DEF RequestsKept, At
<1>3. StartsOnOwn
  BY DEF StartsOnOwn, KeysInv, LookingUp, At
<1> QED BY <1>1, <1>2, <1>3, KeysFrame

LEMMA KeysInit == Init => KeysInv
<1> SUFFICES ASSUME Init PROVE KeysInv
  OBVIOUS
<1>1. TypeOK
  BY TypeInit
<1>2. \A r \in Requests : req[r].pc \in {"idle", "done"} /\ req[r].target = NoApiKey
  BY DEF Init, Idle
<1>3. \A k \in ApiKeys : apiKey[k] # NoRow => apiKey[k].from = NoApiKey /\ apiKey[k].status = "active"
  BY KeysAssumption DEF Init
<1> QED BY <1>1, <1>2, <1>3
  DEF KeysInv, LookingUp, KeysStayInTenant, TargetIsOwn, FromIsRow, IdleIsBlank, At

\* A request that starts on a key, or on none, while the keys stay.
LEMMA Starting ==
  ASSUME KeysInv, UNCHANGED apiKey, NEW r \in Requests, NEW row,
         At(r, "idle"), req' = [req EXCEPT ![r] = row],
         row.pc # "idle",
         row.pc \in {"revoke", "rotate"} =>
           /\ row.target \in ApiKeys /\ apiKey[row.target] # NoRow
           /\ row.merchant = apiKey[row.target].owner,
         row.pc = "lookup" => row.merchant \in Merchants /\ row.idem \in IdemKeys
  PROVE  LookingUp' /\ KeysStayInTenant' /\ TargetIsOwn' /\ FromIsRow' /\ IdleIsBlank'
<1>1. RowsKept /\ RowsChange
  BY DEF RowsKept, RowsChange
<1>2. \A s \in Requests : req'[s] = IF s = r THEN row ELSE req[s]
  BY DEF KeysInv, TypeOK
<1>3. RequestsKept
  BY <1>2 DEF RequestsKept, At, KeysInv, IdleIsBlank
<1>4. StartsOnOwn
  BY <1>2 DEF StartsOnOwn, KeysInv, LookingUp, At
<1> QED BY <1>1, <1>3, <1>4, KeysFrame

LEMMA CreatedKey ==
  ASSUME KeysInv, NEW r \in Requests, NEW k \in ApiKeys, NEW t \in ApiKeys, NEW scopes \in AskedScopes,
         createApiKey(r, k, t, scopes)
  PROVE  LookingUp' /\ KeysStayInTenant' /\ TargetIsOwn' /\ FromIsRow' /\ IdleIsBlank'
<1>1. /\ At(r, "idle") /\ apiKey[t] = NoRow
      /\ req' = [req EXCEPT ![r] = [[Idle EXCEPT !.pc = "done"] EXCEPT !.merchant = apiKey[k].owner, !.key = k]]
  BY DEF createApiKey, requireBearerApiAuth, Unused
<1>2. \A s \in Requests : s # r => req'[s] = req[s]
  BY <1>1 DEF KeysInv, TypeOK
<1>3. req'[r].pc = "done" /\ req[r].target = NoApiKey
  BY <1>1 DEF KeysInv, TypeOK, Idle, IdleIsBlank
<1>4. /\ \A x \in ApiKeys : x # t => apiKey'[x] = apiKey[x]
      /\ apiKey'[t].status = "active" /\ apiKey'[t].from = NoApiKey
  BY DEF createApiKey, KeysInv, TypeOK, Row
<1>5. RowsKept /\ RowsChange
  BY <1>1, <1>4 DEF RowsKept, RowsChange
<1>6. RequestsKept
  BY <1>2, <1>3 DEF RequestsKept, At
<1>7. StartsOnOwn
  BY <1>2, <1>3 DEF StartsOnOwn, KeysInv, LookingUp, At
<1> QED BY <1>5, <1>6, <1>7, KeysFrame

LEMMA RevokedKey ==
  ASSUME KeysInv, NEW r \in Requests, RevokeUpdate(r)
  PROVE  LookingUp' /\ KeysStayInTenant' /\ TargetIsOwn' /\ FromIsRow' /\ IdleIsBlank'
<1> DEFINE t == req[r].target
<1>1. t \in ApiKeys /\ apiKey[t] # NoRow /\ req[r].merchant = apiKey[t].owner
  BY DEF RevokeUpdate, KeysInv, TargetIsOwn, At
<1>2. apiKey[t] \in KeyRows
  BY <1>1 DEF KeysInv, TypeOK
<1>3. /\ \A x \in ApiKeys : x # t => apiKey'[x] = apiKey[x]
      /\ apiKey'[t] = [apiKey[t] EXCEPT !.status = "revoked"]
  BY <1>1 DEF RevokeUpdate, KeysInv, TypeOK
<1>4. /\ apiKey'[t] # NoRow
      /\ apiKey'[t].owner = apiKey[t].owner /\ apiKey'[t].from = apiKey[t].from
  BY <1>2, <1>3 DEF KeyRows, NoRow
<1>5. \A s \in Requests : /\ req'[s].target = req[s].target /\ req'[s].merchant = req[s].merchant
                           /\ (req'[s].pc = "done" \/ req'[s] = req[s])
  BY DEF RevokeUpdate, Finish, Goto, KeysInv, TypeOK
<1>6. RowsKept /\ RowsChange
  BY <1>1, <1>3, <1>4, <1>5 DEF RowsKept, RowsChange
<1>7. RequestsKept
  BY <1>5 DEF RequestsKept, At
<1>8. StartsOnOwn
  BY <1>5 DEF StartsOnOwn, KeysInv, LookingUp, At
<1> QED BY <1>6, <1>7, <1>8, KeysFrame

LEMMA RotatedKey ==
  ASSUME KeysInv, NEW r \in Requests, NEW new \in ApiKeys, RotateBatch(r, new)
  PROVE  LookingUp' /\ KeysStayInTenant' /\ TargetIsOwn' /\ FromIsRow' /\ IdleIsBlank'
<1> DEFINE t == req[r].target
<1>1. t \in ApiKeys /\ apiKey[t] # NoRow /\ req[r].merchant = apiKey[t].owner
  BY DEF RotateBatch, KeysInv, TargetIsOwn, At
<1>2. apiKey[t] \in KeyRows /\ apiKey[new] = NoRow /\ t # new
  BY <1>1 DEF KeysInv, TypeOK, RotateBatch, Unused
<1> DEFINE row == Row(req[r].merchant, apiKey[t].scopes, t)
           old == [apiKey[t] EXCEPT !.status = "revoked"]
<1>3. apiKey' = [apiKey EXCEPT ![new] = row, ![t] = old]
  BY <1>1, <1>2 DEF RotateBatch, KeysInv, TypeOK
<1>4. /\ old # NoRow /\ old.owner = apiKey[t].owner /\ old.from = apiKey[t].from
      /\ row.status = "active" /\ row.from = t /\ row.owner = apiKey[t].owner
  BY <1>1, <1>2 DEF KeyRows, NoRow, Row
<1> HIDE DEF row, old
<1>5. /\ \A x \in ApiKeys : x # t /\ x # new => apiKey'[x] = apiKey[x]
      /\ apiKey'[t] = old /\ apiKey'[new] = row
  BY <1>1, <1>2, <1>3 DEF KeysInv, TypeOK
<1>6. req' = [req EXCEPT ![r] = [req[r] EXCEPT !.pc = "done", !.made = new]]
  BY DEF RotateBatch
<1>7. \A s \in Requests : /\ req'[s].target = req[s].target /\ req'[s].merchant = req[s].merchant
                           /\ (req'[s].pc = "done" \/ req'[s] = req[s])
  BY <1>6 DEF KeysInv, TypeOK
<1>8. RowsKept
  BY <1>2, <1>4, <1>5 DEF RowsKept
<1>9. RowsChange
  BY <1>1, <1>2, <1>4, <1>5, <1>7 DEF RowsChange
<1>10. RequestsKept
  BY <1>7 DEF RequestsKept, At
<1>11. StartsOnOwn
  BY <1>7 DEF StartsOnOwn, KeysInv, LookingUp, At
<1> QED BY <1>8, <1>9, <1>10, <1>11, KeysFrame

LEMMA KeysStep == KeysInv /\ [Next]_vars => KeysInv'
<1> SUFFICES ASSUME KeysInv, [Next]_vars PROVE KeysInv'
  OBVIOUS
<1> DEFINE Kept == LookingUp /\ KeysStayInTenant /\ TargetIsOwn /\ FromIsRow /\ IdleIsBlank
<1>0. TypeOK /\ TypeOK'
  BY TypeStep DEF KeysInv
<1>1. ASSUME NEW r \in Requests, NEW k \in ApiKeys, NEW b \in Bodies,
             NEW i \in IdemKeys \union {NoIdem}, createPayment(r, k, i, b) PROVE Kept'
  <2>1. apiKey[k].owner \in Merchants
    BY <1>0, <1>1, AuthorisedKey DEF createPayment, requireBearerApiAuth
  <2> DEFINE row == [[Idle EXCEPT !.pc = IF i = NoIdem THEN "execute" ELSE "lookup",
                                  !.idem = i, !.body = b]
                       EXCEPT !.merchant = apiKey[k].owner, !.key = k]
  <2>2. At(r, "idle") /\ UNCHANGED apiKey /\ req' = [req EXCEPT ![r] = row]
    BY <1>1 DEF createPayment, requireBearerApiAuth, tenancy
  <2>3. /\ row.pc \in {"execute", "lookup"}
        /\ row.pc = "lookup" => row.merchant \in Merchants /\ row.idem \in IdemKeys
    BY <2>1 DEF Idle
  <2> HIDE DEF row
  <2> QED BY <2>2, <2>3, Starting
<1>2. ASSUME NEW r \in Requests,
             lookupRecord(r) \/ deleteExpired(r) \/ execute(r) \/ storeRecord(r) \/ Crash(r)
      PROVE  Kept'
  <2>1. UNCHANGED apiKey
    BY <1>2 DEF lookupRecord, deleteExpired, execute, storeRecord, Crash, tenancy
  <2>2. \A s \in Requests :
          /\ req'[s].target = req[s].target /\ req'[s].merchant = req[s].merchant
          /\ req'[s].pc \in {"done", "delete", "execute", "store"} \/ req'[s] = req[s]
    <3>1. CASE lookupRecord(r)
      <4> DEFINE rec == record[req[r].merchant, req[r].idem]
      <4>1. \/ req' = [req EXCEPT ![r].pc = "execute"]
            \/ req' = [req EXCEPT ![r].pc = "done"]
            \/ req' = [req EXCEPT ![r].pc = "delete", ![r].stale = rec]
        BY <3>1 DEF lookupRecord, Goto, Finish
      <4> HIDE DEF rec
      <4>2. CASE req' = [req EXCEPT ![r].pc = "execute"] \/ req' = [req EXCEPT ![r].pc = "done"]
        BY <1>0, <4>2 DEF TypeOK
      <4>3. CASE req' = [req EXCEPT ![r].pc = "delete", ![r].stale = rec]
        <5>1. req' = [req EXCEPT ![r] = [req[r] EXCEPT !.pc = "delete", !.stale = rec]]
          BY <4>3
        <5>2. req \in [Requests -> RequestRows]
          BY <1>0 DEF TypeOK
        <5> DEFINE q == [req[r] EXCEPT !.pc = "delete", !.stale = rec]
        <5>3. q.pc = "delete" /\ q.target = req[r].target /\ q.merchant = req[r].merchant
          BY <5>2
        <5>4. req' = [req EXCEPT ![r] = q]
          BY <5>1
        <5> HIDE DEF q
        <5> QED BY <5>2, <5>3, <5>4
      <4> QED BY <4>1, <4>2, <4>3
    <3>2. CASE deleteExpired(r) \/ storeRecord(r) \/ Crash(r)
      BY <1>0, <3>2 DEF deleteExpired, storeRecord, Crash, Goto, TypeOK
    <3>3. CASE execute(r)
      BY <1>0, <3>3 DEF execute, Finish, Goto, TypeOK
    <3> QED BY <1>2, <3>1, <3>2, <3>3
  <2> QED BY <2>1, <2>2, OtherSteps
<1>3. ASSUME NEW r \in Requests, NEW k \in ApiKeys, NEW t \in ApiKeys,
             revokeApiKey(r, k, t) \/ rotateApiKey(r, k, t) PROVE Kept'
  <2>1. PICK pc \in {"revoke", "rotate"} :
          requireBearerApiAuth(r, k, "admin", [Idle EXCEPT !.pc = pc, !.target = t])
    BY <1>3 DEF revokeApiKey, rotateApiKey
  <2> DEFINE row == [[Idle EXCEPT !.pc = pc, !.target = t]
                       EXCEPT !.merchant = apiKey[k].owner, !.key = k]
  <2>2. At(r, "idle") /\ req' = [req EXCEPT ![r] = row]
    BY <2>1 DEF requireBearerApiAuth
  <2>3. UNCHANGED apiKey /\ apiKey[t].status = "active" /\ apiKey[t].owner = apiKey[k].owner
    BY <1>3 DEF revokeApiKey, rotateApiKey, tenancy
  <2>4. apiKey[t] # NoRow
    BY <2>3 DEF NoRow
  <2>5. row.pc = pc /\ row.target = t /\ row.merchant = apiKey[k].owner
    BY DEF Idle
  <2> HIDE DEF row
  <2> QED BY <2>2, <2>3, <2>4, <2>5, Starting
<1>4. ASSUME NEW r \in Requests, NEW k \in ApiKeys, NEW t \in ApiKeys, NEW scopes \in AskedScopes,
             createApiKey(r, k, t, scopes) PROVE Kept'
  BY <1>4, CreatedKey
<1>5. ASSUME NEW r \in Requests, RevokeUpdate(r) PROVE Kept'
  BY <1>5, RevokedKey
<1>6. ASSUME NEW r \in Requests, NEW new \in ApiKeys, RotateBatch(r, new) PROVE Kept'
  BY <1>6, RotatedKey
<1>7. ASSUME UNCHANGED <<apiKey, req>> PROVE Kept'
  BY <1>7, OtherSteps
<1>8. ASSUME NEW m \in Merchants, SetMerchantStatus(m) \/ \E i \in IdemKeys : Expire(m, i)
      PROVE  UNCHANGED <<apiKey, req>>
  BY <1>8 DEF SetMerchantStatus, Expire, tenancy
<1>9. UNCHANGED vars => UNCHANGED <<apiKey, req>>
  BY DEF vars
<1>10. Kept'
  <2> HIDE DEF Kept
  <2> QED BY <1>1, <1>2, <1>3, <1>4, <1>5, <1>6, <1>7, <1>8, <1>9
      DEF Next, Creating, Keys, createRefund
<1> QED BY <1>0, <1>10 DEF KeysInv

LEMMA KeysInvariant == Spec => []KeysInv
BY KeysInit, KeysStep, PTL DEF Spec

\* Every row, record, answer and request keeps its type, however the requests
\* interleave and wherever the Worker dies (controllers/api.ts).
THEOREM TypeCorrect == Spec => []TypeOK
<1>1. KeysInv => TypeOK
  BY DEF KeysInv
<1> QED BY <1>1, KeysInvariant, PTL

\* An API key is only revoked or replaced by a request of its merchant, and its
\* successors are that merchant's (controllers/api.ts, PATCH, DELETE and rotate
\* of /api-keys/:id): the owner is checked when the row is read and not again
\* by the statement that writes it.
THEOREM KeysInTenant == Spec => []KeysStayInTenant
<1>1. KeysInv => KeysStayInTenant
  BY DEF KeysInv
<1> QED BY <1>1, KeysInvariant, PTL
-----------------------------------------------------------------------------
(* One secret per rotation                                                 *)

\* Whoever was handed a new secret is done, and the key it replaced is
\* revoked: for good, since nothing makes a key active again.
Handed ==
  \A r \in Requests : req[r].made # NoApiKey =>
    /\ req[r].pc = "done"
    /\ answer[r] = "own" =>
         req[r].target \in ApiKeys /\ apiKey[req[r].target].status = "revoked"

SecretInv == KeysInv /\ Handed /\ OneSecretPerRotation

\* A step that hands out no secret.
LEMMA NothingHanded ==
  ASSUME Handed, OneSecretPerRotation,
         \A k \in ApiKeys : apiKey[k].status = "revoked" => apiKey'[k].status = "revoked",
         \A r \in Requests :
           /\ req[r].made # NoApiKey => req'[r] = req[r] /\ answer'[r] = answer[r]
           /\ req[r].made = NoApiKey => req'[r].made = NoApiKey
  PROVE  Handed' /\ OneSecretPerRotation'
<1>1. Handed'
  BY DEF Handed
<1>2. OneSecretPerRotation'
  BY DEF OneSecretPerRotation
<1> QED BY <1>1, <1>2

\* One request moves, to a row that made no key.
LEMMA OneMoves ==
  ASSUME SecretInv, NEW r \in Requests, NEW row,
         \A k \in ApiKeys : apiKey[k].status = "revoked" => apiKey'[k].status = "revoked",
         req[r].pc # "done", row.made = NoApiKey,
         req' = [req EXCEPT ![r] = row],
         UNCHANGED answer \/ \E a : answer' = [answer EXCEPT ![r] = a]
  PROVE  Handed' /\ OneSecretPerRotation'
<1>1. req[r].made = NoApiKey
  BY DEF SecretInv, Handed
<1>2. \A s \in Requests : req'[s] = IF s = r THEN row ELSE req[s]
  BY DEF SecretInv, KeysInv, TypeOK
<1>3. \A s \in Requests : s # r => answer'[s] = answer[s]
  BY DEF SecretInv, KeysInv, TypeOK
<1> QED BY <1>1, <1>2, <1>3, NothingHanded DEF SecretInv

\* The loser of two rotations finds the key revoked and hands out nothing.
LEMMA Rotation ==
  ASSUME SecretInv, NEW r \in Requests, NEW new \in ApiKeys, RotateBatch(r, new)
  PROVE  Handed' /\ OneSecretPerRotation'
<1> DEFINE t == req[r].target
<1>1. /\ t \in ApiKeys /\ apiKey[t] \in KeyRows /\ apiKey[new] = NoRow /\ t # new
      /\ apiKey[new].status # "revoked"
  BY DEF RotateBatch, SecretInv, KeysInv, TypeOK, TargetIsOwn, At, Unused, NoRow
<1>2. /\ apiKey'[t].status = "revoked"
      /\ \A k \in ApiKeys : apiKey[k].status = "revoked" => apiKey'[k].status = "revoked"
  <2> DEFINE row == Row(req[r].merchant, apiKey[t].scopes, t)
             old == [apiKey[t] EXCEPT !.status = "revoked"]
  <2>1. apiKey' = [apiKey EXCEPT ![new] = row, ![t] = old]
    BY <1>1 DEF RotateBatch, SecretInv, KeysInv, TypeOK
  <2>2. old.status = "revoked"
    BY <1>1 DEF KeyRows
  <2> HIDE DEF row, old
  <2> QED BY <1>1, <2>1, <2>2 DEF SecretInv, KeysInv, TypeOK
<1>3. /\ req' = [req EXCEPT ![r] = [req[r] EXCEPT !.pc = "done", !.made = new]]
      /\ answer' = [answer EXCEPT ![r] = IF apiKey[t].status = "active" THEN "own" ELSE "refused"]
  BY DEF RotateBatch, Answer
<1>4. /\ \A s \in Requests : s # r => req'[s] = req[s] /\ answer'[s] = answer[s]
      /\ req'[r].pc = "done" /\ req'[r].target = t
      /\ answer'[r] = "own" => apiKey[t].status = "active"
  BY <1>3 DEF SecretInv, KeysInv, TypeOK
<1>5. Handed'
  BY <1>1, <1>2, <1>4 DEF SecretInv, Handed
<1>6. OneSecretPerRotation'
  <2> SUFFICES ASSUME NEW p \in Requests, NEW s \in Requests,
                      answer'[p] = "own", answer'[s] = "own",
                      req'[p].made # NoApiKey, req'[s].made # NoApiKey,
                      req'[p].target = req'[s].target
               PROVE  p = s
    BY DEF OneSecretPerRotation
  <2>1. CASE p # r /\ s # r
    BY <1>4, <2>1 DEF SecretInv, OneSecretPerRotation
  <2>2. ASSUME NEW q \in Requests, q # r, answer'[q] = "own", req'[q].made # NoApiKey,
               req'[q].target = t, answer'[r] = "own" PROVE FALSE
    BY <1>4, <2>2 DEF SecretInv, Handed
  <2> QED BY <1>4, <2>1, <2>2
<1> QED BY <1>5, <1>6

LEMMA SecretStep == SecretInv /\ [Next]_vars => SecretInv'
<1> SUFFICES ASSUME SecretInv, [Next]_vars PROVE SecretInv'
  OBVIOUS
<1> DEFINE Kept == Handed /\ OneSecretPerRotation
           RevokedKept == \A k \in ApiKeys : apiKey[k].status = "revoked" => apiKey'[k].status = "revoked"
<1>0. TypeOK /\ KeysInv'
  BY KeysStep DEF SecretInv, KeysInv
<1>1. ASSUME NEW r \in Requests, NEW k \in ApiKeys, NEW scope, NEW next,
             next.made = NoApiKey, requireBearerApiAuth(r, k, scope, next),
             RevokedKept, UNCHANGED answer \/ Answer(r, "own") PROVE Kept'
  <2>1. req' = [req EXCEPT ![r] = [next EXCEPT !.merchant = apiKey[k].owner, !.key = k]]
    BY <1>1 DEF requireBearerApiAuth
  <2>2. req[r].pc # "done" /\ [next EXCEPT !.merchant = apiKey[k].owner, !.key = k].made = NoApiKey
    BY <1>1 DEF requireBearerApiAuth, At
  <2> QED BY <1>1, <2>1, <2>2, OneMoves DEF Answer
<1>2. ASSUME NEW r \in Requests, NEW k \in ApiKeys, NEW b \in Bodies,
             NEW i \in IdemKeys \union {NoIdem}, createPayment(r, k, i, b) PROVE Kept'
  BY <1>1, <1>2 DEF createPayment, tenancy, Idle
<1>3. ASSUME NEW r \in Requests, NEW k \in ApiKeys, NEW t \in ApiKeys,
             revokeApiKey(r, k, t) \/ rotateApiKey(r, k, t) PROVE Kept'
  BY <1>1, <1>3 DEF revokeApiKey, rotateApiKey, tenancy, Idle
<1>4. ASSUME NEW r \in Requests, NEW k \in ApiKeys, NEW t \in ApiKeys, NEW scopes \in AskedScopes,
             createApiKey(r, k, t, scopes) PROVE Kept'
  <2>1. RevokedKept
    BY <1>0, <1>4 DEF createApiKey, Unused, NoRow, TypeOK
  <2>2. [Idle EXCEPT !.pc = "done"].made = NoApiKey
    BY DEF Idle
  <2> QED BY <1>1, <1>4, <2>1, <2>2 DEF createApiKey
<1>5. ASSUME NEW r \in Requests, RevokedKept, req[r].pc # "done",
             \/ \E pc : Goto(r, pc) /\ (UNCHANGED answer \/ \E a : Answer(r, a))
             \/ \E s : req' = [req EXCEPT ![r].pc = "delete", ![r].stale = s] /\ UNCHANGED answer
      PROVE  Kept'
  <2>1. req[r] \in RequestRows /\ req[r].made = NoApiKey
    BY <1>0, <1>5 DEF TypeOK, SecretInv, Handed
  <2>2. CASE \E pc : Goto(r, pc) /\ (UNCHANGED answer \/ \E a : Answer(r, a))
    <3>1. PICK pc : Goto(r, pc) /\ (UNCHANGED answer \/ \E a : Answer(r, a))
      BY <2>2
    <3> DEFINE row == [req[r] EXCEPT !.pc = pc]
    <3>2. req' = [req EXCEPT ![r] = row] /\ row.made = NoApiKey
      BY <2>1, <3>1 DEF Goto
    <3> HIDE DEF row
    <3> QED BY <1>5, <3>1, <3>2, OneMoves DEF Answer
  <2>3. CASE \E s : req' = [req EXCEPT ![r].pc = "delete", ![r].stale = s] /\ UNCHANGED answer
    <3>1. PICK s : req' = [req EXCEPT ![r].pc = "delete", ![r].stale = s] /\ UNCHANGED answer
      BY <2>3
    <3> DEFINE row == [req[r] EXCEPT !.pc = "delete", !.stale = s]
    <3>2. req' = [req EXCEPT ![r] = row] /\ row.made = NoApiKey
      BY <2>1, <3>1
    <3> HIDE DEF row
    <3> QED BY <1>5, <3>1, <3>2, OneMoves
  <2> QED BY <1>5, <2>2, <2>3
<1>6. ASSUME NEW r \in Requests,
             lookupRecord(r) \/ deleteExpired(r) \/ execute(r) \/ storeRecord(r) \/ Crash(r)
      PROVE  Kept'
  <2>1. RevokedKept /\ req[r].pc # "done"
    BY <1>6 DEF lookupRecord, deleteExpired, execute, storeRecord, Crash, tenancy, At
  <2>2. CASE lookupRecord(r) \/ execute(r)
    BY <1>5, <2>1, <2>2 DEF lookupRecord, execute, Finish
  <2>3. CASE deleteExpired(r) \/ storeRecord(r) \/ Crash(r)
    BY <1>5, <2>1, <2>3 DEF deleteExpired, storeRecord, Crash
  <2> QED BY <1>6, <2>2, <2>3
<1>7. ASSUME NEW r \in Requests, RevokeUpdate(r) PROVE Kept'
  <2>1. req[r].target \in ApiKeys /\ apiKey[req[r].target] \in KeyRows
    BY <1>0, <1>7 DEF RevokeUpdate, SecretInv, KeysInv, TargetIsOwn, TypeOK, At
  <2>2. RevokedKept
    BY <1>0, <1>7, <2>1 DEF RevokeUpdate, TypeOK, KeyRows
  <2>3. req[r].pc # "done"
    BY <1>7 DEF RevokeUpdate, At
  <2> QED BY <1>5, <1>7, <2>2, <2>3 DEF RevokeUpdate, Finish
<1>8. ASSUME NEW r \in Requests, NEW new \in ApiKeys, RotateBatch(r, new) PROVE Kept'
  BY <1>8, Rotation
<1>9. ASSUME UNCHANGED <<apiKey, req, answer>> PROVE Kept'
  BY <1>9, NothingHanded DEF SecretInv
<1>10. ASSUME NEW m \in Merchants, SetMerchantStatus(m) \/ \E i \in IdemKeys : Expire(m, i)
       PROVE  UNCHANGED <<apiKey, req, answer>>
  BY <1>10 DEF SetMerchantStatus, Expire, tenancy
<1>11. UNCHANGED vars => UNCHANGED <<apiKey, req, answer>>
  BY DEF vars
<1>12. Kept'
  <2> HIDE DEF Kept
  <2> QED BY <1>2, <1>3, <1>4, <1>6, <1>7, <1>8, <1>9, <1>10, <1>11
      DEF Next, Creating, Keys, createRefund
<1> QED BY <1>0, <1>12 DEF SecretInv

LEMMA SecretInit == Init => SecretInv
<1> SUFFICES ASSUME Init PROVE Handed /\ OneSecretPerRotation
  BY KeysInit DEF SecretInv
<1>1. \A r \in Requests : req[r].made = NoApiKey
  BY DEF Init, Idle
<1> QED BY <1>1 DEF Handed, OneSecretPerRotation

\* Of the requests that rotate a key, one at most is handed a new secret
\* (controllers/api.ts, POST /api-keys/:id/rotate), though each reads the key
\* and writes it in separate statements.
THEOREM OneSecret == Spec => []OneSecretPerRotation
<1>1. SecretInv => OneSecretPerRotation
  BY DEF SecretInv
<1> QED BY <1>1, SecretInit, SecretStep, PTL DEF Spec
-----------------------------------------------------------------------------
(* Replay                                                                  *)

\* A record is that of a request which had its effect, under that merchant
\* and that key.
RecordIsOfItsKey ==
  \A m \in Merchants, i \in IdemKeys :
    record[<<m, i>>] # NoRecord =>
      /\ ~At(record[<<m, i>>], "idle") /\ record[<<m, i>>] \in effect
      /\ req[record[<<m, i>>]].merchant = m /\ req[record[<<m, i>>]].idem = i

\* What a request goes on to delete has expired, and nothing expired lives
\* again: the DELETE by id cannot hit the record that took its place.
StaleIsExpired == \A r \in Requests : At(r, "delete") => req[r].stale \in expired

\* A request has its effect when it executes, and only then.
EffectIsLate ==
  /\ \A r \in effect : req[r].pc \in {"store", "done"}
  /\ \A r \in Requests : At(r, "store") => r \in effect

AnsweredIsDone ==
  \A r \in Requests : answer[r] \in Requests => At(r, "done") /\ ~At(answer[r], "idle")

\* A covered request looks the record up or is done, and the record is there.
CoveredIsLive ==
  \A r \in covered :
    /\ req[r].pc \in {"lookup", "done"} /\ r \notin effect
    /\ req[r].merchant \in Merchants /\ req[r].idem \in IdemKeys
    /\ record[<<req[r].merchant, req[r].idem>>] \notin {NoRecord} \union expired

Replays == RecordIsOfItsKey /\ StaleIsExpired /\ EffectIsLate /\ AnsweredIsDone
           /\ ReplayIsOfItsRequest /\ CoveredIsLive
ReplayInv == KeysInv /\ Replays

\* A request that has arrived keeps its merchant, its key and its body.
IdentityKept ==
  \A r \in Requests : ~At(r, "idle") =>
    /\ req'[r].pc # "idle" /\ req'[r].merchant = req[r].merchant
    /\ req'[r].idem = req[r].idem /\ req'[r].body = req[r].body

\* A step seen from the records and the answers.
LEMMA ReplayFrame ==
  ASSUME ReplayInv, IdentityKept, effect \subseteq effect', expired \subseteq expired',
         \A r \in Requests : At(r, "done") => req'[r].pc = "done",
         \A r \in effect' : req'[r].pc \in {"store", "done"},
         \A r \in Requests : req'[r].pc = "store" => r \in effect',
         \A r \in Requests : req'[r].pc = "delete" => req'[r].stale \in expired',
         \A m \in Merchants, i \in IdemKeys :
           \/ record'[<<m, i>>] \in {NoRecord, record[<<m, i>>]}
           \/ /\ record'[<<m, i>>] \in effect /\ record'[<<m, i>>] \in Requests
              /\ req[record'[<<m, i>>]].merchant = m /\ req[record'[<<m, i>>]].idem = i,
         \A r \in Requests :
           \/ answer'[r] = answer[r]
           \/ answer'[r] \notin Requests
           \/ /\ ~At(r, "idle") /\ req'[r].pc = "done" /\ ~At(answer'[r], "idle")
              /\ req[answer'[r]].merchant = req[r].merchant
              /\ req[answer'[r]].idem = req[r].idem
              /\ req[answer'[r]].body = req[r].body
              /\ answer'[r] \in effect
  PROVE  (RecordIsOfItsKey /\ StaleIsExpired /\ EffectIsLate /\ AnsweredIsDone
          /\ ReplayIsOfItsRequest)'
<1>0. TypeOK
  BY DEF ReplayInv, KeysInv
<1>1. RecordIsOfItsKey'
  <2> SUFFICES ASSUME NEW m \in Merchants, NEW i \in IdemKeys, record'[<<m, i>>] # NoRecord
               PROVE  /\ req'[record'[<<m, i>>]].pc # "idle" /\ record'[<<m, i>>] \in effect'
                      /\ req'[record'[<<m, i>>]].merchant = m /\ req'[record'[<<m, i>>]].idem = i
    BY DEF RecordIsOfItsKey, At
  <2> DEFINE q == record'[<<m, i>>]
  <2>1. q \in Requests /\ q \in effect /\ req[q].merchant = m /\ req[q].idem = i
    BY <1>0 DEF ReplayInv, Replays, RecordIsOfItsKey, TypeOK
  <2>2. ~At(q, "idle")
    BY <2>1 DEF ReplayInv, Replays, EffectIsLate, At
  <2> HIDE DEF q
  <2>3. q \in effect' /\ req'[q].pc # "idle" /\ req'[q].merchant = m /\ req'[q].idem = i
    BY <2>1, <2>2 DEF IdentityKept
  <2> QED BY <2>3 DEF q
<1>2. StaleIsExpired' /\ EffectIsLate'
  BY DEF StaleIsExpired, EffectIsLate, At
<1>3. ASSUME NEW r \in Requests, answer'[r] \in Requests
      PROVE  /\ req'[r].pc = "done" /\ req'[answer'[r]].pc # "idle"
             /\ req'[answer'[r]].merchant = req'[r].merchant
             /\ req'[answer'[r]].idem = req'[r].idem
             /\ req'[answer'[r]].body = req'[r].body
             /\ answer'[r] \in effect'
  <2> DEFINE q == answer'[r]
  <2>1. /\ ~At(r, "idle") /\ req'[r].pc = "done" /\ ~At(q, "idle")
        /\ req[q].merchant = req[r].merchant /\ req[q].idem = req[r].idem
        /\ req[q].body = req[r].body /\ q \in effect
    BY <1>3 DEF ReplayInv, Replays, AnsweredIsDone, ReplayIsOfItsRequest, At
  <2>2. q \in Requests
    BY <1>3
  <2> HIDE DEF q
  <2>3. /\ req'[r].pc = "done" /\ req'[q].pc # "idle" /\ q \in effect'
        /\ req'[q].merchant = req'[r].merchant /\ req'[q].idem = req'[r].idem
        /\ req'[q].body = req'[r].body
    BY <2>1, <2>2 DEF IdentityKept
  <2> QED BY <2>3 DEF q
<1>4. AnsweredIsDone' /\ ReplayIsOfItsRequest'
  BY <1>3 DEF AnsweredIsDone, ReplayIsOfItsRequest, At
<1> QED BY <1>1, <1>2, <1>4

\* A step seen from the covered requests.
LEMMA CoveredFrame ==
  ASSUME ReplayInv, IdentityKept,
         \A m \in Merchants, i \in IdemKeys :
           record[<<m, i>>] \notin {NoRecord} \union expired => record'[<<m, i>>] = record[<<m, i>>],
         \A r \in covered : req'[r].pc \in {"lookup", "done"} /\ r \notin effect',
         \A r \in covered' :
           \/ r \in covered /\ record[<<req[r].merchant, req[r].idem>>] \notin expired'
           \/ /\ req'[r].pc = "lookup" /\ r \notin effect'
              /\ req'[r].merchant \in Merchants /\ req'[r].idem \in IdemKeys
              /\ record'[<<req'[r].merchant, req'[r].idem>>] \notin {NoRecord} \union expired'
  PROVE  CoveredIsLive'
<1> SUFFICES ASSUME NEW r \in covered'
             PROVE  /\ req'[r].pc \in {"lookup", "done"} /\ r \notin effect'
                    /\ req'[r].merchant \in Merchants /\ req'[r].idem \in IdemKeys
                    /\ record'[<<req'[r].merchant, req'[r].idem>>] \notin {NoRecord} \union expired'
  BY DEF CoveredIsLive
<1>1. CASE r \in covered /\ record[<<req[r].merchant, req[r].idem>>] \notin expired'
  <2>1. /\ r \in Requests /\ ~At(r, "idle")
        /\ req[r].merchant \in Merchants /\ req[r].idem \in IdemKeys
        /\ record[<<req[r].merchant, req[r].idem>>] \notin {NoRecord} \union expired
    BY <1>1 DEF ReplayInv, KeysInv, TypeOK, Replays, CoveredIsLive, At
  <2>2. req'[r].merchant = req[r].merchant /\ req'[r].idem = req[r].idem
    BY <2>1 DEF IdentityKept
  <2>3. record'[<<req[r].merchant, req[r].idem>>] = record[<<req[r].merchant, req[r].idem>>]
    BY <2>1
  <2> QED BY <1>1, <2>1, <2>2, <2>3
<1> QED BY <1>1

\* A request arrives; a covered one finds the record of its key.
LEMMA Arrives ==
  ASSUME ReplayInv, NEW r \in Requests, NEW row, At(r, "idle"),
         req' = [req EXCEPT ![r] = row],
         row.pc \in {"execute", "lookup", "done", "revoke", "rotate"},
         UNCHANGED <<record, expired, effect>>,
         UNCHANGED answer \/ answer' = [answer EXCEPT ![r] = "own"],
         covered' \subseteq covered \union {r},
         r \in covered' =>
           /\ row.pc = "lookup" /\ row.merchant \in Merchants /\ row.idem \in IdemKeys
           /\ record[<<row.merchant, row.idem>>] \notin {NoRecord} \union expired
  PROVE  Replays'
<1>0. TypeOK
  BY DEF ReplayInv, KeysInv
<1>1. req'[r] = row /\ \A s \in Requests : s # r => req'[s] = req[s]
  BY <1>0 DEF TypeOK
<1>2. IdentityKept
  BY <1>1 DEF IdentityKept, At
<1>3. r \notin effect /\ r \notin covered
  BY DEF ReplayInv, Replays, EffectIsLate, CoveredIsLive, At
<1>4. \A s \in Requests : answer'[s] = answer[s] \/ answer'[s] \notin Requests
  BY <1>0, NothingAssumption DEF TypeOK
<1>5. /\ \A s \in effect' : req'[s].pc \in {"store", "done"}
      /\ \A s \in Requests : req'[s].pc = "store" => s \in effect'
      /\ \A s \in Requests : req'[s].pc = "delete" => req'[s].stale \in expired'
      /\ \A s \in Requests : At(s, "done") => req'[s].pc = "done"
  BY <1>0, <1>1, <1>3 DEF ReplayInv, Replays, EffectIsLate, StaleIsExpired, At, TypeOK
<1>6. (RecordIsOfItsKey /\ StaleIsExpired /\ EffectIsLate /\ AnsweredIsDone
       /\ ReplayIsOfItsRequest)'
  BY <1>2, <1>4, <1>5, ReplayFrame
<1>7. /\ \A s \in covered : req'[s].pc \in {"lookup", "done"} /\ s \notin effect'
      /\ \A s \in covered' :
           \/ s \in covered /\ record[<<req[s].merchant, req[s].idem>>] \notin expired'
           \/ /\ req'[s].pc = "lookup" /\ s \notin effect'
              /\ req'[s].merchant \in Merchants /\ req'[s].idem \in IdemKeys
              /\ record'[<<req'[s].merchant, req'[s].idem>>] \notin {NoRecord} \union expired'
  <2>1. \A s \in covered : /\ s \in Requests /\ s # r /\ req[s].pc \in {"lookup", "done"}
                           /\ s \notin effect
                           /\ record[<<req[s].merchant, req[s].idem>>] \notin expired
    BY <1>0, <1>3 DEF ReplayInv, Replays, CoveredIsLive, TypeOK
  <2>2. \A s \in covered : req'[s].pc \in {"lookup", "done"} /\ s \notin effect'
    BY <1>1, <2>1
  <2>3. \A s \in covered' : s \in covered \/ s = r
    OBVIOUS
  <2> QED BY <1>1, <1>3, <2>1, <2>2, <2>3
<1>8. CoveredIsLive'
  BY <1>2, <1>7, CoveredFrame
<1> QED BY <1>6, <1>8 DEF Replays

\* A request under way goes on; a covered one is done and has had no effect.
LEMMA GoesOn ==
  ASSUME ReplayInv, NEW r \in Requests, NEW row, req[r].pc \notin {"idle", "done"},
         req' = [req EXCEPT ![r] = row],
         row.pc # "idle" /\ row.merchant = req[r].merchant,
         row.idem = req[r].idem /\ row.body = req[r].body,
         UNCHANGED <<expired, covered>>,
         effect \subseteq effect', effect' \subseteq effect \union {r},
         r \in effect' => row.pc \in {"store", "done"},
         row.pc = "store" => r \in effect',
         row.pc = "delete" => row.stale \in expired,
         r \in covered => row.pc = "done" /\ r \notin effect',
         \A m \in Merchants, i \in IdemKeys :
           /\ \/ record'[<<m, i>>] \in {NoRecord, record[<<m, i>>]}
              \/ /\ record'[<<m, i>>] = r /\ r \in effect
                 /\ req[r].merchant = m /\ req[r].idem = i
           /\ record[<<m, i>>] \notin {NoRecord} \union expired =>
                record'[<<m, i>>] = record[<<m, i>>],
         \A s \in Requests : s # r => answer'[s] = answer[s],
         \/ answer'[r] = answer[r]
         \/ answer'[r] \notin Requests
         \/ /\ row.pc = "done" /\ ~At(answer'[r], "idle")
            /\ req[answer'[r]].merchant = req[r].merchant
            /\ req[answer'[r]].idem = req[r].idem
            /\ req[answer'[r]].body = req[r].body
            /\ answer'[r] \in effect
  PROVE  Replays'
<1>0. TypeOK
  BY DEF ReplayInv, KeysInv
<1>1. req'[r] = row /\ \A s \in Requests : s # r => req'[s] = req[s]
  BY <1>0 DEF TypeOK
<1>2. IdentityKept
  BY <1>1 DEF IdentityKept, At
<1>3. /\ \A s \in effect' : req'[s].pc \in {"store", "done"}
      /\ \A s \in Requests : req'[s].pc = "store" => s \in effect'
      /\ \A s \in Requests : req'[s].pc = "delete" => req'[s].stale \in expired'
      /\ \A s \in Requests : At(s, "done") => req'[s].pc = "done"
  BY <1>0, <1>1 DEF ReplayInv, Replays, EffectIsLate, StaleIsExpired, At, TypeOK
<1>4. \A s \in Requests :
        \/ answer'[s] = answer[s]
        \/ answer'[s] \notin Requests
        \/ /\ ~At(s, "idle") /\ req'[s].pc = "done" /\ ~At(answer'[s], "idle")
           /\ req[answer'[s]].merchant = req[s].merchant
           /\ req[answer'[s]].idem = req[s].idem
           /\ req[answer'[s]].body = req[s].body
           /\ answer'[s] \in effect
  BY <1>1 DEF At
<1>5. \A m \in Merchants, i \in IdemKeys :
        \/ record'[<<m, i>>] \in {NoRecord, record[<<m, i>>]}
        \/ /\ record'[<<m, i>>] \in effect /\ record'[<<m, i>>] \in Requests
           /\ req[record'[<<m, i>>]].merchant = m /\ req[record'[<<m, i>>]].idem = i
  OBVIOUS
<1>6. (RecordIsOfItsKey /\ StaleIsExpired /\ EffectIsLate /\ AnsweredIsDone
       /\ ReplayIsOfItsRequest)'
  BY <1>2, <1>3, <1>4, <1>5, ReplayFrame
<1>7. /\ \A s \in covered : req'[s].pc \in {"lookup", "done"} /\ s \notin effect'
      /\ \A s \in covered' : s \in covered /\ record[<<req[s].merchant, req[s].idem>>] \notin expired'
  <2>1. \A s \in covered : /\ s \in Requests /\ req[s].pc \in {"lookup", "done"}
                           /\ s \notin effect
                           /\ record[<<req[s].merchant, req[s].idem>>] \notin expired
    BY <1>0 DEF ReplayInv, Replays, CoveredIsLive, TypeOK
  <2>2. \A s \in covered : s \notin effect'
    BY <2>1
  <2>3. \A s \in covered : req'[s].pc \in {"lookup", "done"}
    BY <1>1, <2>1
  <2> QED BY <2>1, <2>2, <2>3
<1>8. CoveredIsLive'
  BY <1>2, <1>7, CoveredFrame
<1> QED BY <1>6, <1>8 DEF Replays

LEMMA ReplayInit == Init => ReplayInv
<1> SUFFICES ASSUME Init PROVE Replays
  BY KeysInit DEF ReplayInv
<1> DEFINE OfKey(x) == CHOOSE y \in Yesterday : <<y.merchant, y.idem>> = x
           OfReq(r) == CHOOSE y \in Yesterday : y.req = r
<1>1. \A y \in Yesterday :
        /\ y.req \in Requests /\ y.req \in expired /\ y.req \in effect
        /\ OfReq(y.req) = y
  <2>1. \A y \in Yesterday : OfReq(y.req) \in Yesterday /\ OfReq(y.req).req = y.req
    OBVIOUS
  <2> HIDE DEF OfReq
  <2> QED BY <2>1, YesterdayAssumption DEF Init
<1>2. \A r \in Requests :
        req[r] = IF r \in expired
                 THEN [Idle EXCEPT !.pc = "done", !.merchant = OfReq(r).merchant,
                                   !.idem = OfReq(r).idem, !.body = OfReq(r).body]
                 ELSE Idle
  BY DEF Init
<1>3. \A m \in Merchants, i \in IdemKeys : record[<<m, i>>] # NoRecord =>
        \E y \in Yesterday : y.merchant = m /\ y.idem = i /\ record[<<m, i>>] = y.req
  <2> SUFFICES ASSUME NEW m \in Merchants, NEW i \in IdemKeys, record[<<m, i>>] # NoRecord
               PROVE  \E y \in Yesterday : y.merchant = m /\ y.idem = i /\ record[<<m, i>>] = y.req
    OBVIOUS
  <2>1. PICK y \in Yesterday : <<y.merchant, y.idem>> = <<m, i>>
    BY DEF Init
  <2>2. OfKey(<<m, i>>) \in Yesterday
        /\ <<OfKey(<<m, i>>).merchant, OfKey(<<m, i>>).idem>> = <<m, i>>
    BY <2>1
  <2>3. record[<<m, i>>] = OfKey(<<m, i>>).req
    BY <2>1 DEF Init
  <2> HIDE DEF OfKey
  <2> QED BY <2>2, <2>3
<1> HIDE DEF OfKey, OfReq
<1>4. \A y \in Yesterday : At(y.req, "done") /\ req[y.req].merchant = y.merchant
                          /\ req[y.req].idem = y.idem
  <2> SUFFICES ASSUME NEW y \in Yesterday
               PROVE  At(y.req, "done") /\ req[y.req].merchant = y.merchant /\ req[y.req].idem = y.idem
    OBVIOUS
  <2>1. y.req \in Requests /\ y.req \in expired /\ OfReq(y.req) = y
    BY <1>1
  <2>2. req[y.req] = [Idle EXCEPT !.pc = "done", !.merchant = y.merchant,
                                  !.idem = y.idem, !.body = y.body]
    BY <1>2, <2>1
  <2> QED BY <2>2 DEF Idle, At
<1>5. RecordIsOfItsKey
  <2> SUFFICES ASSUME NEW m \in Merchants, NEW i \in IdemKeys, record[<<m, i>>] # NoRecord
               PROVE  /\ ~At(record[<<m, i>>], "idle") /\ record[<<m, i>>] \in effect
                      /\ req[record[<<m, i>>]].merchant = m /\ req[record[<<m, i>>]].idem = i
    BY DEF RecordIsOfItsKey
  <2>1. PICK y \in Yesterday : y.merchant = m /\ y.idem = i /\ record[<<m, i>>] = y.req
    BY <1>3
  <2> QED BY <1>1, <1>4, <2>1 DEF At
<1>6. \A r \in Requests : req[r].pc \in {"idle", "done"} /\ (r \in effect => req[r].pc = "done")
  BY <1>2 DEF Idle, Init
<1>7. StaleIsExpired
  BY <1>6 DEF StaleIsExpired, At
<1>8. EffectIsLate
  <2>1. \A r \in effect : r \in Requests
    BY <1>1 DEF Init
  <2> QED BY <1>6, <2>1 DEF EffectIsLate, At
<1>9. AnsweredIsDone /\ ReplayIsOfItsRequest
  <2>1. \A r \in Requests : answer[r] \notin Requests
    BY NothingAssumption DEF Init
  <2> QED BY <2>1 DEF AnsweredIsDone, ReplayIsOfItsRequest
<1>10. CoveredIsLive
  <2>1. covered = {}
    BY DEF Init
  <2> QED BY <2>1 DEF CoveredIsLive
<1> QED BY <1>5, <1>7, <1>8, <1>9, <1>10 DEF Replays

\* The SELECT: a covered request finds its record, and a response is replayed
\* to a request with the body of the one that stored it.
LEMMA LooksUp ==
  ASSUME ReplayInv, NEW r \in Requests, lookupRecord(r) PROVE Replays'
<1> DEFINE rec == record[<<req[r].merchant, req[r].idem>>]
<1>0. TypeOK /\ req[r] \in RequestRows
  BY DEF ReplayInv, KeysInv, TypeOK
<1>1. /\ At(r, "lookup") /\ UNCHANGED <<record, expired, effect, covered>>
      /\ req[r].merchant \in Merchants /\ req[r].idem \in IdemKeys
      /\ r \notin effect
      /\ r \in covered => rec \notin {NoRecord} \union expired
  BY <1>0 DEF lookupRecord, idempotency, ReplayInv, Replays, KeysInv, LookingUp, CoveredIsLive,
     EffectIsLate, At
<1>2. \/ rec = NoRecord /\ Goto(r, "execute") /\ UNCHANGED answer
      \/ /\ rec # NoRecord /\ rec \in expired /\ UNCHANGED answer
         /\ req' = [req EXCEPT ![r].pc = "delete", ![r].stale = rec]
      \/ /\ rec # NoRecord /\ rec \notin expired
         /\ Finish(r, IF req[rec].body = req[r].body THEN rec ELSE "refused")
  BY DEF lookupRecord
<1>3. rec # NoRecord => /\ rec \in Requests /\ ~At(rec, "idle") /\ rec \in effect
                        /\ req[rec].merchant = req[r].merchant /\ req[rec].idem = req[r].idem
  BY <1>0, <1>1 DEF ReplayInv, Replays, RecordIsOfItsKey, TypeOK
<1> HIDE DEF rec
<1>4. CASE rec = NoRecord /\ Goto(r, "execute") /\ UNCHANGED answer
  <2> DEFINE row == [req[r] EXCEPT !.pc = "execute"]
  <2>1. /\ req' = [req EXCEPT ![r] = row] /\ row.pc = "execute" /\ row.merchant = req[r].merchant
        /\ row.idem = req[r].idem /\ row.body = req[r].body
    BY <1>0, <1>4 DEF Goto
  <2> HIDE DEF row
  <2> QED BY <1>1, <1>4, <2>1, GoesOn DEF At
<1>5. CASE /\ rec # NoRecord /\ rec \in expired /\ UNCHANGED answer
           /\ req' = [req EXCEPT ![r].pc = "delete", ![r].stale = rec]
  <2> DEFINE row == [req[r] EXCEPT !.pc = "delete", !.stale = rec]
  <2>1. /\ req' = [req EXCEPT ![r] = row] /\ row.pc = "delete" /\ row.merchant = req[r].merchant
        /\ row.idem = req[r].idem /\ row.body = req[r].body /\ row.stale = rec
    BY <1>0, <1>5
  <2> HIDE DEF row
  <2> QED BY <1>1, <1>5, <2>1, GoesOn DEF At
<1>6. CASE /\ rec # NoRecord /\ rec \notin expired
           /\ Finish(r, IF req[rec].body = req[r].body THEN rec ELSE "refused")
  <2> DEFINE row == [req[r] EXCEPT !.pc = "done"]
             a == IF req[rec].body = req[r].body THEN rec ELSE "refused"
  <2>1. /\ req' = [req EXCEPT ![r] = row] /\ row.pc = "done" /\ row.merchant = req[r].merchant
        /\ row.idem = req[r].idem /\ row.body = req[r].body
    BY <1>0, <1>6 DEF Finish, Goto
  <2>2. answer' = [answer EXCEPT ![r] = a]
    BY <1>6 DEF Finish, Answer
  <2>3. a \in Requests => a = rec /\ req[rec].body = req[r].body
    BY NothingAssumption
  <2> HIDE DEF row, a
  <2>4. answer'[r] = a /\ \A s \in Requests : s # r => answer'[s] = answer[s]
    BY <1>0, <2>2 DEF TypeOK
  <2> QED BY <1>1, <1>3, <1>6, <2>1, <2>3, <2>4, GoesOn DEF At
<1> QED BY <1>2, <1>4, <1>5, <1>6

\* The DELETE by id, and the INSERT that yields: a record that lives stays.
LEMMA Writes ==
  ASSUME ReplayInv, NEW r \in Requests, deleteExpired(r) \/ storeRecord(r) PROVE Replays'
<1>0. TypeOK /\ req[r] \in RequestRows
  BY DEF ReplayInv, KeysInv, TypeOK
<1>1. PICK pc \in {"execute", "done"} :
        /\ Goto(r, pc) /\ req[r].pc \in {"delete", "store"}
        /\ pc = "execute" => At(r, "delete")
        /\ UNCHANGED <<expired, effect, covered, answer>>
  BY DEF deleteExpired, storeRecord, At
<1> DEFINE row == [req[r] EXCEPT !.pc = pc]
<1>2. /\ req' = [req EXCEPT ![r] = row] /\ row.pc = pc /\ row.merchant = req[r].merchant
      /\ row.idem = req[r].idem /\ row.body = req[r].body
  BY <1>0, <1>1 DEF Goto
<1> HIDE DEF row
<1>3. r \notin covered /\ (pc = "execute" => r \notin effect)
  BY <1>1 DEF ReplayInv, Replays, CoveredIsLive, EffectIsLate, At
<1>4. \A m \in Merchants, i \in IdemKeys :
        /\ \/ record'[<<m, i>>] \in {NoRecord, record[<<m, i>>]}
           \/ /\ record'[<<m, i>>] = r /\ r \in effect
              /\ req[r].merchant = m /\ req[r].idem = i
        /\ record[<<m, i>>] \notin {NoRecord} \union expired =>
             record'[<<m, i>>] = record[<<m, i>>]
  <2>1. CASE UNCHANGED record
    BY <2>1
  <2>2. CASE deleteExpired(r) /\ ~UNCHANGED record
    <3>1. /\ record' = [record EXCEPT ![<<req[r].merchant, req[r].idem>>] =
                          IF @ = req[r].stale THEN NoRecord ELSE @]
          /\ req[r].stale \in expired
      BY <2>2 DEF deleteExpired, ReplayInv, Replays, StaleIsExpired
    <3> QED BY <1>0, <3>1 DEF TypeOK
  <2>3. CASE storeRecord(r) /\ ~UNCHANGED record
    <3>1. /\ record' = [record EXCEPT ![<<req[r].merchant, req[r].idem>>] =
                          IF @ = NoRecord THEN r ELSE @]
          /\ r \in effect
      BY <2>3 DEF storeRecord, ReplayInv, Replays, EffectIsLate
    <3> QED BY <1>0, <3>1 DEF TypeOK
  <2> QED BY <2>1, <2>2, <2>3
<1> QED BY <1>1, <1>2, <1>3, <1>4, GoesOn

\* The route: a request that executes is not covered.
LEMMA Executes ==
  ASSUME ReplayInv, NEW r \in Requests, execute(r) PROVE Replays'
<1>0. TypeOK /\ req[r] \in RequestRows
  BY DEF ReplayInv, KeysInv, TypeOK
<1>1. PICK pc \in {"done", "store"}, a \in {"own", "refused"} :
        /\ Goto(r, pc) /\ At(r, "execute") /\ Answer(r, a)
        /\ effect' \in {effect, effect \union {r}} /\ (pc = "store" => r \in effect')
        /\ UNCHANGED <<record, expired, covered>>
  BY DEF execute, Finish
<1> DEFINE row == [req[r] EXCEPT !.pc = pc]
<1>2. /\ req' = [req EXCEPT ![r] = row] /\ row.pc = pc /\ row.merchant = req[r].merchant
      /\ row.idem = req[r].idem /\ row.body = req[r].body
  BY <1>0, <1>1 DEF Goto
<1> HIDE DEF row
<1>3. r \notin covered
  BY <1>1 DEF ReplayInv, Replays, CoveredIsLive, At
<1>4. answer'[r] \notin Requests /\ \A s \in Requests : s # r => answer'[s] = answer[s]
  BY <1>0, <1>1, NothingAssumption DEF Answer, TypeOK
<1> QED BY <1>1, <1>2, <1>3, <1>4, GoesOn DEF At

\* 24 hours pass: the requests its record covered are covered no more.
LEMMA Expires ==
  ASSUME ReplayInv, NEW m \in Merchants, NEW i \in IdemKeys, Expire(m, i) PROVE Replays'
<1>0. TypeOK
  BY DEF ReplayInv, KeysInv
<1>1. /\ UNCHANGED <<record, effect, answer, req>>
      /\ expired' = expired \union {record[<<m, i>>]}
      /\ covered' = {r \in covered : ~(req[r].merchant = m /\ req[r].idem = i)}
      /\ record[<<m, i>>] # NoRecord
  BY DEF Expire, Live
<1>2. IdentityKept
  BY <1>1 DEF IdentityKept, At
<1>3. (RecordIsOfItsKey /\ StaleIsExpired /\ EffectIsLate /\ AnsweredIsDone
       /\ ReplayIsOfItsRequest)'
  <2>1. /\ \A s \in effect' : req'[s].pc \in {"store", "done"}
        /\ \A s \in Requests : req'[s].pc = "store" => s \in effect'
        /\ \A s \in Requests : req'[s].pc = "delete" => req'[s].stale \in expired'
        /\ \A s \in Requests : At(s, "done") => req'[s].pc = "done"
    BY <1>1 DEF ReplayInv, Replays, EffectIsLate, StaleIsExpired, At
  <2> QED BY <1>1, <1>2, <2>1, ReplayFrame
<1>4. CoveredIsLive'
  <2>1. \A r \in covered :
          /\ req[r].pc \in {"lookup", "done"} /\ r \notin effect
          /\ req[r].merchant \in Merchants /\ req[r].idem \in IdemKeys
          /\ record[<<req[r].merchant, req[r].idem>>] \notin {NoRecord} \union expired
    BY DEF ReplayInv, Replays, CoveredIsLive
  <2>2. ASSUME NEW r \in covered'
        PROVE  record[<<req[r].merchant, req[r].idem>>] \notin expired'
    <3>1. r \in covered /\ ~(req[r].merchant = m /\ req[r].idem = i)
      BY <1>1
    <3>2. record[<<req[r].merchant, req[r].idem>>] # record[<<m, i>>]
      BY <1>1, <2>1, <3>1 DEF ReplayInv, Replays, RecordIsOfItsKey
    <3> QED BY <1>1, <2>1, <3>1, <3>2
  <2>3. covered' \subseteq covered
    BY <1>1
  <2>4. \A r \in covered : req'[r].pc \in {"lookup", "done"} /\ r \notin effect'
    BY <1>1, <2>1
  <2> QED BY <1>1, <1>2, <2>2, <2>3, <2>4, CoveredFrame
<1> QED BY <1>3, <1>4 DEF Replays

LEMMA ReplayStep == ReplayInv /\ [Next]_vars => ReplayInv'
<1> SUFFICES ASSUME ReplayInv, [Next]_vars PROVE Replays'
  BY KeysStep DEF ReplayInv
<1>0. TypeOK
  BY DEF ReplayInv, KeysInv
<1>1. ASSUME NEW r \in Requests, NEW k \in ApiKeys, NEW b \in Bodies,
             NEW i \in IdemKeys \union {NoIdem}, createPayment(r, k, i, b) PROVE Replays'
  <2> DEFINE row == [[Idle EXCEPT !.pc = IF i = NoIdem THEN "execute" ELSE "lookup",
                                  !.idem = i, !.body = b]
                       EXCEPT !.merchant = apiKey[k].owner, !.key = k]
  <2>1. /\ At(r, "idle") /\ req' = [req EXCEPT ![r] = row]
        /\ UNCHANGED <<record, expired, effect, answer>>
        /\ covered' = IF i # NoIdem /\ Live(apiKey[k].owner, i) THEN covered \union {r} ELSE covered
    BY <1>1 DEF createPayment, requireBearerApiAuth
  <2>2. apiKey[k].owner \in Merchants
    BY <1>0, <1>1, AuthorisedKey DEF createPayment, requireBearerApiAuth
  <2>3. /\ row.pc = (IF i = NoIdem THEN "execute" ELSE "lookup")
        /\ row.merchant = apiKey[k].owner /\ row.idem = i
    BY DEF Idle
  <2>4. r \notin covered
    BY <2>1 DEF ReplayInv, Replays, CoveredIsLive, At
  <2> HIDE DEF row
  <2>5. covered' \subseteq covered \union {r}
    BY <2>1
  <2>6. r \in covered' =>
          /\ row.pc = "lookup" /\ row.merchant \in Merchants /\ row.idem \in IdemKeys
          /\ record[<<row.merchant, row.idem>>] \notin {NoRecord} \union expired
    BY <2>1, <2>2, <2>3, <2>4 DEF Live
  <2> QED BY <2>1, <2>3, <2>5, <2>6, Arrives
<1>2. ASSUME NEW r \in Requests, NEW k \in ApiKeys, NEW next \in RequestRows,
             next.pc \in {"revoke", "rotate", "done"},
             requireBearerApiAuth(r, k, "admin", next),
             UNCHANGED idempotency, UNCHANGED answer \/ Answer(r, "own") PROVE Replays'
  <2> DEFINE row == [next EXCEPT !.merchant = apiKey[k].owner, !.key = k]
  <2>1. At(r, "idle") /\ req' = [req EXCEPT ![r] = row] /\ row.pc = next.pc
    BY <1>2 DEF requireBearerApiAuth
  <2>2. /\ UNCHANGED <<record, expired, effect, covered>>
        /\ UNCHANGED answer \/ answer' = [answer EXCEPT ![r] = "own"]
    BY <1>2 DEF idempotency, Answer
  <2>3. r \notin covered
    BY <2>1 DEF ReplayInv, Replays, CoveredIsLive, At
  <2> HIDE DEF row
  <2> QED BY <1>2, <2>1, <2>2, <2>3, Arrives
<1>a. ASSUME NEW r \in Requests, NEW k \in ApiKeys, NEW t \in ApiKeys,
             revokeApiKey(r, k, t) \/ rotateApiKey(r, k, t) PROVE Replays'
  BY <1>2, <1>a DEF revokeApiKey, rotateApiKey, Idle, tenancy
<1>b. ASSUME NEW r \in Requests, NEW k \in ApiKeys, NEW t \in ApiKeys, NEW scopes \in AskedScopes,
             createApiKey(r, k, t, scopes) PROVE Replays'
  BY <1>2, <1>b DEF createApiKey, Idle
<1>3. ASSUME NEW r \in Requests,
             RevokeUpdate(r) \/ (\E new \in ApiKeys : RotateBatch(r, new)) \/ Crash(r)
      PROVE  Replays'
  <2>1. /\ req[r].pc \notin {"idle", "done"} /\ req[r] \in RequestRows
        /\ UNCHANGED <<record, expired, effect, covered>>
    BY <1>0, <1>3 DEF RevokeUpdate, RotateBatch, Crash, idempotency, At, TypeOK
  <2>2. PICK x \in ApiKeys \union {NoApiKey} :
          req' = [req EXCEPT ![r] = [req[r] EXCEPT !.pc = "done", !.made = x]]
    <3>1. CASE \E new \in ApiKeys : RotateBatch(r, new)
      <4>1. PICK new \in ApiKeys : RotateBatch(r, new)
        BY <3>1
      <4>2. req' = [req EXCEPT ![r] = [req[r] EXCEPT !.pc = "done", !.made = new]]
        BY <4>1 DEF RotateBatch
      <4> QED BY <4>2
    <3>2. CASE RevokeUpdate(r) \/ Crash(r)
      <4>1. req' = [req EXCEPT ![r] = [req[r] EXCEPT !.pc = "done"]]
        BY <3>2 DEF RevokeUpdate, Crash, Finish, Goto
      <4>2. [req[r] EXCEPT !.pc = "done"] = [req[r] EXCEPT !.pc = "done", !.made = req[r].made]
        BY <2>1
      <4> QED BY <2>1, <4>1, <4>2
    <3> QED BY <1>3, <3>1, <3>2
  <2> DEFINE row == [req[r] EXCEPT !.pc = "done", !.made = x]
  <2>3. /\ req' = [req EXCEPT ![r] = row] /\ row.pc = "done" /\ row.merchant = req[r].merchant
        /\ row.idem = req[r].idem /\ row.body = req[r].body
    BY <2>1, <2>2
  <2>4. UNCHANGED answer \/ \E a \in {"own", "refused"} : answer' = [answer EXCEPT ![r] = a]
    BY <1>3 DEF RevokeUpdate, RotateBatch, Crash, Finish, Answer
  <2>5. /\ \A s \in Requests : s # r => answer'[s] = answer[s]
        /\ answer'[r] = answer[r] \/ answer'[r] \notin Requests
    BY <1>0, <2>4, NothingAssumption DEF TypeOK
  <2>6. r \in covered => r \notin effect
    BY DEF ReplayInv, Replays, CoveredIsLive
  <2> HIDE DEF row
  <2> QED BY <2>1, <2>3, <2>5, <2>6, GoesOn
<1>4. CASE UNCHANGED <<record, expired, effect, covered, answer, req>>
  BY <1>4 DEF ReplayInv, Replays, RecordIsOfItsKey, StaleIsExpired, EffectIsLate, AnsweredIsDone,
     ReplayIsOfItsRequest, CoveredIsLive, At
<1>5. ASSUME NEW m \in Merchants, SetMerchantStatus(m)
      PROVE  UNCHANGED <<record, expired, effect, covered, answer, req>>
  BY <1>5 DEF SetMerchantStatus, idempotency
<1>6. UNCHANGED vars => UNCHANGED <<record, expired, effect, covered, answer, req>>
  BY DEF vars
<1>7. ASSUME NEW r \in Requests, Crash(r) PROVE Replays'
  BY <1>3, <1>7
<1>8. ASSUME NEW r \in Requests, Creating(r) PROVE Replays'
  BY <1>1, <1>8, LooksUp, Writes, Executes DEF Creating, createRefund
<1>9. ASSUME NEW r \in Requests, Keys(r) PROVE Replays'
  BY <1>3, <1>9, <1>a, <1>b DEF Keys
<1> HIDE DEF Replays
<1> QED BY <1>4, <1>5, <1>6, <1>7, <1>8, <1>9, Expires DEF Next

LEMMA ReplayInvariant == Spec => []ReplayInv
BY ReplayInit, ReplayStep, PTL DEF Spec

\* A replayed response is that of a request of the same merchant, under the
\* same key, with the same body, whose effect did happen
\* (middleware/idempotency.ts): the row that is compared is the row that is
\* replayed, and no row ever stands under a key its request did not bring.
THEOREM ReplayedIsOwn == Spec => []ReplayIsOfItsRequest
<1>1. ReplayInv => ReplayIsOfItsRequest
  BY DEF ReplayInv, Replays
<1> QED BY <1>1, ReplayInvariant, PTL

\* A request that meets a live record from its arrival on does not run the
\* route (idempotency.ts, DELETE by id): however many requests handle the
\* expired record the live one replaced, none takes the live one away.
THEOREM CoveredNotRun == Spec => []NotRunAgain
<1>1. ReplayInv => NotRunAgain
  BY DEF ReplayInv, Replays, CoveredIsLive, NotRunAgain, At
<1> QED BY <1>1, ReplayInvariant, PTL
=============================================================================
