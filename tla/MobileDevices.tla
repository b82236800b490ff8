---------------------------- MODULE MobileDevices ----------------------------
(***************************************************************************)
(* The handsets of one merchant (controllers/mobile.ts): pairing with a    *)
(* one-time password and a hardware attestation, forwarding of SMS one by  *)
(* one or in batches, key rotation, revocation, the merchant's policy and  *)
(* its overrides (services/device-policy.ts), and the nightly purge of     *)
(* nonces (cron/handler.ts).                                               *)
(*                                                                         *)
(* A request is a process: one action per await that touches shared state. *)
(* A request that is refused before it has changed anything is a request   *)
(* that does not start; a Worker may die between any two awaits.           *)
(*                                                                         *)
(* Time is counted in freshness windows of 300 s.  No forwarding request   *)
(* lasts into the next window (Tick waits for it).                         *)
(***************************************************************************)
EXTENDS DevicePolicy, KeyAttestation, FiniteSets

CONSTANTS
  Requests,       \* requests to the mobile and the policy API
  Otps,           \* rows of op_device_pairing_tokens
  Devices,        \* rows of op_paired_devices
  Keys,           \* public keys
  Nonces,         \* nonces the handsets draw
  Messages,       \* what the handsets sign: see MessagesAssumption
  Batches,        \* the batches of SMS they forward
  InitialDevices, \* devices paired earlier
  Handsets,       \* what a pairing handset sends: see HandsetsAssumption
  Environments,   \* the deployments considered
  Policies,       \* the policy rows considered
  ModesPut,       \* the enforcement modes merchants switch to
  NoOtp, NoDevice, NoMessage, NoChain,
  Quota,          \* active overrides per merchant (20 in the code)
  OTP_MAX_ATTEMPTS,
  OtpWindows,     \* windows until the tokens expire
  MaxClock,       \* windows considered
  MaxChallenges,  \* attestation challenges issued
  MaxOverrides    \* rows of op_device_policy_overrides

\* The request body of a pairing: a key, and a certificate chain (its
\* challenge is filled in with the one the handset was given) or none.
ASSUME HandsetsAssumption ==
  Handsets \subseteq [key: Keys \union {NoKey}, chain: Chains(Keys) \union {NoChain}]
\* A signed message: the device, the key and the nonce, the timestamp of a
\* handset whose clock may be off, and either an SMS or (newKey) a rotation.
ASSUME MessagesAssumption ==
  Messages \subseteq [dev: Devices, key: Keys, nonce: Nonces, ts: Nat, body: {"a", "b"},
                      newKey: Keys \union {NoKey}]
ASSUME BatchesAssumption == Batches \subseteq Seq(Messages)
ASSUME NothingAssumption ==
  NoKey \notin Keys /\ NoOtp \notin Otps /\ NoDevice \notin Devices
  /\ NoMessage \notin Messages /\ NoChain \notin Chains(Keys)
ASSUME RangesAssumption == Environments \subseteq Envs /\ Policies \subseteq PolicyRows
                           /\ ModesPut \subseteq Modes
Unpaired == [status |-> "none", by |-> NoOtp]
DeviceRows == [status: {"active", "revoked"}, by: Otps \union {NoOtp}, facts: Facts(Keys)]

ASSUME InitialAssumption ==
  /\ InitialDevices \subseteq [Devices -> {Unpaired} \union DeviceRows]
  /\ \A f \in InitialDevices, d \in Devices : f[d].by = NoOtp
ASSUME LimitsAssumption ==
  {Quota, OTP_MAX_ATTEMPTS, OtpWindows, MaxClock, MaxChallenges, MaxOverrides} \subseteq Nat

VARIABLES
  clock,      \* the current window
  env,        \* variables of the deployment
  policy,     \* op_merchant_device_policies
  otp,        \* used_at IS NOT NULL, for each pairing token
  attempt,    \* KV otp:attempt: bad attempts on a token (while locked)
  challenge,  \* KV attest:challenge: the challenge of a token and its window
  issued,     \* challenges issued so far
  device,     \* op_paired_devices
  nonces,     \* op_device_nonces
  override,   \* op_device_policy_overrides
  queue,      \* SMS_QUEUE: what has been sent to it, and by which request
  req         \* requests

vars == <<clock, env, policy, otp, attempt, challenge, issued, device, nonces,
          override, queue, req>>
pairingVars == <<otp, attempt, challenge, issued>>
world == <<clock, env, policy>>

Idle == [pc |-> "idle", otp |-> NoOtp, body |-> NoOtp, facts |-> NoOtp, dev |-> NoDevice,
         todo |-> <<>>, checked |-> NoMessage, accepted |-> {}, row |-> 0]
Bare(k) == [key |-> k, verified |-> "none", boot |-> FALSE, strong |-> FALSE, patched |-> FALSE]
Paired(o, facts) == [status |-> "active", by |-> o, facts |-> facts]

Exists(d) == device[d].status # "none"
Free(d) == ~Exists(d)
Start(r, fields) == req[r].pc = "idle" /\ req' = [req EXCEPT ![r] = fields]
Goto(r, pc) == req' = [req EXCEPT ![r].pc = pc]
At(r, pc) == req[r].pc = pc

\* Some devices were paired earlier; some tokens are out.
Init ==
  /\ clock = 0
  /\ env \in Environments
  /\ policy \in Policies
  /\ otp = [o \in Otps |-> FALSE]
  /\ attempt = [o \in Otps |-> 0]
  /\ challenge = [o \in Otps |-> [id |-> 0, at |-> 0]]
  /\ issued = 0
  /\ device \in InitialDevices
  /\ nonces = {}
  /\ override = <<>>
  /\ queue = {}
  /\ req = [r \in Requests |-> Idle]
-----------------------------------------------------------------------------
(* Pairing                                                                 *)

Issuable(o) == ~otp[o] /\ clock <= OtpWindows
Unexpired(o) == challenge[o].id # 0 /\ clock <= challenge[o].at + 1

\* POST /pair/initiate.  A challenge that has not expired is handed out again.
handlePairInitiate(r, o) ==
  /\ Issuable(o)
  /\ ~(challenge[o].id # 0 /\ clock < challenge[o].at + 1)
  /\ Start(r, [Idle EXCEPT !.pc = "challenge", !.otp = o])
  /\ UNCHANGED <<world, pairingVars, device, nonces, override, queue>>

\* The fresh challenge is put, over one put meanwhile.
PutChallenge(r) ==
  /\ At(r, "challenge")
  /\ issued < MaxChallenges
  /\ issued' = issued + 1
  /\ challenge' = [challenge EXCEPT ![req[r].otp] = [id |-> issued', at |-> clock]]
  /\ req' = [req EXCEPT ![r] = Idle]
  /\ UNCHANGED <<world, otp, attempt, device, nonces, override, queue>>

\* POST /pair with a handset's body and the challenge c its chain embeds
\* (0: none).  A token that is used counts as a bad attempt: the counter is
\* read here, and put back by recordBadAttempt.
handlePairing(r, o, h, c) ==
  /\ attempt[o] < OTP_MAX_ATTEMPTS
  /\ IF otp[o]
       THEN Start(r, [Idle EXCEPT !.pc = "attempt", !.otp = o, !.row = attempt[o]])
       ELSE /\ clock <= OtpWindows
            /\ Start(r, [Idle EXCEPT !.pc = "claim", !.otp = o, !.body = h, !.row = c])
  /\ UNCHANGED <<world, pairingVars, device, nonces, override, queue>>

\* KV put of the count read, plus one, over one put meanwhile; it may fail.
recordBadAttempt(r) ==
  /\ At(r, "attempt")
  /\ attempt' \in {attempt, [attempt EXCEPT ![req[r].otp] = req[r].row + 1]}
  /\ Goto(r, "done")
  /\ UNCHANGED <<world, otp, challenge, issued, device, nonces, override, queue>>

\* Mutant of PairClaim: the UPDATE does not ask that used_at is NULL.
ClaimsAgain(r) ==
  LET o == req[r].otp
  IN  /\ At(r, "claim")
      /\ otp' = [otp EXCEPT ![o] = TRUE]
      /\ attempt' = [attempt EXCEPT ![o] = 0]
      /\ Goto(r, "attest")
      /\ UNCHANGED <<world, challenge, issued, device, nonces, override, queue>>

\* UPDATE ... SET used_at WHERE used_at IS NULL.
PairClaim(r) ==
  LET o == req[r].otp
  IN  /\ At(r, "claim")
      /\ IF otp[o]
           THEN Goto(r, "done") /\ UNCHANGED <<otp, attempt>>
           ELSE /\ otp' = [otp EXCEPT ![o] = TRUE]
                /\ attempt' = [attempt EXCEPT ![o] = 0]
                /\ Goto(r, "attest")
      /\ UNCHANGED <<world, challenge, issued, device, nonces, override, queue>>

\* What the chain of the body proves: the challenge stored for the token,
\* still fresh, inside a chain that verifies, about the key of the body.
Attested(o, h, c) ==
  /\ Unexpired(o)
  /\ verify([h.chain EXCEPT !.challenge = c], challenge[o].id, env)
  /\ h.key \in {NoKey, h.chain.key}

\* The challenge is consumed whatever the outcome; the token is already used.
PairAttest(r) ==
  LET o == req[r].otp
      h == req[r].body
      chained == h.chain # NoChain
      facts == IF chained
                 THEN [key |-> h.chain.key, verified |-> "fresh", boot |-> verifiedBoot(h.chain),
                       strong |-> strong(h.chain), patched |-> patchLevel(h.chain)]
                 ELSE Bare(h.key)
      ok == /\ chained => Attested(o, h, req[r].row)
            /\ env.signatureRequired => facts.key # NoKey
  IN  /\ At(r, "attest")
      /\ challenge' = IF chained THEN [challenge EXCEPT ![o] = [id |-> 0, at |-> 0]]
                                 ELSE challenge
      /\ req' = [req EXCEPT ![r].pc = IF ok THEN "policy" ELSE "done",
                            ![r].facts = IF ok THEN facts ELSE @]
      /\ UNCHANGED <<world, otp, attempt, issued, device, nonces, override, queue>>

\* The merchant's policy is read and applied, then the store resolved (which
\* may fail).
PairPolicy(r) ==
  LET facts == req[r].facts
      refused == \/ shouldBlock(env, policy, facts)
                 \/ ~compliant(env, policy, facts) /\ policy.strict
  IN  /\ At(r, "policy")
      /\ \/ ~refused /\ Goto(r, "insert")
         \/ Goto(r, "done")
      /\ UNCHANGED <<world, pairingVars, device, nonces, override, queue>>

\* Mutant of PairInsert: the row waits for the first heartbeat.
InsertsPending(r, d) ==
  /\ At(r, "insert")
  /\ Free(d)
  /\ device' = [device EXCEPT ![d] = [Paired(req[r].otp, req[r].facts) EXCEPT !.status = "pending"]]
  /\ Goto(r, "done")
  /\ UNCHANGED <<world, pairingVars, nonces, override, queue>>

\* INSERT of the device; tokens are issued.
PairInsert(r, d) ==
  /\ At(r, "insert")
  /\ Free(d)
  /\ device' = [device EXCEPT ![d] = Paired(req[r].otp, req[r].facts)]
  /\ Goto(r, "done")
  /\ UNCHANGED <<world, pairingVars, nonces, override, queue>>
-----------------------------------------------------------------------------
(* Forwarding of SMS and key rotation                                      *)

IsSms(m) == m.newKey = NoKey
ActiveFor(d) == {i \in DOMAIN override : override[i].active /\ override[i].dev = d}

\* The token names a device that was paired, and the device is not revoked.
deviceStatusGate(d) == device[d].status # "revoked"
requireJwtAuth(d) == Exists(d) /\ deviceStatusGate(d)

\* The gates of the device row and the policy, read together.  A handset
\* below the tier goes on to the look-up of an override.
Gate(r, d, ms) ==
  /\ requireJwtAuth(d)
  /\ device[d].facts.key = NoKey => ~env.signatureRequired
  /\ Start(r, [Idle EXCEPT !.pc = IF shouldBlock(env, policy, device[d].facts)
                                    THEN "override" ELSE "check",
                           !.dev = d, !.facts = device[d].facts, !.todo = ms])
  /\ UNCHANGED <<world, pairingVars, device, nonces, override, queue>>

\* POST /sms (one message; the carrier is checked first) and POST /sms/batch.
sms(r, d, m) == IsSms(m) /\ Gate(r, d, <<m>>)
smsBatch(r, d, ms) == (\A i \in DOMAIN ms : IsSms(ms[i])) /\ Gate(r, d, ms)

lookupActiveOverride(r) ==
  /\ At(r, "override")
  /\ Goto(r, IF ActiveFor(req[r].dev) # {} THEN "check" ELSE "done")
  /\ UNCHANGED <<world, pairingVars, device, nonces, override, queue>>

\* POST /devices/rotate-key reads the device: keyless ones must pair again.
rotateKey(r, d, m) ==
  /\ ~IsSms(m)
  /\ requireJwtAuth(d)
  /\ device[d].facts.key # NoKey
  /\ Start(r, [Idle EXCEPT !.pc = "check", !.dev = d, !.facts = device[d].facts, !.todo = <<m>>])
  /\ UNCHANGED <<world, pairingVars, device, nonces, override, queue>>

Fresh(m) == m.ts - 1 <= clock /\ clock <= m.ts + 1
Used(d, n) == \E x \in nonces : x.dev = d /\ x.nonce = n
SeenInBatch(r, n) == \E m \in req[r].accepted : m.nonce = n
verifyDeviceSignature(r, m) == m.dev = req[r].dev /\ m.key = req[r].facts.key

\* What is checked of the next message before its nonce is stored.
Passes(r, m) ==
  /\ Fresh(m)
  /\ ~SeenInBatch(r, m.nonce)
  /\ ~Used(req[r].dev, m.nonce)
  /\ verifyDeviceSignature(r, m)

\* The next message of a request is looked at.  A handset without a key
\* forwards unsigned; of one with a key, a message that fails is left out of
\* its batch.
Verify(r) ==
  LET m == Head(req[r].todo)
  IN  /\ At(r, "check") /\ req[r].todo # <<>>
      /\ req' = [req EXCEPT
           ![r].todo = Tail(@),
           ![r].accepted = IF req[r].facts.key = NoKey THEN @ \union {m} ELSE @,
           ![r].checked = IF req[r].facts.key # NoKey /\ Passes(r, m) THEN m ELSE NoMessage,
           ![r].pc = IF req[r].facts.key # NoKey /\ Passes(r, m) THEN "nonce" ELSE "check"]
      /\ UNCHANGED <<world, pairingVars, device, nonces, override, queue>>

\* INSERT of the nonce; a duplicate throws, and the request with it.
StoreNonce(r) ==
  LET m == req[r].checked
      n == m.nonce
  IN  /\ At(r, "nonce")
      /\ IF Used(req[r].dev, n)
           THEN Goto(r, "failed") /\ UNCHANGED nonces
           ELSE /\ nonces' = nonces \union {[dev |-> req[r].dev, nonce |-> n, at |-> clock]}
                /\ req' = [req EXCEPT ![r].pc = "check",
                                      ![r].accepted = @ \union {m},
                                      ![r].checked = NoMessage]
      /\ UNCHANGED <<world, pairingVars, device, override, queue>>

\* Mutant of SendSms: the sends are not awaited.
SendsUnawaited(r) ==
  /\ At(r, "check") /\ req[r].todo = <<>>
  /\ \A m \in req[r].accepted : IsSms(m)
  /\ \E S \in SUBSET req[r].accepted :
       queue' = queue \union {[req |-> r, msg |-> m, verified |-> req[r].facts.key # NoKey] :
                                m \in S}
  /\ Goto(r, "queued")
  /\ UNCHANGED <<world, pairingVars, device, nonces, override>>

\* The accepted SMS are sent to the queue; each send may fail, and the answer
\* says "queued" only if none did.
SendSms(r) ==
  /\ At(r, "check") /\ req[r].todo = <<>>
  /\ \A m \in req[r].accepted : IsSms(m)
  /\ \E S \in SUBSET req[r].accepted :
       /\ queue' = queue \union {[req |-> r, msg |-> m, verified |-> req[r].facts.key # NoKey] :
                                   m \in S}
       /\ Goto(r, IF S = req[r].accepted THEN "queued" ELSE "failed")
  /\ UNCHANGED <<world, pairingVars, device, nonces, override>>

\* UPDATE of public_key, whatever the row holds by now.
RotateKey(r) ==
  /\ At(r, "check") /\ req[r].todo = <<>>
  /\ \E m \in req[r].accepted :
       /\ ~IsSms(m)
       /\ device' = [device EXCEPT ![req[r].dev].facts.key = m.newKey]
  /\ Goto(r, "done")
  /\ UNCHANGED <<world, pairingVars, nonces, override, queue>>

\* The Worker dies between two awaits.
Crash(r) ==
  /\ req[r].pc \notin {"idle", "done", "failed", "queued"}
  /\ Goto(r, "failed")
  /\ UNCHANGED <<world, pairingVars, device, nonces, override, queue>>

\* Mutant of cleanupExpiredDeviceNonces: one window.
PurgesAfterOneWindow ==
  /\ nonces' = {n \in nonces : n.at + 1 >= clock}
  /\ UNCHANGED <<world, pairingVars, device, override, queue, req>>

\* The cron's purge: nonces older than two windows.
cleanupExpiredDeviceNonces ==
  /\ nonces' = {n \in nonces : n.at + 2 >= clock}
  /\ nonces' # nonces
  /\ UNCHANGED <<world, pairingVars, device, override, queue, req>>

handleRevocation(d) ==
  /\ Exists(d)
  /\ device' = [device EXCEPT ![d].status = "revoked"]
  /\ UNCHANGED <<world, pairingVars, nonces, override, queue, req>>
-----------------------------------------------------------------------------
(* Policy and overrides                                                    *)

\* PUT /device-policy replaces the row.
putDevicePolicy(p) ==
  /\ policy' = p
  /\ UNCHANGED <<clock, env, pairingVars, device, nonces, override, queue, req>>

\* PUT /device-policy/enforcement-mode leaves the rest of the row.
putEnforcementMode(mode) ==
  /\ policy' = [policy EXCEPT !.mode = mode]
  /\ UNCHANGED <<clock, env, pairingVars, device, nonces, override, queue, req>>

ActiveOverrides == {i \in DOMAIN override : override[i].active}

\* grantDeviceOverride reads the device and asks for an active override of it,
grantDeviceOverride(r, d) ==
  /\ device[d].status = "active"
  /\ ActiveFor(d) = {}
  /\ Start(r, [Idle EXCEPT !.pc = "quota", !.dev = d])
  /\ UNCHANGED <<world, pairingVars, device, nonces, override, queue>>

\* counts the merchant's active ones,
GrantQuota(r) ==
  /\ At(r, "quota")
  /\ Goto(r, IF Cardinality(ActiveOverrides) >= Quota THEN "done" ELSE "grant")
  /\ UNCHANGED <<world, pairingVars, device, nonces, override, queue>>

\* and inserts the row.
GrantInsert(r) ==
  /\ At(r, "grant")
  /\ Len(override) < MaxOverrides
  /\ override' = Append(override, [dev |-> req[r].dev, active |-> TRUE])
  /\ Goto(r, "done")
  /\ UNCHANGED <<world, pairingVars, device, nonces, queue>>

\* revokeDeviceOverride reads the newest active row of the device, then
\* updates it by its id.
revokeDeviceOverride(r, d) ==
  \E i \in ActiveFor(d) :
    /\ \A j \in ActiveFor(d) : j <= i
    /\ Start(r, [Idle EXCEPT !.pc = "revoke", !.dev = d, !.row = i])
    /\ UNCHANGED <<world, pairingVars, device, nonces, override, queue>>

RevokeOverride(r) ==
  /\ At(r, "revoke")
  /\ override' = [override EXCEPT ![req[r].row].active = FALSE]
  /\ Goto(r, "done")
  /\ UNCHANGED <<world, pairingVars, device, nonces, queue>>
-----------------------------------------------------------------------------
(* Time                                                                    *)

Tick ==
  /\ clock < MaxClock
  /\ \A r \in Requests : req[r].pc \notin {"override", "check", "nonce"}
  /\ clock' = clock + 1
  /\ UNCHANGED <<env, policy, pairingVars, device, nonces, override, queue, req>>

\* Longer spans: the lock of a token runs out, an attestation
\* grows stale, an override expires.
Unlock(o) ==
  /\ attempt[o] > 0
  /\ attempt' = [attempt EXCEPT ![o] = 0]
  /\ UNCHANGED <<world, otp, challenge, issued, device, nonces, override, queue, req>>

Stale(d) ==
  /\ Exists(d) /\ device[d].facts.verified = "fresh"
  /\ device' = [device EXCEPT ![d].facts.verified = "stale"]
  /\ UNCHANGED <<world, pairingVars, nonces, override, queue, req>>

ExpireOverride(i) ==
  /\ override[i].active
  /\ override' = [override EXCEPT ![i].active = FALSE]
  /\ UNCHANGED <<world, pairingVars, device, nonces, queue, req>>

Pairing(r) ==
  \/ \E o \in Otps : \/ handlePairInitiate(r, o)
                     \/ \E h \in Handsets, c \in 0..issued : handlePairing(r, o, h, c)
  \/ PutChallenge(r) \/ recordBadAttempt(r) \/ PairClaim(r) \/ PairAttest(r) \/ PairPolicy(r)
  \/ \E d \in Devices : PairInsert(r, d)

Forwarding(r) ==
  \/ \E d \in Devices : \/ \E m \in Messages : sms(r, d, m) \/ rotateKey(r, d, m)
                        \/ \E ms \in Batches : smsBatch(r, d, ms)
  \/ lookupActiveOverride(r) \/ Verify(r) \/ StoreNonce(r) \/ SendSms(r) \/ RotateKey(r)
  \/ Crash(r)

Overriding(r) ==
  \/ \E d \in Devices : grantDeviceOverride(r, d) \/ revokeDeviceOverride(r, d)
  \/ GrantQuota(r) \/ GrantInsert(r) \/ RevokeOverride(r)

Environment ==
  \/ \E d \in Devices : handleRevocation(d) \/ Stale(d)
  \/ \E p \in Policies : putDevicePolicy(p)
  \/ \E mode \in ModesPut : putEnforcementMode(mode)
  \/ \E o \in Otps : Unlock(o)
  \/ \E i \in DOMAIN override : ExpireOverride(i)
  \/ cleanupExpiredDeviceNonces
  \/ Tick

Next ==
  \/ \E r \in Requests : Pairing(r) \/ Forwarding(r) \/ Overriding(r)
  \/ Environment

Spec == Init /\ [][Next]_vars
-----------------------------------------------------------------------------
Pcs == {"idle", "done", "failed", "queued", "challenge", "attempt", "claim", "attest", "policy",
        "insert", "override", "check", "nonce", "quota", "grant", "revoke"}

TypeOK ==
  /\ clock \in Nat /\ env \in Environments /\ policy \in PolicyRows
  /\ otp \in [Otps -> BOOLEAN]
  /\ attempt \in [Otps -> 0..OTP_MAX_ATTEMPTS]
  /\ challenge \in [Otps -> [id: 0..MaxChallenges, at: Nat]]
  /\ issued \in 0..MaxChallenges
  /\ device \in [Devices -> {Unpaired} \union DeviceRows]
  /\ nonces \subseteq [dev: Devices, nonce: Nonces, at: Nat]
  /\ override \in Seq([dev: Devices, active: BOOLEAN])
  /\ queue \subseteq [req: Requests, msg: Messages, verified: BOOLEAN]
  /\ \A r \in Requests : req[r].pc \in Pcs

\* A pairing token makes one device at most, however many requests present it
\* at once (handlePairing's conditional UPDATE of used_at).
OneDevicePerOtp ==
  \A d, e \in Devices :
    Exists(d) /\ Exists(e) /\ device[d].by = device[e].by /\ d # e => device[d].by = NoOtp

\* A device paired with one of the tokens counts as attested only through the
\* request that used its token up, and what the row says of it is what a chain
\* of the pinned root proves of a key the hardware generated
\* (docs/SECURITY.md:49, 58-66).
AttestedByItsPairing ==
  \A d \in Devices : Exists(d) /\ device[d].by # NoOtp /\ device[d].facts.verified # "none" =>
    \E r \in Requests :
      /\ req[r].otp = device[d].by /\ req[r].body \in Handsets
      /\ LET chain == req[r].body.chain
         IN  /\ chain # NoChain
             /\ chain.root = "google" /\ chain.level # "software"
             /\ <<"origin", "generated">> \in chain.tee
             /\ device[d].facts.strong => chain.level = "strongbox"
             /\ ~device[d].facts.boot => env.allowUnverifiedBoot

\* Of the messages a handset signed with one nonce and timestamp, at most one
\* is ever queued, and once: neither a repeated delivery nor a second request at the same time
\* nor the purge of old nonces lets it through again (docs/SECURITY.md:76).
EnqueuedOnce ==
  \A a, b \in queue :
    /\ a.verified /\ b.verified
    /\ a.msg.dev = b.msg.dev
    /\ a.msg.nonce = b.msg.nonce /\ a.msg.ts = b.msg.ts
    => a = b

\* What the answer calls queued is in the queue.
QueuedIsEnqueued ==
  \A r \in Requests : At(r, "queued") =>
    \A m \in req[r].accepted : \E q \in queue : q.req = r /\ q.msg = m
=============================================================================
