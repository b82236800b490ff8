---------------------------- MODULE DevicePolicy ----------------------------
(***************************************************************************)
(* The decisions of services/device-policy.ts: which tier a paired handset *)
(* reaches, which one its merchant requires, and whether falling short     *)
(* blocks the request.                                                     *)
(*                                                                         *)
(* facts: the attestation columns of op_paired_devices, with the key       *)
(* (NoKey for a device paired without one), attestation_verified_at as     *)
(* "none", "fresh" or "stale" (older than ATTESTATION_MAX_AGE_DAYS) and    *)
(* the patch level as "at least the merchant's minimum or not".            *)
(* policy: the merchant's row of op_merchant_device_policies.              *)
(* env: the variables of the deployment.                                   *)
(***************************************************************************)
EXTENDS Naturals

CONSTANT NoKey   \* public_key IS NULL

Tiers == {"keyless", "basic", "attested", "strongbox"}
Modes == {"off", "audit", "enforce"}
TIER_RANK == [keyless |-> 0, basic |-> 1, attested |-> 2, strongbox |-> 3]

Facts(K) == [key: K \union {NoKey}, verified: {"none", "fresh", "stale"},
             boot: BOOLEAN, strong: BOOLEAN, patched: BOOLEAN]
PolicyRows == [min_tier: Tiers, minPatch: BOOLEAN, strict: BOOLEAN, mode: Modes]
Envs == [signatureRequired: BOOLEAN, allowUnverifiedBoot: BOOLEAN, allowUnlocked: BOOLEAN,
         requireStrongBox: BOOLEAN, tier: {"basic", "attested", "strongbox"}, globalMode: Modes \union {"unset"}]

\* The stricter of the platform's tier and the merchant's.
resolvePolicy(env, row) ==
  IF TIER_RANK[row.min_tier] > TIER_RANK[env.tier] THEN row.min_tier ELSE env.tier

computeDeviceTier(env, row, facts) ==
  CASE facts.key = NoKey                            -> "keyless"
    [] facts.key # NoKey /\ ( \/ facts.verified # "fresh"
                              \/ ~env.allowUnverifiedBoot /\ ~facts.boot) -> "basic"
    [] OTHER -> IF facts.strong /\ (row.minPatch => facts.patched)
                THEN "strongbox" ELSE "attested"

\* A global "off" or "audit" replaces the merchant's mode (also "off" by
\* "audit"); otherwise the merchant's stands.
resolveEnforcementMode(env, row) ==
  IF env.globalMode \in {"off", "audit"} THEN env.globalMode ELSE row.mode

compliant(env, row, facts) ==
  TIER_RANK[computeDeviceTier(env, row, facts)] >= TIER_RANK[resolvePolicy(env, row)]

shouldBlock(env, row, facts) ==
  resolveEnforcementMode(env, row) = "enforce" /\ ~compliant(env, row, facts)
=============================================================================
