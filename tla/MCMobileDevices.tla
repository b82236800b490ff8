--------------------------- MODULE MCMobileDevices ---------------------------
(* Instances of MobileDevices for TLC.                                      *)
EXTENDS MobileDevices, TLC

CONSTANTS d1, k1, k2, n1, n2

Env(sig) == [signatureRequired |-> sig, allowUnverifiedBoot |-> FALSE,
             allowUnlocked |-> FALSE, requireStrongBox |-> FALSE,
             tier |-> "basic", globalMode |-> "unset"]
MCEnvironments == {Env(TRUE), Env(FALSE)}
Row(tier, mode) == [min_tier |-> tier, minPatch |-> FALSE, strict |-> FALSE, mode |-> mode]
MCPolicies == {Row("basic", "audit"), Row("attested", "enforce")}

Cert == [parses |-> TRUE, current |-> TRUE, algorithm |-> TRUE, signed |-> TRUE]
\* The chain of a genuine handset, and one made in software.
Chain(level) ==
  [certs |-> <<Cert, Cert>>, root |-> "google", key |-> k1, extension |-> "complete",
   challenge |-> 0, level |-> level, sw |-> {},
   tee |-> {<<"origin", "generated">>, <<"purpose", "sign">>, <<"ec_curve", "p256">>,
            <<"boot_state", "verified">>, <<"locked", "yes">>, <<"os_patch_level", "recent">>}]
Handset(k, chain) == [key |-> k, chain |-> chain]
MCHandsets == {Handset(NoKey, NoChain), Handset(k1, Chain("tee")),
               Handset(k1, Chain("software")), Handset(k2, Chain("strongbox"))}

Message(k, n, ts, body, new) ==
  [dev |-> d1, key |-> k, nonce |-> n, ts |-> ts, body |-> body, newKey |-> new]
MCMessages == {Message(k1, n1, 1, "a", NoKey), Message(k1, n1, 1, "b", NoKey),
               Message(k2, n1, 2, "a", NoKey), Message(k1, n2, 1, "a", k2)}
MCBatches == {<<Message(k1, n1, 1, "a", NoKey), Message(k1, n1, 1, "b", NoKey)>>}

MCInitialDevices ==
  {[d \in Devices |-> IF d = d1 THEN Paired(NoOtp, Bare(k)) ELSE Unpaired] : k \in {k1, NoKey}}

Symmetry == Permutations(Requests) \union Permutations(Devices \ {d1})
=============================================================================
