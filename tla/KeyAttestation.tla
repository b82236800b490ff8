--------------------------- MODULE KeyAttestation ---------------------------
(***************************************************************************)
(* The verdict of AndroidKeyAttestationVerifier.verify on the certificate  *)
(* chain of a pairing handset (services/key-attestation.ts over            *)
(* lib/x509.ts and lib/asn1.ts).  The test root is never enabled by the    *)
(* pairing route (getAttestationVerifier passes no options).               *)
(*                                                                         *)
(* A certificate is what the verifier asks of it: it parses, is inside its *)
(* validity dates, uses an allowed algorithm, and the next one of the      *)
(* chain signed it.  The leaf carries a KeyDescription: its challenge,     *)
(* its security level, the tags of the software list, and the tags with    *)
(* their values of the list the hardware enforces.                         *)
(***************************************************************************)
EXTENDS Naturals, Sequences

Certs == [parses: BOOLEAN, current: BOOLEAN, algorithm: BOOLEAN, signed: BOOLEAN]
\* The integer of the description; "other" is any but the three it should be.
Levels == {"software", "tee", "strongbox", "other"}
KM_TAGS == {"all_applications", "origin", "purpose", "algorithm", "ec_curve",
            "boot_state", "locked", "os_patch_level"}
Values == {"yes", "generated", "imported", "sign", "decrypt", "ec", "rsa", "p256", "p384",
           "verified", "recent", "old"}
Chains(K) == [certs: Seq(Certs), root: {"google", "other"}, key: K,
              extension: {"missing", "malformed", "truncated", "complete"},
              challenge: Nat, level: Levels, sw: SUBSET KM_TAGS,
              tee: SUBSET (KM_TAGS \X Values)]

\* parseAuthorizationList: what a list says of a tag.
Has(list, tag) == \E v \in Values : <<tag, v>> \in list

\* verifyCertificateSignature by the next certificate; nothing signs the last.
Signed(certs, i) == i < Len(certs) => certs[i].signed

\* Dates and algorithm of every certificate; of all but the last, the
\* signature by its successor.  A mismatch of the names is only logged.
ChainHolds(certs) ==
  /\ Len(certs) \in 2..5
  /\ \A i \in DOMAIN certs :
       /\ certs[i].parses /\ certs[i].current /\ certs[i].algorithm
       /\ Signed(certs, i)

\* The last key is one of the two pinned ones.
RootTrusted(chain) == chain.root = "google"

\* The KeyDescription is there, complete, and answers the challenge.
DescriptionHolds(chain, expected) ==
  /\ chain.extension = "complete"
  /\ chain.challenge = expected

\* The security level; strong is StrongBox.
strong(chain) == chain.level = "strongbox"
\* Mutant of HardwareLevel: the level matters only where StrongBox is required.
AnyLevel(chain, options) == options.requireStrongBox => strong(chain)

\* Only the software level is turned away by name.
HardwareLevel(chain, options) ==
  /\ chain.level # "software"
  /\ options.requireStrongBox => strong(chain)

\* The authorization lists: scoped to an application, generated in the
\* hardware, for signing; algorithm and curve are only looked at when given.
KeyAuthorised(chain) ==
  /\ "all_applications" \notin chain.sw /\ ~Has(chain.tee, "all_applications")
  /\ chain.tee # {}
  /\ <<"origin", "generated">> \in chain.tee
  /\ <<"purpose", "sign">> \in chain.tee
  /\ Has(chain.tee, "algorithm") => <<"algorithm", "ec">> \in chain.tee
  /\ Has(chain.tee, "ec_curve") => <<"ec_curve", "p256">> \in chain.tee

\* RootOfTrust; absent, nothing is verified or locked.
verifiedBoot(chain) == <<"boot_state", "verified">> \in chain.tee
deviceLocked(chain) == <<"locked", "yes">> \in chain.tee
BootAccepted(chain, options) ==
  /\ verifiedBoot(chain) \/ options.allowUnverifiedBoot
  /\ deviceLocked(chain) \/ options.allowUnlocked

\* The patch level as policies compare it: recent enough or not (also not
\* when the tag is missing).
patchLevel(chain) == <<"os_patch_level", "recent">> \in chain.tee

\* The verdict.
verify(chain, expected, options) ==
  /\ ChainHolds(chain.certs)
  /\ RootTrusted(chain)
  /\ DescriptionHolds(chain, expected)
  /\ HardwareLevel(chain, options)
  /\ KeyAuthorised(chain)
  /\ BootAccepted(chain, options)
=============================================================================
