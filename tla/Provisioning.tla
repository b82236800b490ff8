---------------------------- MODULE Provisioning ----------------------------
(***************************************************************************)
(* How a deployment comes to hold merchants that work: the install wizard  *)
(* (controllers/install.ts), the self-healing bootstrap every isolate runs *)
(* while KV does not say "bootstrapped" (services/bootstrap.ts, index.ts), *)
(* the platform's creation of merchants and the claim of their credentials *)
(* (controllers/admin-api.ts), and the brands, stores and gates the        *)
(* merchants add (services/hierarchy.ts).                                  *)
(*                                                                         *)
(* None of the three is a transaction: each is a program of single         *)
(* statements, one action each, and may stop between any two.  The         *)
(* bootstrap looks before it inserts and resumes what it finds; the other  *)
(* two insert and fail on a UNIQUE constraint.  One seeded gateway stands  *)
(* for each of the configured ones (an iteration does not use the rows of  *)
(* another).  The migrations are applied.                                  *)
(***************************************************************************)
EXTENDS Naturals, Sequences, FiniteSets

CONSTANTS
  Isolates,      \* isolates: each runs one bootstrap at a time
  Requests,      \* requests to the wizard and to the platform's API
  Names,         \* slug and email of a merchant (both UNIQUE)
  PlatformName,  \* those the bootstrap uses
  NoStore,
  MaxMerchants,  \* merchants created
  MaxCrashes,    \* programs that stop half way
  Adding,        \* ids of the merchants that add brands, stores and gates
  MaxExtra       \* how many they add, as Counts weighs them

ASSUME NamesAssumption == PlatformName \in Names
ASSUME ActorsAssumption == Isolates \intersect Requests = {}
ASSUME BoundsAssumption == {MaxMerchants, MaxCrashes, MaxExtra} \union Adding \subseteq Nat

Runs == Isolates \union Requests
Ids == 1..MaxMerchants

\* Mutant of Programs: the credentials are offered as soon as there is a key.
ClaimBeforeGates ==
  [install   |-> <<"merchant", "brand", "store", "user", "chart", "key", "gateway", "gate",
                   "template", "otp", "installed">>,
   create    |-> <<"merchant", "brand", "store", "user", "chart", "key", "claim", "gateway",
                   "manual", "gate", "otp">>,
   bootstrap |-> <<"merchant", "brand", "store", "user", "chart", "gateway", "manual", "gate",
                   "template", "otp", "webhook", "key", "bootstrapped", "installed">>]

\* The steps of the three programs, in the order of their statements.
Programs ==
  [install   |-> <<"merchant", "brand", "store", "user", "chart", "key", "gateway", "gate",
                   "template", "otp", "installed">>,
   create    |-> <<"merchant", "brand", "store", "user", "chart", "key", "gateway", "manual",
                   "gate", "otp", "claim">>,
   bootstrap |-> <<"merchant", "brand", "store", "user", "chart", "gateway", "manual", "gate",
                   "template", "otp", "webhook", "key", "bootstrapped", "installed">>]

\* Rows kept as "merchant m has one".
Parts == {"user", "chart", "key", "gateway", "manual", "template", "otp", "webhook"}

Brands == [m: Ids, slug: {"main", "other"}]
Stores == [m: Ids, brand: Brands, slug: {"main"}]
Gates == [m: Ids, store: Stores, gatewayOf: Ids]

VARIABLES
  merchants,     \* op_merchants, in the order of their ids
  rows,          \* the parts each merchant has
  brands, stores, gates,
  fixedOtp,      \* DEFAULT_PAIRING_OTP is configured
  otpOf,         \* the merchant whose token is the configured one, or 0
  installed,     \* KV system:installed
  bootstrapped,  \* KV system:bootstrapped
  claims,        \* KV claim:{token}: merchants whose credentials wait
  claimed,       \* merchants whose credentials were handed out
  run,           \* the programs under way
  seeding,       \* the program that inserted a merchant's gateway, or that one
                 \* stopped before the gateway had its details and its gate
  crashes, extra

vars == <<merchants, rows, brands, stores, gates, fixedOtp, otpOf, installed, bootstrapped,
          claims, claimed, run, seeding, crashes, extra>>
hierarchy == <<brands, stores, gates>>
kv == <<installed, bootstrapped, claims, claimed>>
config == <<fixedOtp, crashes, extra>>

Idle == [prog |-> "idle", at |-> 1, write |-> FALSE, name |-> PlatformName, m |-> 0,
         store |-> NoStore]

Init ==
  /\ merchants = <<>>
  /\ rows = [m \in Ids |-> {}]
  /\ brands = {} /\ stores = {} /\ gates = {}
  /\ fixedOtp \in BOOLEAN
  /\ otpOf = 0
  /\ installed = FALSE /\ bootstrapped = FALSE
  /\ claims = {} /\ claimed = {}
  /\ run = [r \in Runs |-> Idle]
  /\ seeding = [m \in Ids |-> "none"]
  /\ crashes = 0 /\ extra = 0

Exists(m) == m \in DOMAIN merchants
IsPlatform(m) == Exists(m) /\ merchants[m].platform
Main(m) == [m |-> m, slug |-> "main"]
MainStore(m) == [m |-> m, brand |-> Main(m), slug |-> "main"]

Step(r) == Programs[run[r].prog][run[r].at]
At(r, step) == run[r].prog \in DOMAIN Programs /\ Step(r) = step
\* The program goes on n steps, or ends.
Advance(r, n) ==
  run' = [run EXCEPT ![r] = IF @.at + n > Len(Programs[@.prog]) THEN Idle
                            ELSE [run[r] EXCEPT !.at = @ + n, !.write = FALSE]]
\* The program stops: an exception, caught or not.
Throw(r) == run' = [run EXCEPT ![r] = Idle]
-----------------------------------------------------------------------------
(* The three programs start                                                *)

Begin(r, prog, name) ==
  /\ run[r].prog = "idle"
  /\ run' = [run EXCEPT ![r] = [Idle EXCEPT !.prog = prog, !.name = name]]
  /\ UNCHANGED <<merchants, rows, hierarchy, otpOf, seeding, kv, config>>

\* POST /install, while KV does not say "installed".
install(r, name) == ~installed /\ Begin(r, "install", name)

\* Any other request of an isolate that reads no "bootstrapped" and has no
\* bootstrap under way.
ensureSystemBootstrapped(r) == ~bootstrapped /\ Begin(r, "bootstrap", PlatformName)

\* An admin key of a platform merchant.
requirePlatformAdmin == \E m \in Ids : IsPlatform(m) /\ "key" \in rows[m]

\* POST /merchants.
createMerchant(r, name) == requirePlatformAdmin /\ Begin(r, "create", name)
-----------------------------------------------------------------------------
(* Their steps                                                             *)

\* Mutant of Looks: the bootstrap inserts like the wizard.
NeverLooks(r) == FALSE

\* Looks first: every step of the bootstrap that is not idempotent by itself.
Looks(r) ==
  /\ run[r].prog = "bootstrap"
  /\ ~run[r].write
  /\ Step(r) \notin {"brand", "store", "manual", "bootstrapped", "installed"}

\* Mutant of Found: a merchant that exists is taken to be complete.
AssumesComplete(r) == Step(r) # "webhook"

\* What the bootstrap finds of its merchant.  Of an OTP it draws, nothing.
Found(r) ==
  CASE Step(r) = "gate" -> \E g \in gates : g.store = run[r].store /\ g.gatewayOf = run[r].m
    [] Step(r) = "otp"  -> otpOf = run[r].m
    [] OTHER            -> Step(r) \in rows[run[r].m]

\* SELECT the platform merchant: adopt one, or insert.
LookForMerchant(r) ==
  /\ At(r, "merchant") /\ Looks(r)
  /\ \/ \E m \in Ids :
          /\ IsPlatform(m)
          /\ run' = [run EXCEPT ![r].m = m, ![r].at = @ + 1]
     \/ /\ \A m \in Ids : ~IsPlatform(m)
        /\ run' = [run EXCEPT ![r].write = TRUE]
  /\ UNCHANGED <<merchants, rows, hierarchy, otpOf, seeding, kv, config>>

\* SELECT a part; the gateway found, its details and its gate are skipped.
Look(r) ==
  /\ run[r].prog = "bootstrap" /\ ~At(r, "merchant") /\ Looks(r)
  /\ \/ Found(r) /\ Advance(r, IF Step(r) = "gateway" THEN 3 ELSE 1)
     \/ ~Found(r) /\ run' = [run EXCEPT ![r].write = TRUE]
  /\ UNCHANGED <<merchants, rows, hierarchy, otpOf, seeding, kv, config>>

\* INSERT INTO op_merchants; slug and email are UNIQUE.
InsertMerchant(r) ==
  /\ At(r, "merchant") /\ ~Looks(r)
  /\ IF \E m \in Ids : Exists(m) /\ merchants[m].name = run[r].name
       THEN Throw(r) /\ UNCHANGED merchants
       ELSE /\ Len(merchants) < MaxMerchants
            /\ merchants' = Append(merchants, [name |-> run[r].name,
                                               platform |-> run[r].prog # "create"])
            /\ run' = [run EXCEPT ![r].at = @ + 1, ![r].write = FALSE,
                                  ![r].m = Len(merchants) + 1]
  /\ UNCHANGED <<rows, hierarchy, otpOf, seeding, kv, config>>

\* provisionDefaultHierarchy: INSERT OR IGNORE of the brand, then of the
\* store; the store it returns is any of the merchant's with the slug "main".
ProvisionBrand(r) ==
  /\ At(r, "brand")
  /\ brands' = brands \union {Main(run[r].m)}
  /\ Advance(r, 1)
  /\ UNCHANGED <<merchants, rows, stores, gates, otpOf, seeding, kv, config>>

ProvisionStore(r) ==
  /\ At(r, "store")
  /\ stores' = stores \union {MainStore(run[r].m)}
  /\ \E s \in stores' :
       /\ s.m = run[r].m
       /\ run' = [run EXCEPT ![r].at = @ + 1, ![r].store = s]
  /\ UNCHANGED <<merchants, rows, brands, gates, otpOf, seeding, kv, config>>

\* A gateway of the merchant is UNIQUE; so is the token of an OTP.
Taken(r) ==
  \/ Step(r) = "gateway" /\ "gateway" \in rows[run[r].m]
  \/ Step(r) = "otp" /\ fixedOtp /\ run[r].prog # "create" /\ otpOf # 0

\* INSERT of a part of the merchant (the chart of accounts in one batch).
InsertPart(r) ==
  /\ run[r].prog \in DOMAIN Programs /\ ~Looks(r)
  /\ Step(r) \in Parts
  /\ IF Taken(r)
       THEN Throw(r) /\ UNCHANGED <<rows, otpOf, seeding>>
       ELSE /\ rows' = [rows EXCEPT ![run[r].m] = @ \union {Step(r)}]
            /\ otpOf' = IF Step(r) = "otp" /\ fixedOtp /\ run[r].prog # "create"
                          THEN run[r].m ELSE otpOf
            /\ seeding' = IF Step(r) = "gateway"
                            THEN [seeding EXCEPT ![run[r].m] = run[r].prog] ELSE seeding
            /\ Advance(r, 1)
  /\ UNCHANGED <<merchants, hierarchy, kv, config>>

\* createGate in the store provisionDefaultHierarchy returned.
InsertGate(r) ==
  /\ At(r, "gate") /\ ~Looks(r)
  /\ gates' = gates \union {[m |-> run[r].m, store |-> run[r].store, gatewayOf |-> run[r].m]}
  /\ Advance(r, 1)
  /\ UNCHANGED <<merchants, rows, brands, stores, otpOf, seeding, kv, config>>

\* The flags, and the encrypted credentials under a claim token.
PutFlag(r) ==
  /\ \/ /\ At(r, "installed")
        /\ installed' = TRUE
        /\ UNCHANGED bootstrapped
     \/ /\ At(r, "bootstrapped")
        /\ bootstrapped' = TRUE
        /\ UNCHANGED installed
  /\ Advance(r, 1)
  /\ UNCHANGED <<merchants, rows, hierarchy, otpOf, seeding, claims, claimed, config>>

\* Mutant of PutClaim: the id of the row is guessed.
ClaimsNextId(r) ==
  /\ At(r, "claim")
  /\ claims' = claims \union {run[r].m + 1}
  /\ Advance(r, 1)
  /\ UNCHANGED <<merchants, rows, hierarchy, otpOf, seeding, installed, bootstrapped, claimed, config>>

PutClaim(r) ==
  /\ At(r, "claim")
  /\ claims' = claims \union {run[r].m}
  /\ Advance(r, 1)
  /\ UNCHANGED <<merchants, rows, hierarchy, otpOf, seeding, installed, bootstrapped, claimed, config>>

\* The program r has inserted its merchant's gateway and not yet its gate.
Seeding(r) == At(r, "manual") \/ At(r, "gate")

\* A program stops between two statements.
Crash(r) ==
  /\ run[r].prog # "idle"
  /\ crashes < MaxCrashes
  /\ crashes' = crashes + 1
  /\ Throw(r)
  /\ seeding' = IF Seeding(r) THEN [seeding EXCEPT ![run[r].m] = "stopped"] ELSE seeding
  /\ UNCHANGED <<merchants, rows, hierarchy, otpOf, kv, fixedOtp, extra>>
-----------------------------------------------------------------------------
(* Credentials, and what merchants add                                     *)

\* POST /merchants/claim: KV get, then delete.
claim(r, m) ==
  /\ requirePlatformAdmin
  /\ m \in claims
  /\ run[r].prog = "idle"
  /\ run' = [run EXCEPT ![r] = [Idle EXCEPT !.prog = "claiming", !.m = m]]
  /\ UNCHANGED <<merchants, rows, hierarchy, otpOf, seeding, kv, config>>

ClaimDelete(r) ==
  /\ run[r].prog = "claiming"
  /\ claims' = claims \ {run[r].m}
  /\ claimed' = claimed \union {run[r].m}
  /\ Throw(r)
  /\ UNCHANGED <<merchants, rows, hierarchy, otpOf, seeding, installed, bootstrapped, config>>

\* The credentials wait for 15 minutes.
ClaimExpires(m) ==
  /\ m \in claims
  /\ claims' = claims \ {m}
  /\ UNCHANGED <<merchants, rows, hierarchy, otpOf, seeding, installed, bootstrapped, claimed, run, config>>

\* POST /install/bootstrap-key with the password of a user.
bootstrapKey(m) ==
  /\ "user" \in rows[m] /\ "key" \notin rows[m]
  /\ rows' = [rows EXCEPT ![m] = @ \union {"key"}]
  /\ UNCHANGED <<merchants, hierarchy, otpOf, seeding, kv, run, config>>

\* n more, within the bound: a brand or a store counts one, a gate two.
Counts(m, n) == m \in Adding /\ extra + n <= MaxExtra /\ extra' = extra + n
\* Added by the merchant itself, with its key.
More(m, n) == "key" \in rows[m] /\ Counts(m, n)

\* POST /brands, /brands/{id}/stores: the brand must be the merchant's, the
\* slug new.
createBrand(m) ==
  /\ More(m, 1)
  /\ [m |-> m, slug |-> "other"] \notin brands
  /\ brands' = brands \union {[m |-> m, slug |-> "other"]}
  /\ UNCHANGED <<merchants, rows, stores, gates, otpOf, seeding, kv, run, fixedOtp, crashes>>

createStore(m, b) ==
  /\ More(m, 1)
  /\ b.m = m
  /\ [m |-> m, brand |-> b, slug |-> "main"] \notin stores
  /\ stores' = stores \union {[m |-> m, brand |-> b, slug |-> "main"]}
  /\ UNCHANGED <<merchants, rows, brands, gates, otpOf, seeding, kv, run, fixedOtp, crashes>>

\* Mutant of createGate: the store is found whoever owns it.
GateInAnyStore(m, s, owner) ==
  /\ More(m, 2)
  /\ "gateway" \in rows[owner]
  /\ gates' = gates \union {[m |-> m, store |-> s, gatewayOf |-> owner]}
  /\ UNCHANGED <<merchants, rows, brands, stores, otpOf, seeding, kv, run, fixedOtp, crashes>>

\* POST /stores/{id}/gates: the store must be the merchant's; of the gateway
\* only the foreign key is checked.
createGate(m, s, owner) ==
  /\ More(m, 2)
  /\ s.m = m
  /\ "gateway" \in rows[owner]
  /\ gates' = gates \union {[m |-> m, store |-> s, gatewayOf |-> owner]}
  /\ UNCHANGED <<merchants, rows, brands, stores, otpOf, seeding, kv, run, fixedOtp, crashes>>

\* POST /merchants/{id}/gates by the platform: store and gateway must both be
\* the merchant's.
createGateFor(m, s) ==
  /\ requirePlatformAdmin
  /\ Counts(m, 2)
  /\ s.m = m
  /\ "gateway" \in rows[m]
  /\ gates' = gates \union {[m |-> m, store |-> s, gatewayOf |-> m]}
  /\ UNCHANGED <<merchants, rows, brands, stores, otpOf, seeding, kv, run, fixedOtp, crashes>>

Continue(r) ==
  \/ LookForMerchant(r) \/ Look(r) \/ InsertMerchant(r) \/ ProvisionBrand(r) \/ ProvisionStore(r)
  \/ InsertPart(r) \/ InsertGate(r) \/ PutFlag(r) \/ PutClaim(r) \/ ClaimDelete(r)

Next ==
  \/ \E r \in Isolates : ensureSystemBootstrapped(r)
  \/ \E r \in Requests :
       \/ \E name \in Names : install(r, name) \/ createMerchant(r, name)
       \/ \E m \in Ids : claim(r, m)
  \/ \E r \in Runs : Continue(r) \/ Crash(r)
  \/ \E m \in Ids : \/ bootstrapKey(m)
                    \/ createBrand(m)
                    \/ \E b \in brands : createStore(m, b)
                    \/ \E s \in stores, owner \in Ids : createGate(m, s, owner)
                    \/ \E s \in stores : createGateFor(m, s)
                    \/ ClaimExpires(m)

Spec == Init /\ [][Next]_vars

\* A program that is not stopped goes on; every isolate serves requests.
Fairness ==
  /\ \A r \in Runs : WF_vars(Continue(r))
  /\ \A r \in Isolates : WF_vars(ensureSystemBootstrapped(r))
FairSpec == Spec /\ Fairness
-----------------------------------------------------------------------------
(* Properties                                                              *)

\* Types of the rows, the keys of KV and the programs.
TypeOK ==
  /\ merchants \in Seq([name: Names, platform: BOOLEAN]) /\ Len(merchants) <= MaxMerchants
  /\ rows \in [Ids -> SUBSET Parts]
  /\ brands \subseteq Brands /\ stores \subseteq Stores /\ gates \subseteq Gates
  /\ fixedOtp \in BOOLEAN
  /\ otpOf \in 0..MaxMerchants
  /\ installed \in BOOLEAN /\ bootstrapped \in BOOLEAN
  /\ claims \subseteq Ids /\ claimed \subseteq Ids
  /\ \A r \in Runs : /\ run[r].prog \in DOMAIN Programs \union {"idle", "claiming"}
                      /\ run[r].m \in 0..MaxMerchants
  /\ seeding \in [Ids -> DOMAIN Programs \union {"none", "stopped"}]
  /\ crashes \in 0..MaxCrashes /\ extra \in 0..MaxExtra

\* What every merchant needs to take a payment: the Main store (device
\* pairing and checkout resolve it), a user, a chart of accounts, a key.
Usable(m) ==
  /\ Main(m) \in brands /\ MainStore(m) \in stores
  /\ {"user", "chart", "key"} \subseteq rows[m]

\* A gate of its own gateway in a store of its own.
HasGate(m) == \E g \in gates : g.m = m /\ g.store.m = m /\ g.gatewayOf = m

\* The gateway of m has its gate, without which checkout offers nothing
\* (docs/OPS.md), and its manual details, which the wizard does not write;
\* or the program that inserted it is at that, or stopped there, after which
\* no bootstrap adds them: it skips both for a gateway it finds.
Seeded(m) ==
  \/ HasGate(m) /\ (seeding[m] = "install" \/ "manual" \in rows[m])
  \/ \E r \in Runs : run[r].m = m /\ Seeding(r)
  \/ seeding[m] = "stopped"

\* Once KV says installed there is a platform merchant that works, and once it
\* says bootstrapped one that has all that the bootstrap seeds, whoever of the
\* wizard and the isolates made its rows and wherever they stopped; but for
\* the details and the gate of a gateway whose program stopped before them.
InstalledIsUsable ==
  /\ installed => \E m \in Ids : IsPlatform(m) /\ Usable(m)
  /\ bootstrapped =>
       \E m \in Ids : /\ IsPlatform(m) /\ Usable(m)
                      /\ {"gateway", "template", "otp", "webhook"} \subseteq rows[m]
  /\ \A m \in Ids : "gateway" \in rows[m] => Seeded(m)

\* Credentials are only ever offered of a merchant that is complete: a gate
\* of its own gateway in a store of its own included.
ClaimedIsComplete ==
  \A m \in claims \union claimed :
    Usable(m) /\ {"gateway", "manual", "otp"} \subseteq rows[m] /\ HasGate(m)

\* Stores hang under brands, and gates under stores, of their own merchant.
TenantIntegrity ==
  /\ \A s \in stores : s.brand.m = s.m
  /\ \A g \in gates : g.store \in stores /\ g.store.m = g.m

\* The bootstrap gets done, however often it is stopped or overtaken, unless
\* the configured OTP went to another platform merchant than the one it
\* works on.
BootstrapCompletes ==
  <>(bootstrapped \/ (otpOf # 0 /\ \E m \in Ids : IsPlatform(m) /\ m # otpOf))
=============================================================================
