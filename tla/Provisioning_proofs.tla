------------------------ MODULE Provisioning_proofs ------------------------
(***************************************************************************)
(* Provisioning, proved for any isolates, requests, names and bounds.      *)
(*                                                                         *)
(* Nothing the flags and the claims promise is checked when they are       *)
(* written: it follows from where in its program the writer is.  StepsDone *)
(* says so: what the steps before the present one were for is there, of    *)
(* the merchant and in the store the program works on.  It is kept by the  *)
(* programs beside it because no row is ever taken away.  SeedInv says who *)
(* works on a gateway that has no gate yet: the program that inserted it.  *)
(***************************************************************************)
EXTENDS Provisioning, TLAPS

RunRows ==
  [prog: DOMAIN Programs \union {"idle", "claiming"}, at: Nat \ {0}, write: BOOLEAN,
   name: Names, m: 0..MaxMerchants, store: Stores \union {NoStore}]

Running(r) == run[r].prog \in DOMAIN Programs

RunShape ==
  /\ run \in [Runs -> RunRows]
  /\ \A r \in Runs : Running(r) => run[r].at <= Len(Programs[run[r].prog])

OtpIsHad == otpOf # 0 => "otp" \in rows[otpOf]

\* What the program leaves of a step, for merchant m.  The bootstrap that
\* finds the gateway skips its details and its gate.
Done(r, step) ==
  LET m == run[r].m
  IN  /\ step = "merchant" => Exists(m) /\ merchants[m].platform = (run[r].prog # "create")
      /\ step = "brand" => Main(m) \in brands
      /\ step = "store" => /\ MainStore(m) \in stores
                           /\ run[r].store \in stores /\ run[r].store.m = m
      /\ step \in Parts /\ ~(step = "manual" /\ run[r].prog = "bootstrap") => step \in rows[m]
      /\ step = "gate" /\ run[r].prog # "bootstrap" => HasGate(m)

StepsDone ==
  \A r \in Runs : Running(r) =>
    \A i \in 1..run[r].at - 1 : Done(r, Programs[run[r].prog][i])

Complete(m) ==
  Usable(m) /\ {"gateway", "manual", "otp"} \subseteq rows[m] /\ HasGate(m)

ClaimingIsComplete ==
  \A r \in Runs : run[r].prog = "claiming" => run[r].m \in Ids /\ Complete(run[r].m)

\* A program between its gateway and its gate is the one that inserted the
\* gateway, and before the gate it has written the details, if it writes any.
SeedOf(r) ==
  LET m == run[r].m
  IN  /\ seeding[m] \in {run[r].prog, "stopped"}
      /\ At(r, "gate") => run[r].prog = "install" \/ "manual" \in rows[m]

SeedInv == \A r \in Runs : Seeding(r) => SeedOf(r)

SafetyInv ==
  /\ TypeOK /\ RunShape /\ OtpIsHad /\ StepsDone /\ ClaimingIsComplete /\ SeedInv
  /\ InstalledIsUsable /\ ClaimedIsComplete /\ TenantIntegrity
-----------------------------------------------------------------------------
(* The programs                                                            *)

LEMMA ProgramLengths ==
  /\ DOMAIN Programs = {"install", "create", "bootstrap"}
  /\ Len(Programs["install"]) = 11
  /\ Len(Programs["create"]) = 11
  /\ Len(Programs["bootstrap"]) = 14
  BY DEF Programs

LEMMA ProgramKinds ==
  ASSUME NEW p \in DOMAIN Programs
  PROVE  p \notin {"claiming", "idle"} /\ Len(Programs[p]) \in Nat /\ Len(Programs[p]) > 10
<1>1. p = "install" \/ p = "create" \/ p = "bootstrap"
  BY ProgramLengths
<1>2. CASE p = "install"
  BY <1>2, ProgramLengths
<1>3. CASE p = "create"
  BY <1>3, ProgramLengths
<1>4. CASE p = "bootstrap"
  BY <1>4, ProgramLengths
<1> QED BY <1>1, <1>2, <1>3, <1>4

LEMMA FirstSteps ==
  ASSUME NEW p \in DOMAIN Programs
  PROVE  Programs[p][1] = "merchant" /\ Programs[p][2] = "brand" /\ Programs[p][3] = "store"
  BY DEF Programs

\* Where in a program a step is.
LEMMA StepsAt ==
  ASSUME NEW p \in DOMAIN Programs, NEW i \in 1..Len(Programs[p])
  PROVE  /\ Programs[p][i] = "merchant" => i = 1
         /\ Programs[p][i] = "brand" => i = 2
         /\ Programs[p][i] = "store" => i = 3
         /\ Programs[p][i] = "gate" => i > 3
         /\ Programs[p][i] \in Parts => i > 3
         /\ Programs[p][i] = "gateway" /\ p = "bootstrap" => i = 6
         /\ Programs[p][i] = "claim" => p = "create" /\ i = 11
         /\ Programs[p][i] = "bootstrapped" => p = "bootstrap" /\ i = 13
         /\ Programs[p][i] = "installed" =>
              (p = "install" /\ i = 11) \/ (p = "bootstrap" /\ i = 14)
<1>1. CASE p = "install"
  <2>1. i \in 1..11
    BY <1>1, ProgramLengths
  <2> QED BY <1>1, <2>1 DEF Programs, Parts
<1>2. CASE p = "create"
  <2>1. i \in 1..11
    BY <1>2, ProgramLengths
  <2> QED BY <1>2, <2>1 DEF Programs, Parts
<1>3. CASE p = "bootstrap"
  <2>1. i \in 1..7 \/ i \in 8..14
    BY <1>3, ProgramLengths
  <2>2. CASE i \in 1..7
    BY <1>3, <2>2 DEF Programs, Parts
  <2>3. CASE i \in 8..14
    BY <1>3, <2>3 DEF Programs, Parts
  <2> QED BY <2>1, <2>2, <2>3
<1> QED BY <1>1, <1>2, <1>3, ProgramLengths

\* What is behind a program that writes a flag or a claim.
LEMMA StepsBehind ==
  /\ \A step \in {"merchant", "brand", "store", "user", "chart", "key", "gateway", "manual", "gate", "otp"} :
       \E i \in 1..10 : Programs["create"][i] = step
  /\ \A step \in {"merchant", "brand", "store", "user", "chart", "key"} :
       \E i \in 1..10 : Programs["install"][i] = step
  /\ \A step \in {"merchant", "brand", "store", "user", "chart", "gateway", "template", "otp",
                  "webhook", "key"} :
       \E i \in 1..12 : Programs["bootstrap"][i] = step
<1>1. \A step \in {"merchant", "brand", "store", "user", "chart", "key", "gateway", "manual", "gate", "otp"} :
        \E i \in 1..10 : Programs["create"][i] = step
  BY DEF Programs
<1>2. \A step \in {"merchant", "brand", "store", "user", "chart", "key"} :
        \E i \in 1..10 : Programs["install"][i] = step
  BY DEF Programs
<1>3. \A step \in {"merchant", "brand", "store", "user", "chart", "gateway", "template", "otp",
                   "webhook", "key"} :
        \E i \in 1..12 : Programs["bootstrap"][i] = step
  BY DEF Programs
<1> QED BY <1>1, <1>2, <1>3
-----------------------------------------------------------------------------
(* Rows are only ever added                                                *)

RowsGrow ==
  /\ \A m \in Ids : Exists(m) => m \in DOMAIN merchants' /\ merchants'[m] = merchants[m]
  /\ \A m \in Ids : rows[m] \subseteq rows'[m]
  /\ brands \subseteq brands' /\ stores \subseteq stores' /\ gates \subseteq gates'

LEMMA Grows == TypeOK /\ [Next]_vars => RowsGrow
<1> SUFFICES ASSUME TypeOK, [Next]_vars PROVE RowsGrow
  OBVIOUS
<1> USE DEF RowsGrow, Exists, hierarchy, kv, config
<1>1. ASSUME UNCHANGED <<merchants, rows, hierarchy>> PROVE RowsGrow
  BY <1>1
<1>2. ASSUME NEW r \in Runs, InsertMerchant(r) PROVE RowsGrow
  <2>1. merchants' = merchants \/ \E x : merchants' = Append(merchants, x)
    BY <1>2 DEF InsertMerchant
  <2>0. merchants \in Seq([name: Names, platform: BOOLEAN])
    BY DEF TypeOK
  <2>2. \A m \in DOMAIN merchants : m \in DOMAIN merchants' /\ merchants'[m] = merchants[m]
    <3>1. CASE merchants' = merchants
      BY <3>1
    <3>2. ASSUME NEW x, merchants' = Append(merchants, x)
          PROVE  \A m \in DOMAIN merchants : m \in DOMAIN merchants' /\ merchants'[m] = merchants[m]
      BY <2>0, <3>2
    <3> QED BY <2>1, <3>1, <3>2
  <2> QED BY <1>2, <2>2 DEF InsertMerchant
<1>3. ASSUME NEW r \in Runs, InsertPart(r) PROVE RowsGrow
  <2>1. rows' = rows \/ rows' = [rows EXCEPT ![run[r].m] = @ \union {Step(r)}]
    BY <1>3 DEF InsertPart
  <2>2. \A m \in Ids : rows[m] \subseteq rows'[m]
    BY <2>1 DEF TypeOK
  <2> QED BY <1>3, <2>2 DEF InsertPart
<1>4. ASSUME NEW m \in Ids, bootstrapKey(m) PROVE RowsGrow
  <2>1. \A n \in Ids : rows[n] \subseteq rows'[n]
    BY <1>4 DEF TypeOK, bootstrapKey
  <2> QED BY <1>4, <2>1 DEF bootstrapKey
<1>5. ASSUME NEW r \in Runs, ProvisionBrand(r) \/ ProvisionStore(r) \/ InsertGate(r) PROVE RowsGrow
  BY <1>5 DEF ProvisionBrand, ProvisionStore, InsertGate
<1>6. ASSUME NEW m \in Ids,
             \/ createBrand(m) \/ (\E b \in brands : createStore(m, b))
             \/ (\E s \in stores, owner \in Ids : createGate(m, s, owner))
             \/ (\E s \in stores : createGateFor(m, s))
      PROVE  RowsGrow
  BY <1>6 DEF createBrand, createStore, createGate, createGateFor
<1>7. ASSUME NEW r \in Runs, LookForMerchant(r) \/ Look(r) \/ PutFlag(r) \/ PutClaim(r)
                              \/ ClaimDelete(r) \/ Crash(r)
      PROVE  UNCHANGED <<merchants, rows, hierarchy>>
  BY <1>7 DEF LookForMerchant, Look, PutFlag, PutClaim, ClaimDelete, Crash
<1>8. ASSUME NEW r \in Runs, NEW prog, NEW name, Begin(r, prog, name)
      PROVE  UNCHANGED <<merchants, rows, hierarchy>>
  BY <1>8 DEF Begin
<1>9. ASSUME NEW m \in Ids, ClaimExpires(m) \/ (\E r \in Requests : claim(r, m))
      PROVE  UNCHANGED <<merchants, rows, hierarchy>>
  BY <1>9 DEF ClaimExpires, claim
<1>10. UNCHANGED vars => UNCHANGED <<merchants, rows, hierarchy>>
  BY DEF vars
<1>11. Isolates \subseteq Runs /\ Requests \subseteq Runs
  BY DEF Runs
<1> QED BY <1>1, <1>2, <1>3, <1>4, <1>5, <1>6, <1>7, <1>8, <1>9, <1>10, <1>11
    DEF Next, Continue, install, createMerchant, ensureSystemBootstrapped

\* What is there stays.
LEMMA Kept ==
  ASSUME RowsGrow, NEW m \in Ids
  PROVE  /\ IsPlatform(m) => IsPlatform(m)'
         /\ Usable(m) => Usable(m)'
         /\ HasGate(m) => HasGate(m)'
         /\ Complete(m) => Complete(m)'
<1>1. IsPlatform(m) => IsPlatform(m)'
  BY DEF RowsGrow, IsPlatform, Exists
<1>2. Usable(m) => Usable(m)'
  BY DEF RowsGrow, Usable
<1>3. HasGate(m) => HasGate(m)'
  BY DEF RowsGrow, HasGate
<1> QED BY <1>1, <1>2, <1>3 DEF Complete, RowsGrow

LEMMA DoneKept ==
  ASSUME RowsGrow, NEW r \in Runs, NEW step, run[r].m \in Ids, Done(r, step),
         run'[r].prog = run[r].prog, run'[r].m = run[r].m,
         run'[r].store = run[r].store \/ step \in {"merchant", "brand"}
  PROVE  Done(r, step)'
<1> DEFINE m == run[r].m
<1>1. m \in Ids /\ m = m' /\ run'[r].prog = run[r].prog
  OBVIOUS
<1>2. step = "merchant" => m \in DOMAIN merchants' /\ merchants'[m].platform = (run[r].prog # "create")
  BY <1>1 DEF Done, RowsGrow, Exists
<1>3. step \in Parts /\ ~(step = "manual" /\ run[r].prog = "bootstrap") => step \in rows'[m]
  BY <1>1 DEF Done, RowsGrow
<1>4. step = "gate" /\ run[r].prog # "bootstrap" => HasGate(m)'
  BY <1>1, Kept DEF Done
<1>5. step = "brand" => Main(m) \in brands'
  BY <1>1 DEF Done, RowsGrow
<1>6. step = "store" => /\ MainStore(m) \in stores'
                        /\ run'[r].store \in stores' /\ run'[r].store.m = m
  BY <1>1 DEF Done, RowsGrow
<1> HIDE DEF m
<1> QED BY <1>1, <1>2, <1>3, <1>4, <1>5, <1>6 DEF Done, Main, MainStore, Exists, HasGate, m

\* A program past its first step has its merchant.
LEMMA HasMerchant ==
  ASSUME SafetyInv, NEW r \in Runs, Running(r), run[r].at > 1
  PROVE  /\ run[r].m \in Ids /\ Exists(run[r].m)
         /\ merchants[run[r].m].platform = (run[r].prog # "create")
<1>1. 1 \in 1..run[r].at - 1
  <2>1. run[r].at \in Nat
    BY DEF SafetyInv, RunShape, RunRows
  <2> QED BY <2>1
<1>2. Done(r, "merchant")
  BY <1>1, FirstSteps DEF SafetyInv, StepsDone, Running
<1>3. run[r].m \in DOMAIN merchants
  BY <1>2 DEF Done, Exists
<1>4. Len(merchants) \in Nat /\ Len(merchants) <= MaxMerchants /\ DOMAIN merchants = 1..Len(merchants)
  BY DEF SafetyInv, TypeOK
<1>5. MaxMerchants \in Nat
  BY BoundsAssumption
<1> QED BY <1>2, <1>3, <1>4, <1>5 DEF Done, Ids
-----------------------------------------------------------------------------
(* A step seen from the programs                                           *)

ProgramsInv == RunShape /\ StepsDone /\ ClaimingIsComplete

\* No program moves.
LEMMA NoneMoves ==
  ASSUME SafetyInv, RowsGrow, UNCHANGED run PROVE ProgramsInv'
<1>1. RunShape'
  BY DEF SafetyInv, RunShape, Running
<1>2. StepsDone'
  <2> SUFFICES ASSUME NEW r \in Runs, Running(r), NEW i \in 1..run[r].at - 1
               PROVE  Done(r, Programs[run[r].prog][i])'
    BY DEF StepsDone, Running
  <2>1. run[r].at \in Nat
    BY DEF SafetyInv, RunShape, RunRows
  <2>2. run[r].m \in Ids
    BY <2>1, HasMerchant
  <2>3. Done(r, Programs[run[r].prog][i])
    BY DEF SafetyInv, StepsDone
  <2> QED BY <2>2, <2>3, DoneKept
<1>3. ClaimingIsComplete'
  BY Kept DEF SafetyInv, ClaimingIsComplete
<1> QED BY <1>1, <1>2, <1>3 DEF ProgramsInv

\* One program moves, to a row whose steps are done.
LEMMA OneMoves ==
  ASSUME SafetyInv, RowsGrow, NEW r \in Runs, NEW row \in RunRows,
         run' = [run EXCEPT ![r] = row],
         row.prog \in DOMAIN Programs =>
           /\ row.at <= Len(Programs[row.prog])
           /\ \A i \in 1..row.at - 1 : Done(r, Programs[row.prog][i])',
         row.prog = "claiming" => row.m \in Ids /\ Complete(row.m)
  PROVE  ProgramsInv'
<1>1. /\ run'[r] = row /\ run' \in [Runs -> RunRows]
      /\ \A s \in Runs : s # r => run'[s] = run[s]
  BY DEF SafetyInv, RunShape
<1>2. RunShape'
  BY <1>1 DEF SafetyInv, RunShape, Running
<1>3. StepsDone'
  <2> SUFFICES ASSUME NEW s \in Runs, Running(s)', NEW i \in 1..run'[s].at - 1
               PROVE  Done(s, Programs[run[s].prog][i])'
    BY DEF StepsDone
  <2>1. CASE s = r
    BY <1>1, <2>1 DEF Running
  <2>2. CASE s # r
    <3>1. run'[s] = run[s] /\ run[s].at \in Nat /\ Running(s) /\ i \in 1..run[s].at - 1
      BY <1>1, <2>2 DEF SafetyInv, RunShape, RunRows, Running
    <3>2. run[s].m \in Ids
      BY <3>1, HasMerchant
    <3>3. Done(s, Programs[run[s].prog][i])
      BY <3>1 DEF SafetyInv, StepsDone
    <3>4. Done(s, Programs[run[s].prog][i])'
      <4> DEFINE step == Programs[run[s].prog][i]
      <4>1. step' = step
        BY <3>1
      <4> HIDE DEF step
      <4> QED BY <3>1, <3>2, <3>3, <4>1, DoneKept DEF step
    <3> QED BY <3>4
  <2> QED BY <2>1, <2>2
<1>4. ClaimingIsComplete'
  <2>1. ASSUME NEW s \in Runs, run'[s].prog = "claiming"
        PROVE  run'[s].m \in Ids /\ Complete(run'[s].m)
    BY <1>1, <2>1 DEF SafetyInv, ClaimingIsComplete
  <2>2. \A m \in Ids : Complete(m) => Complete(m)'
    BY Kept
  <2>3. ASSUME NEW s \in Runs, run'[s].prog = "claiming"
        PROVE  (run[s].m \in Ids /\ Complete(run[s].m))'
    <3> DEFINE m == run'[s].m
    <3>1. m \in Ids /\ Complete(m)
      BY <2>1, <2>3
    <3> QED BY <2>2, <3>1
  <2> QED BY <2>3 DEF ClaimingIsComplete
<1> QED BY <1>2, <1>3, <1>4 DEF ProgramsInv

LEMMA IdleRow == Idle \in RunRows /\ Idle.prog = "idle"
BY NamesAssumption, BoundsAssumption DEF Idle, RunRows

\* A program stops.
LEMMA Stops ==
  ASSUME SafetyInv, RowsGrow, NEW r \in Runs, run' = [run EXCEPT ![r] = Idle]
  PROVE  ProgramsInv'
<1>1. Idle.prog \notin DOMAIN Programs /\ Idle.prog # "claiming"
  BY IdleRow, ProgramLengths
<1>2. PICK row : row = Idle
  OBVIOUS
<1> QED BY <1>1, <1>2, IdleRow, OneMoves

\* A program goes on n steps, with the merchant and the store it has.
LEMMA Advances ==
  ASSUME SafetyInv, RowsGrow, NEW r \in Runs, NEW n \in {1, 3}, NEW p, NEW a,
         p = run[r].prog, a = run[r].at, p \in DOMAIN Programs, a > 1, Advance(r, n),
         \A i \in a..a + n - 1 :
           run'[r].prog = p /\ run'[r].m = run[r].m /\ run'[r].store = run[r].store =>
             Done(r, Programs[p][i])'
  PROVE  ProgramsInv'
<1>0. Running(r) /\ run[r] \in RunRows /\ a \in Nat /\ run[r].m \in Ids
  BY HasMerchant DEF SafetyInv, RunShape, RunRows, Running
<1>1. CASE a + n > Len(Programs[p])
  <2>1. run' = [run EXCEPT ![r] = Idle]
    BY <1>1 DEF Advance
  <2> QED BY <2>1, Stops
<1>2. CASE ~(a + n > Len(Programs[p]))
  <2>1. PICK row : row = [run[r] EXCEPT !.at = a + n, !.write = FALSE]
    OBVIOUS
  <2>2. run' = [run EXCEPT ![r] = row]
    <3>1. ~(run[r].at + n > Len(Programs[run[r].prog]))
      BY <1>2
    <3>2. run' = [run EXCEPT ![r] = IF run[r].at + n > Len(Programs[run[r].prog]) THEN Idle
                                    ELSE [run[r] EXCEPT !.at = run[r].at + n, !.write = FALSE]]
      BY DEF Advance
    <3> QED BY <2>1, <3>1, <3>2
  <2>3. /\ row \in RunRows /\ row.at = a + n /\ row.prog = p
        /\ row.m = run[r].m /\ row.store = run[r].store
    <3>1. a + n \in Nat \ {0}
      BY <1>0
    <3> QED BY <1>0, <2>1, <3>1 DEF RunRows
  <2>4. run'[r] = row
    BY <2>2 DEF SafetyInv, RunShape
  <2>5. ASSUME NEW i \in 1..row.at - 1 PROVE Done(r, Programs[p][i])'
    <3>1. CASE i \in 1..a - 1
      <4>1. Done(r, Programs[p][i])
        BY <1>0, <3>1 DEF SafetyInv, StepsDone
      <4> QED BY <1>0, <2>3, <2>4, <4>1, DoneKept
    <3>2. CASE i \in a..a + n - 1
      BY <2>3, <2>4, <3>2
    <3> QED BY <1>0, <2>3, <3>1, <3>2
  <2>6. Len(Programs[p]) \in Nat /\ p # "claiming"
    BY ProgramKinds
  <2>7. \A i \in 1..row.at - 1 : Done(r, Programs[row.prog][i])'
    BY <2>3, <2>5
  <2>8. row.at <= Len(Programs[row.prog]) /\ row.prog # "claiming"
    BY <1>0, <1>2, <2>3, <2>6
  <2> QED BY <2>2, <2>3, <2>7, <2>8, OneMoves
<1> QED BY <1>1, <1>2

\* A program settles on its merchant.
LEMMA Settles ==
  ASSUME SafetyInv, RowsGrow, NEW r \in Runs, NEW row \in RunRows, Running(r),
         run' = [run EXCEPT ![r] = row], row.prog = run[r].prog, row.at = 2,
         row.m \in DOMAIN merchants', merchants'[row.m].platform = (row.prog # "create")
  PROVE  ProgramsInv'
<1>1. row.prog \in DOMAIN Programs /\ 2 <= Len(Programs[row.prog]) /\ row.prog # "claiming"
  BY ProgramKinds DEF Running
<1>2. run'[r] = row
  BY DEF SafetyInv, RunShape
<1>3. ASSUME NEW i \in 1..row.at - 1 PROVE Done(r, Programs[row.prog][i])'
  <2>1. i = 1 /\ Programs[row.prog][i] = "merchant"
    BY <1>1, FirstSteps
  <2>2. Done(r, "merchant")'
    BY <1>2 DEF Done, Exists, Parts
  <2> QED BY <2>1, <2>2
<1> QED BY <1>1, <1>3, OneMoves

LEMMA StepOf ==
  ASSUME SafetyInv, NEW r \in Runs, Running(r)
  PROVE  /\ run[r].at \in 1..Len(Programs[run[r].prog]) /\ run[r].at \in Nat
         /\ run[r] \in RunRows /\ run[r].prog \in DOMAIN Programs
  BY ProgramLengths DEF SafetyInv, RunShape, RunRows, Running

\* A step of its own kind, of the merchant the program has.
LEMMA AdvancesOne ==
  ASSUME SafetyInv, RowsGrow, NEW r \in Runs, Running(r), run[r].at > 1, Advance(r, 1),
         NEW step, step = Step(r), step \notin {"merchant", "store"},
         step = "brand" => Main(run[r].m) \in brands',
         step \in Parts => step \in rows'[run[r].m],
         step = "gate" /\ run[r].prog # "bootstrap" =>
           \E g \in gates' : g.m = run[r].m /\ g.store.m = run[r].m /\ g.gatewayOf = run[r].m
  PROVE  ProgramsInv'
<1>1. PICK p, a : p = run[r].prog /\ a = run[r].at
  OBVIOUS
<1>2. p \in DOMAIN Programs /\ a \in Nat /\ step = Programs[p][a]
  BY <1>1, StepOf DEF Step, Running
<1>3. ASSUME run'[r].prog = p, run'[r].m = run[r].m PROVE Done(r, step)'
  BY <1>1, <1>3 DEF Done, HasGate, Main
<1>4. \A i \in a..a + 1 - 1 :
        run'[r].prog = p /\ run'[r].m = run[r].m /\ run'[r].store = run[r].store =>
          Done(r, Programs[p][i])'
  <2>1. \A i \in a..a + 1 - 1 : i = a
    BY <1>2
  <2> QED BY <1>2, <1>3, <2>1
<1> QED BY <1>1, <1>2, <1>4, Advances

\* A program that found nothing is about to insert.
LEMMA AboutToWrite ==
  ASSUME SafetyInv, RowsGrow, NEW r \in Runs, Running(r), run' = [run EXCEPT ![r].write = TRUE]
  PROVE  ProgramsInv'
<1>1. PICK row : row = [run[r] EXCEPT !.write = TRUE]
  OBVIOUS
<1>2. run' = [run EXCEPT ![r] = row]
  BY <1>1
<1>3. /\ row \in RunRows /\ row.prog = run[r].prog /\ row.at = run[r].at /\ row.m = run[r].m
      /\ row.store = run[r].store
  BY <1>1, StepOf DEF RunRows
<1>4. run'[r] = row
  BY <1>2 DEF SafetyInv, RunShape
<1>5. ASSUME NEW i \in 1..row.at - 1 PROVE Done(r, Programs[row.prog][i])'
  <2>1. run[r].m \in Ids /\ Done(r, Programs[row.prog][i])
    BY <1>3, StepOf, HasMerchant DEF SafetyInv, StepsDone
  <2> QED BY <1>3, <1>4, <2>1, DoneKept
<1>6. row.at <= Len(Programs[row.prog]) /\ row.prog # "claiming"
  BY <1>3, StepOf, ProgramKinds DEF Running
<1> QED BY <1>2, <1>3, <1>5, <1>6, OneMoves

LEMMA LooksForMerchant ==
  ASSUME SafetyInv, RowsGrow, NEW r \in Runs, LookForMerchant(r) PROVE ProgramsInv'
<1>1. Running(r) /\ Step(r) = "merchant" /\ run[r].prog = "bootstrap" /\ UNCHANGED merchants
  BY DEF LookForMerchant, At, Looks, Running
<1>2. run[r].at = 1
  BY <1>1, StepOf, StepsAt DEF Step
<1>3. CASE run' = [run EXCEPT ![r].write = TRUE]
  BY <1>1, <1>3, AboutToWrite
<1>4. ASSUME NEW m \in Ids, IsPlatform(m), run' = [run EXCEPT ![r].m = m, ![r].at = @ + 1]
      PROVE  ProgramsInv'
  <2>1. PICK row : row = [run[r] EXCEPT !.m = m, !.at = run[r].at + 1]
    OBVIOUS
  <2>2. run' = [run EXCEPT ![r] = row]
    BY <1>4, <2>1
  <2>3. row \in RunRows /\ row.prog = run[r].prog /\ row.at = 2 /\ row.m = m
    <3>1. m \in 0..MaxMerchants /\ run[r].at + 1 = 2 /\ run[r].at + 1 \in Nat \ {0}
      BY <1>2, BoundsAssumption DEF Ids
    <3>2. run[r] \in RunRows
      BY <1>1, StepOf
    <3> QED BY <2>1, <3>1, <3>2 DEF RunRows
  <2> QED BY <1>1, <1>4, <2>2, <2>3, Settles DEF IsPlatform, Exists
<1> QED BY <1>3, <1>4 DEF LookForMerchant

LEMMA Finds ==
  ASSUME SafetyInv, RowsGrow, NEW r \in Runs, Look(r) PROVE ProgramsInv'
<1>1. /\ Running(r) /\ run[r].prog = "bootstrap" /\ UNCHANGED rows
      /\ Step(r) \notin {"merchant", "brand", "store", "manual", "bootstrapped", "installed"}
  BY ProgramLengths DEF Look, Looks, At, Running
<1>2. CASE run' = [run EXCEPT ![r].write = TRUE]
  BY <1>1, <1>2, AboutToWrite
<1>3. ASSUME Found(r), Advance(r, IF Step(r) = "gateway" THEN 3 ELSE 1) PROVE ProgramsInv'
  <2>1. run[r].at > 1
    <3>1. run[r].at \in Nat /\ run[r].at >= 1 /\ run[r].at # 1
      BY <1>1, StepOf, FirstSteps DEF Step, Running
    <3> QED BY <3>1
  <2>2. run[r].m \in Ids /\ run[r].m # 0
    BY <1>1, <2>1, HasMerchant DEF Ids
  <2>3. Step(r) \in Parts => Step(r) \in rows[run[r].m]
    BY <1>3, <2>2 DEF Found, SafetyInv, OtpIsHad, Parts
  <2>4. CASE Step(r) # "gateway"
    <3>1. PICK step : step = Step(r)
      OBVIOUS
    <3> QED BY <1>1, <1>3, <2>1, <2>3, <2>4, <3>1, AdvancesOne
  <2>5. CASE Step(r) = "gateway"
    <3>1. PICK p, a : p = run[r].prog /\ a = run[r].at
      OBVIOUS
    <3>2. p = "bootstrap" /\ a = 6 /\ p \in DOMAIN Programs
      BY <1>1, <2>5, <3>1, StepOf, StepsAt DEF Step
    <3>3. Programs[p][6] = "gateway" /\ Programs[p][7] = "manual" /\ Programs[p][8] = "gate"
      BY <3>2 DEF Programs
    <3>4. ASSUME run'[r].prog = p, run'[r].m = run[r].m
          PROVE  Done(r, "gateway")' /\ Done(r, "manual")' /\ Done(r, "gate")'
      <4>1. "gateway" \in rows'[run'[r].m]
        BY <1>1, <2>3, <2>5, <3>4 DEF Parts
      <4> QED BY <3>2, <3>4, <4>1 DEF Done, Parts
    <3>5. \A i \in a..a + 3 - 1 :
            run'[r].prog = p /\ run'[r].m = run[r].m /\ run'[r].store = run[r].store =>
              Done(r, Programs[p][i])'
      <4>1. \A i \in a..a + 3 - 1 : i = 6 \/ i = 7 \/ i = 8
        BY <3>2
      <4> QED BY <3>3, <3>4, <4>1
    <3> QED BY <1>3, <2>1, <2>5, <3>1, <3>2, <3>5, Advances
  <2> QED BY <2>4, <2>5
<1> QED BY <1>2, <1>3 DEF Look

\* The id the row is given is new, and the program goes on with it.
LEMMA InsertsMerchant ==
  ASSUME SafetyInv, RowsGrow, NEW r \in Runs, InsertMerchant(r) PROVE ProgramsInv'
<1>1. Running(r) /\ Step(r) = "merchant"
  BY DEF InsertMerchant, At, Running
<1>2. run[r].at = 1 /\ run[r] \in RunRows
  BY <1>1, StepOf, StepsAt DEF Step
<1>3. CASE Throw(r)
  BY <1>3, Stops DEF Throw
<1>4. CASE ~Throw(r)
  <2>1. /\ Len(merchants) < MaxMerchants
        /\ merchants' = Append(merchants, [name |-> run[r].name, platform |-> run[r].prog # "create"])
        /\ run' = [run EXCEPT ![r].at = @ + 1, ![r].write = FALSE, ![r].m = Len(merchants) + 1]
    BY <1>4 DEF InsertMerchant
  <2>2. PICK row : row = [run[r] EXCEPT !.at = run[r].at + 1, !.write = FALSE, !.m = Len(merchants) + 1]
    OBVIOUS
  <2>3. run' = [run EXCEPT ![r] = row]
    BY <2>1, <2>2
  <2>4. merchants \in Seq([name: Names, platform: BOOLEAN]) /\ Len(merchants) \in Nat
    BY DEF SafetyInv, TypeOK
  <2>5. row \in RunRows /\ row.prog = run[r].prog /\ row.at = 2 /\ row.m = Len(merchants) + 1
    <3>1. /\ Len(merchants) + 1 \in 0..MaxMerchants
          /\ run[r].at + 1 = 2 /\ run[r].at + 1 \in Nat \ {0}
      <4>1. Len(merchants) < MaxMerchants /\ MaxMerchants \in Nat
        BY <2>1, BoundsAssumption
      <4> QED BY <1>2, <2>4, <4>1
    <3> QED BY <1>2, <2>2, <3>1 DEF RunRows
  <2>6. /\ row.m \in DOMAIN merchants'
        /\ merchants'[row.m] = [name |-> run[r].name, platform |-> run[r].prog # "create"]
    BY <2>1, <2>4, <2>5
  <2>7. merchants'[row.m].platform = (row.prog # "create")
    BY <2>5, <2>6
  <2> QED BY <1>1, <2>3, <2>5, <2>6, <2>7, Settles
<1> QED BY <1>3, <1>4

LEMMA Provisions ==
  ASSUME SafetyInv, RowsGrow, NEW r \in Runs, ProvisionBrand(r) \/ ProvisionStore(r)
  PROVE  ProgramsInv'
<1>1. CASE ProvisionBrand(r)
  <2>1. /\ Running(r) /\ Step(r) = "brand" /\ Advance(r, 1)
        /\ Main(run[r].m) \in brands'
    BY <1>1 DEF ProvisionBrand, At, Running
  <2>2. run[r].at > 1
    BY <2>1, StepOf, StepsAt DEF Step
  <2>3. PICK step : step = Step(r)
    OBVIOUS
  <2>4. step = "brand" /\ step \notin Parts
    BY <2>1, <2>3 DEF Parts
  <2> QED BY <2>1, <2>2, <2>3, <2>4, AdvancesOne
<1>2. CASE ProvisionStore(r)
  <2>1. Running(r) /\ Step(r) = "store"
    BY <1>2 DEF ProvisionStore, At, Running
  <2>2. run[r].at = 3 /\ run[r] \in RunRows /\ run[r].m \in Ids
    BY <2>1, StepOf, StepsAt, HasMerchant DEF Step
  <2>3. PICK s \in stores' : s.m = run[r].m /\ run' = [run EXCEPT ![r].at = @ + 1, ![r].store = s]
    BY <1>2 DEF ProvisionStore
  <2>4. s \in Stores /\ MainStore(run[r].m) \in stores'
    <3>1. stores' = stores \union {MainStore(run[r].m)} /\ stores \subseteq Stores
      BY <1>2 DEF ProvisionStore, SafetyInv, TypeOK
    <3>2. MainStore(run[r].m) \in Stores
      BY <2>2 DEF MainStore, Main, Stores, Brands
    <3> QED BY <2>3, <3>1, <3>2
  <2>5. PICK row : row = [run[r] EXCEPT !.at = run[r].at + 1, !.store = s]
    OBVIOUS
  <2>6. run' = [run EXCEPT ![r] = row]
    BY <2>3, <2>5
  <2>7. row \in RunRows /\ row.prog = run[r].prog /\ row.at = 4 /\ row.m = run[r].m /\ row.store = s
    <3>1. run[r].at + 1 = 4 /\ run[r].at + 1 \in Nat \ {0}
      BY <2>2
    <3> QED BY <2>2, <2>4, <2>5, <3>1 DEF RunRows
  <2>8. run'[r] = row
    BY <2>6 DEF SafetyInv, RunShape
  <2>9. ASSUME NEW i \in 1..row.at - 1 PROVE Done(r, Programs[row.prog][i])'
    <3>1. CASE i = 3
      <4>1. Done(r, "store")'
        BY <2>3, <2>4, <2>7, <2>8 DEF Done, Parts, MainStore, Main
      <4>2. Programs[row.prog][i] = "store"
        BY <2>1, <2>7, <3>1, FirstSteps DEF Running
      <4> QED BY <4>1, <4>2
    <3>2. CASE i # 3
      <4>1. i \in 1..run[r].at - 1 /\ (i = 1 \/ i = 2)
        BY <2>2, <2>7, <3>2
      <4>2. PICK step : step = Programs[row.prog][i]
        OBVIOUS
      <4>3. step \in {"merchant", "brand"}
        BY <2>1, <2>7, <4>1, <4>2, FirstSteps DEF Running
      <4>4. Done(r, step)
        BY <2>1, <2>7, <4>1, <4>2 DEF SafetyInv, StepsDone
      <4> QED BY <2>2, <2>7, <2>8, <4>2, <4>3, <4>4, DoneKept
    <3> QED BY <3>1, <3>2
  <2>10. row.at <= Len(Programs[row.prog]) /\ row.prog # "claiming"
    BY <2>1, <2>7, ProgramKinds DEF Running
  <2> QED BY <2>6, <2>7, <2>9, <2>10, OneMoves
<1> QED BY <1>1, <1>2

LEMMA InsertsPart ==
  ASSUME SafetyInv, RowsGrow, NEW r \in Runs, InsertPart(r) PROVE ProgramsInv'
<1>1. Running(r) /\ Step(r) \in Parts
  BY DEF InsertPart, Running
<1>2. run[r].at > 1 /\ run[r].m \in Ids
  BY <1>1, StepOf, StepsAt, HasMerchant DEF Step
<1>3. CASE Throw(r)
  BY <1>3, Stops DEF Throw
<1>4. CASE ~Throw(r)
  <2>1. Advance(r, 1) /\ rows' = [rows EXCEPT ![run[r].m] = @ \union {Step(r)}]
    BY <1>4 DEF InsertPart
  <2>2. PICK step : step = Step(r)
    OBVIOUS
  <2>3. step \in rows'[run[r].m]
    BY <1>2, <2>1, <2>2 DEF SafetyInv, TypeOK
  <2>4. step \notin {"merchant", "brand", "store", "gate"}
    BY <1>1, <2>2 DEF Parts
  <2> QED BY <1>1, <1>2, <2>1, <2>2, <2>3, <2>4, AdvancesOne
<1> QED BY <1>3, <1>4

\* The store a program past its third step works in.
LEMMA HasStore ==
  ASSUME SafetyInv, NEW r \in Runs, Running(r), run[r].at > 3
  PROVE  run[r].m \in Ids /\ run[r].store \in stores /\ run[r].store.m = run[r].m
<1>1. 3 \in 1..run[r].at - 1
  BY StepOf
<1>2. Done(r, "store")
  BY <1>1, FirstSteps DEF SafetyInv, StepsDone, Running
<1>3. run[r].m \in Ids
  BY StepOf, HasMerchant
<1> QED BY <1>2, <1>3 DEF Done

LEMMA InsertsGate ==
  ASSUME SafetyInv, RowsGrow, NEW r \in Runs, InsertGate(r) PROVE ProgramsInv'
<1>1. Running(r) /\ Step(r) = "gate" /\ Advance(r, 1)
  BY DEF InsertGate, At, Running
<1>2. run[r].at > 1 /\ run[r].store.m = run[r].m
  BY <1>1, StepOf, StepsAt, HasStore DEF Step
<1>3. PICK g : g = [m |-> run[r].m, store |-> run[r].store, gatewayOf |-> run[r].m]
  OBVIOUS
<1>4. g \in gates' /\ g.m = run[r].m /\ g.store.m = run[r].m /\ g.gatewayOf = run[r].m
  BY <1>2, <1>3 DEF InsertGate
<1>5. PICK step : step = Step(r)
  OBVIOUS
<1>6. step = "gate" /\ step \notin Parts
  BY <1>1, <1>5 DEF Parts
<1> QED BY <1>1, <1>2, <1>4, <1>5, <1>6, AdvancesOne

LEMMA Puts ==
  ASSUME SafetyInv, RowsGrow, NEW r \in Runs, PutFlag(r) \/ PutClaim(r) PROVE ProgramsInv'
<1>1. Running(r) /\ Step(r) \in {"installed", "bootstrapped", "claim"} /\ Advance(r, 1)
  BY DEF PutFlag, PutClaim, At, Running
<1>2. run[r].at > 1
  BY <1>1, StepOf, StepsAt DEF Step
<1>3. PICK step : step = Step(r)
  OBVIOUS
<1>4. step \notin {"merchant", "brand", "store", "gate"} \union Parts
  BY <1>1, <1>3 DEF Parts
<1> QED BY <1>1, <1>2, <1>3, <1>4, AdvancesOne

LEMMA Begins ==
  ASSUME SafetyInv, RowsGrow, NEW r \in Runs, NEW prog \in DOMAIN Programs, NEW name \in Names,
         Begin(r, prog, name)
  PROVE  ProgramsInv'
<1>1. PICK row : row = [Idle EXCEPT !.prog = prog, !.name = name]
  OBVIOUS
<1>2. run' = [run EXCEPT ![r] = row]
  BY <1>1 DEF Begin
<1>3. row \in RunRows /\ row.at = 1 /\ row.prog = prog
  <2>1. row = [prog |-> prog, at |-> 1, write |-> FALSE, name |-> name, m |-> 0,
               store |-> NoStore]
    BY <1>1 DEF Idle
  <2>2. 0 \in 0..MaxMerchants /\ 1 \in Nat \ {0}
    BY BoundsAssumption
  <2> QED BY <2>1, <2>2 DEF RunRows
<1>4. row.at <= Len(Programs[row.prog]) /\ row.prog # "claiming"
  BY <1>3, ProgramKinds
<1>5. \A i \in 1..row.at - 1 : FALSE
  BY <1>3
<1> QED BY <1>2, <1>3, <1>4, <1>5, OneMoves

LEMMA Claims ==
  ASSUME SafetyInv, RowsGrow, NEW r \in Runs, NEW m \in Ids, claim(r, m) PROVE ProgramsInv'
<1>1. PICK row : row = [Idle EXCEPT !.prog = "claiming", !.m = m]
  OBVIOUS
<1>2. run' = [run EXCEPT ![r] = row] /\ m \in claims
  BY <1>1 DEF claim
<1>3. row \in RunRows /\ row.prog = "claiming" /\ row.m = m
  <2>1. row = [prog |-> "claiming", at |-> 1, write |-> FALSE, name |-> PlatformName, m |-> m,
               store |-> NoStore]
    BY <1>1 DEF Idle
  <2>2. m \in 0..MaxMerchants /\ 1 \in Nat \ {0}
    BY BoundsAssumption DEF Ids
  <2> QED BY <2>1, <2>2, NamesAssumption DEF RunRows
<1>4. row.prog \notin DOMAIN Programs
  BY <1>3, ProgramKinds
<1>5. Complete(m)
  BY <1>2 DEF SafetyInv, ClaimedIsComplete, Complete, HasGate
<1> QED BY <1>2, <1>3, <1>4, <1>5, OneMoves

LEMMA ProgramsStep == SafetyInv /\ [Next]_vars => ProgramsInv'
<1> SUFFICES ASSUME SafetyInv, [Next]_vars PROVE ProgramsInv'
  OBVIOUS
<1>0. RowsGrow /\ Isolates \subseteq Runs /\ Requests \subseteq Runs
  BY Grows DEF SafetyInv, Runs
<1>1. ASSUME NEW r \in Runs, ClaimDelete(r) \/ Crash(r) PROVE ProgramsInv'
  BY <1>0, <1>1, Stops DEF ClaimDelete, Crash, Throw
<1>2. ASSUME NEW r \in Runs, Continue(r) PROVE ProgramsInv'
  BY <1>0, <1>1, <1>2, LooksForMerchant, Finds, InsertsMerchant, Provisions, InsertsPart,
     InsertsGate, Puts DEF Continue
<1>3. ASSUME NEW r \in Isolates, ensureSystemBootstrapped(r) PROVE ProgramsInv'
  <2>1. Begin(r, "bootstrap", PlatformName) /\ r \in Runs
    BY <1>0, <1>3 DEF ensureSystemBootstrapped
  <2>2. "bootstrap" \in DOMAIN Programs
    BY ProgramLengths
  <2> QED BY <1>0, <2>1, <2>2, Begins, NamesAssumption
<1>4. ASSUME NEW r \in Requests, NEW name \in Names, install(r, name) \/ createMerchant(r, name)
      PROVE  ProgramsInv'
  BY <1>0, <1>4, Begins, ProgramLengths DEF install, createMerchant
<1>5. ASSUME NEW r \in Requests, NEW m \in Ids, claim(r, m) PROVE ProgramsInv'
  BY <1>0, <1>5, Claims
<1>6. ASSUME NEW m \in Ids,
             \/ bootstrapKey(m) \/ createBrand(m) \/ ClaimExpires(m)
             \/ (\E b \in brands : createStore(m, b))
             \/ (\E s \in stores, owner \in Ids : createGate(m, s, owner))
             \/ (\E s \in stores : createGateFor(m, s))
      PROVE  UNCHANGED run
  BY <1>6 DEF bootstrapKey, createBrand, ClaimExpires, createStore, createGate, createGateFor
<1>7. UNCHANGED vars => UNCHANGED run
  BY DEF vars
<1>8. UNCHANGED run => ProgramsInv'
  BY <1>0, NoneMoves
<1>9. ASSUME NEW r \in Runs, Continue(r) \/ Crash(r) PROVE ProgramsInv'
  BY <1>1, <1>2, <1>9
<1>10. ASSUME NEW r \in Requests,
              \/ \E name \in Names : install(r, name) \/ createMerchant(r, name)
              \/ \E m \in Ids : claim(r, m)
       PROVE  ProgramsInv'
  BY <1>4, <1>5, <1>10
<1>11. CASE \E m \in Ids : \/ bootstrapKey(m)
                           \/ createBrand(m)
                           \/ \E b \in brands : createStore(m, b)
                           \/ \E s \in stores, owner \in Ids : createGate(m, s, owner)
                           \/ \E s \in stores : createGateFor(m, s)
                           \/ ClaimExpires(m)
  BY <1>6, <1>8, <1>11
<1> HIDE DEF ProgramsInv
<1> QED BY <1>3, <1>7, <1>8, <1>9, <1>10, <1>11 DEF Next
-----------------------------------------------------------------------------
(* The gateway, its details and its gate                                   *)

AllSeeded == \A m \in Ids : "gateway" \in rows[m] => Seeded(m)
SeedType == seeding \in [Ids -> DOMAIN Programs \union {"none", "stopped"}]

\* The steps between a gateway and its gate.
LEMMA SeedSteps ==
  ASSUME NEW p \in DOMAIN Programs, NEW i \in 1..Len(Programs[p])
  PROVE  /\ Programs[p][i] \in {"manual", "gate"} =>
              \E j \in 1..i - 1 : Programs[p][j] = "gateway"
         /\ i + 1 <= Len(Programs[p]) /\ Programs[p][i + 1] = "manual" => Programs[p][i] = "gateway"
         /\ i + 1 <= Len(Programs[p]) /\ Programs[p][i + 1] = "gate" =>
              Programs[p][i] = "manual" \/ (p = "install" /\ Programs[p][i] = "gateway")
         /\ Programs[p][i] = "gateway" =>
              /\ i + 1 <= Len(Programs[p])
              /\ Programs[p][i + 1] = IF p = "install" THEN "gate" ELSE "manual"
         /\ Programs[p][i] = "manual" =>
              i + 1 <= Len(Programs[p]) /\ Programs[p][i + 1] = "gate" /\ p # "install"
         /\ Programs[p][i] = "gateway" /\ p = "bootstrap" => Programs[p][i + 3] = "template"
<1>1. CASE p = "install"
  <2>1. i \in 1..11 /\ Len(Programs[p]) = 11
    BY <1>1, ProgramLengths
  <2>2. Programs[p][i] = "gate" => 7 \in 1..i - 1 /\ Programs[p][7] = "gateway"
    BY <1>1, <2>1 DEF Programs
  <2> QED BY <1>1, <2>1, <2>2 DEF Programs
<1>2. CASE p = "create"
  <2>1. i \in 1..11 /\ Len(Programs[p]) = 11
    BY <1>2, ProgramLengths
  <2>2. Programs[p][i] \in {"manual", "gate"} => 7 \in 1..i - 1 /\ Programs[p][7] = "gateway"
    BY <1>2, <2>1 DEF Programs
  <2> QED BY <1>2, <2>1, <2>2 DEF Programs
<1>3. CASE p = "bootstrap"
  <2>1. i \in 1..14 /\ Len(Programs[p]) = 14
    BY <1>3, ProgramLengths
  <2>2. Programs[p][i] \in {"manual", "gate"} => 6 \in 1..i - 1 /\ Programs[p][6] = "gateway"
    BY <1>3, <2>1 DEF Programs
  <2> QED BY <1>3, <2>1, <2>2 DEF Programs
<1> QED BY <1>1, <1>2, <1>3, ProgramLengths

\* It has a gateway, so no other program inserts one.
LEMMA SeedingHasGateway ==
  ASSUME SafetyInv, NEW r \in Runs, Seeding(r)
  PROVE  run[r].m \in Ids /\ "gateway" \in rows[run[r].m] /\ Running(r) /\ run[r].at > 3
<1>1. Running(r) /\ Step(r) \in {"manual", "gate"}
  BY DEF Seeding, At, Running
<1>2. PICK j \in 1..run[r].at - 1 : Programs[run[r].prog][j] = "gateway"
  BY <1>1, StepOf, SeedSteps DEF Step
<1>3. run[r].at > 3
  BY <1>1, StepOf, StepsAt DEF Step, Parts
<1>4. Done(r, "gateway")
  BY <1>1, <1>2 DEF SafetyInv, StepsDone
<1>5. run[r].m \in Ids
  BY <1>1, <1>3, StepOf, HasMerchant
<1> QED BY <1>1, <1>3, <1>4, <1>5 DEF Done, Parts

\* A step in which only the programs of M move.
LEMMA SeedMoves ==
  ASSUME SafetyInv, RowsGrow, NEW M \in SUBSET Runs, SeedType',
         \A s \in Runs \ M : run'[s] = run[s],
         \A m \in Ids : \/ seeding'[m] \in {seeding[m], "stopped"}
                        \/ "gateway" \notin rows[m],
         \A m \in Ids : "gateway" \in rows'[m] => "gateway" \in rows[m] \/ Seeded(m)',
         \A r \in M : Seeding(r)' => SeedOf(r)',
         \A r \in M, m \in Ids : Seeding(r) /\ m = run[r].m => Seeded(m)'
  PROVE  SeedInv' /\ AllSeeded' /\ SeedType'
<1>1. ASSUME NEW s \in Runs \ M
      PROVE  /\ Seeding(s)' <=> Seeding(s)
             /\ At(s, "gate")' <=> At(s, "gate")
             /\ run'[s] = run[s]
  BY <1>1 DEF Seeding, At, Step
<1>2. ASSUME NEW s \in Runs, Seeding(s)' PROVE SeedOf(s)'
  <2>1. CASE s \in M
    BY <1>2, <2>1
  <2>2. CASE s \notin M
    <3>1. Seeding(s) /\ SeedOf(s) /\ run'[s] = run[s] /\ (At(s, "gate")' <=> At(s, "gate"))
      BY <1>1, <1>2, <2>2 DEF SafetyInv, SeedInv
    <3>2. PICK m : m = run[s].m
      OBVIOUS
    <3>3. m \in Ids /\ "gateway" \in rows[m] /\ m = run'[s].m
      BY <3>1, <3>2, SeedingHasGateway
    <3>4. seeding'[m] \in {run[s].prog, "stopped"}
      BY <3>1, <3>2, <3>3 DEF SeedOf
    <3>5. At(s, "gate") => run[s].prog = "install" \/ "manual" \in rows'[m]
      BY <3>1, <3>2, <3>3 DEF SeedOf, RowsGrow
    <3> QED BY <3>1, <3>3, <3>4, <3>5 DEF SeedOf
  <2> QED BY <2>1, <2>2
<1>3. ASSUME NEW m \in Ids, "gateway" \in rows'[m] PROVE Seeded(m)'
  <2>1. CASE "gateway" \notin rows[m]
    BY <1>3, <2>1
  <2>2. CASE "gateway" \in rows[m]
    <3>1. Seeded(m) /\ seeding'[m] \in {seeding[m], "stopped"}
      BY <2>2 DEF SafetyInv, InstalledIsUsable
    <3>2. CASE HasGate(m) /\ (seeding[m] = "install" \/ "manual" \in rows[m])
      <4>1. HasGate(m)' /\ rows[m] \subseteq rows'[m]
        BY <3>2, Kept DEF RowsGrow
      <4> QED BY <3>1, <3>2, <4>1 DEF Seeded
    <3>3. ASSUME NEW s \in Runs, run[s].m = m, Seeding(s) PROVE Seeded(m)'
      <4>1. CASE s \in M
        BY <3>3, <4>1
      <4>2. CASE s \notin M
        <5>1. Seeding(s)' /\ run'[s].m = m
          BY <1>1, <3>3, <4>2
        <5> QED BY <5>1 DEF Seeded
      <4> QED BY <4>1, <4>2
    <3>4. CASE seeding[m] = "stopped"
      BY <3>1, <3>4 DEF Seeded
    <3> QED BY <3>1, <3>2, <3>3, <3>4 DEF Seeded
  <2> QED BY <2>1, <2>2
<1> QED BY <1>2, <1>3 DEF SeedInv, AllSeeded

\* A program off this stretch moves to where it is not on it.
LEMMA Elsewhere ==
  ASSUME SafetyInv, RowsGrow, NEW r \in Runs, \A s \in Runs : s # r => run'[s] = run[s],
         UNCHANGED seeding,
         \A m \in Ids : "gateway" \in rows'[m] => "gateway" \in rows[m],
         ~Seeding(r), ~Seeding(r)'
  PROVE  SeedInv' /\ AllSeeded' /\ SeedType'
<1>1. SeedType'
  BY DEF SafetyInv, TypeOK, SeedType
<1>2. PICK M : M = {r}
  OBVIOUS
<1> QED BY <1>1, <1>2, SeedMoves

\* Where a step of a program leads.
LEMMA NextStep ==
  ASSUME SafetyInv, NEW r \in Runs, Running(r), NEW n \in {1, 3}, Advance(r, n)
  PROVE  /\ \A s \in Runs : s # r => run'[s] = run[s]
         /\ Seeding(r)' => /\ run'[r].prog = run[r].prog /\ run'[r].m = run[r].m
                           /\ run'[r].at = run[r].at + n
                           /\ run[r].at + n <= Len(Programs[run[r].prog])
         /\ run[r].at + n <= Len(Programs[run[r].prog]) =>
              /\ run'[r].prog = run[r].prog /\ run'[r].m = run[r].m
              /\ run'[r].at = run[r].at + n
<1>0. /\ run[r] \in RunRows /\ run[r].at \in Nat /\ run \in [Runs -> RunRows]
      /\ Len(Programs[run[r].prog]) \in Nat
  BY StepOf, ProgramKinds DEF SafetyInv, RunShape, Running
<1>1. PICK row : row = IF run[r].at + n > Len(Programs[run[r].prog]) THEN Idle
                       ELSE [run[r] EXCEPT !.at = run[r].at + n, !.write = FALSE]
  OBVIOUS
<1>2. run' = [run EXCEPT ![r] = row]
  BY <1>1 DEF Advance
<1>3. run'[r] = row /\ \A s \in Runs : s # r => run'[s] = run[s]
  BY <1>0, <1>2
<1>4. CASE run[r].at + n > Len(Programs[run[r].prog])
  <2>1. run'[r].prog = "idle" /\ "idle" \notin DOMAIN Programs
    BY <1>1, <1>3, <1>4, IdleRow, ProgramLengths
  <2>2. ~Seeding(r)'
    BY <2>1 DEF Seeding, At
  <2> QED BY <1>0, <1>3, <1>4, <2>2
<1>5. CASE ~(run[r].at + n > Len(Programs[run[r].prog]))
  BY <1>0, <1>1, <1>3, <1>5 DEF RunRows
<1> QED BY <1>4, <1>5

\* A step of a program that neither inserts the gateway nor follows it.
LEMMA PassesBy ==
  ASSUME SafetyInv, RowsGrow, NEW r \in Runs, Running(r), Advance(r, 1), UNCHANGED seeding,
         Step(r) \notin {"gateway", "manual", "gate"},
         \A m \in Ids : "gateway" \in rows'[m] => "gateway" \in rows[m]
  PROVE  SeedInv' /\ AllSeeded' /\ SeedType'
<1>1. ~Seeding(r)
  BY DEF Seeding, At
<1>2. ~Seeding(r)'
  <2> SUFFICES ASSUME Seeding(r)' PROVE FALSE
    OBVIOUS
  <2>1. Programs[run[r].prog][run[r].at + 1] \in {"manual", "gate"}
        /\ run[r].at + 1 <= Len(Programs[run[r].prog])
    BY NextStep DEF Seeding, At, Step
  <2> QED BY <2>1, StepOf, SeedSteps DEF Step
<1> QED BY <1>1, <1>2, NextStep, Elsewhere

LEMMA SeedsGateway ==
  ASSUME SafetyInv, RowsGrow, NEW r \in Runs, InsertPart(r), ~Taken(r), Step(r) = "gateway"
  PROVE  SeedInv' /\ AllSeeded' /\ SeedType'
<1>1. Running(r) /\ Advance(r, 1) /\ rows' = [rows EXCEPT ![run[r].m] = @ \union {"gateway"}]
      /\ seeding' = [seeding EXCEPT ![run[r].m] = run[r].prog]
  BY DEF InsertPart, Running
<1>2. run[r].m \in Ids /\ "gateway" \notin rows[run[r].m]
  BY <1>1, StepOf, StepsAt, HasMerchant DEF Step, Taken, Parts
<1>3. PICK p, a, m : p = run[r].prog /\ a = run[r].at /\ m = run[r].m
  OBVIOUS
<1>4. /\ p \in DOMAIN Programs /\ a \in Nat /\ a + 1 <= Len(Programs[p])
      /\ Programs[p][a + 1] = IF p = "install" THEN "gate" ELSE "manual"
  BY <1>1, <1>3, StepOf, SeedSteps DEF Step
<1>5. /\ run'[r].prog = p /\ run'[r].m = m /\ run'[r].at = a + 1
      /\ \A s \in Runs : s # r => run'[s] = run[s]
  BY <1>1, <1>3, <1>4, NextStep
<1>6. SeedType' /\ seeding'[m] = p /\ \A n \in Ids : n # m => seeding'[n] = seeding[n] /\ rows'[n] = rows[n]
  BY <1>1, <1>2, <1>3, <1>4 DEF SeedType, SafetyInv, TypeOK
<1>7. Seeding(r)'
  BY <1>4, <1>5 DEF Seeding, At, Step
<1>8. At(r, "gate")' => p = "install"
  BY <1>4, <1>5 DEF At, Step
<1>9. SeedOf(r)'
  BY <1>5, <1>6, <1>8 DEF SeedOf
<1>10. Seeded(m)'
  BY <1>5, <1>7 DEF Seeded
<1>11. ~Seeding(r)
  BY DEF Seeding, At
<1>12. PICK M : M = {r}
  OBVIOUS
<1>13. \A n \in Ids : seeding'[n] \in {seeding[n], "stopped"} \/ "gateway" \notin rows[n]
  BY <1>2, <1>3, <1>6
<1>14. \A n \in Ids : "gateway" \in rows'[n] => "gateway" \in rows[n] \/ Seeded(n)'
  BY <1>6, <1>10
<1> QED BY <1>5, <1>6, <1>9, <1>11, <1>12, <1>13, <1>14, SeedMoves

LEMMA SeedsManual ==
  ASSUME SafetyInv, RowsGrow, NEW r \in Runs, InsertPart(r), Step(r) = "manual"
  PROVE  SeedInv' /\ AllSeeded' /\ SeedType'
<1>1. /\ Running(r) /\ Advance(r, 1) /\ rows' = [rows EXCEPT ![run[r].m] = @ \union {"manual"}]
      /\ UNCHANGED seeding
  BY DEF InsertPart, Running, Taken
<1>2. Seeding(r)
  BY <1>1 DEF Seeding, At, Running
<1>3. PICK p, a, m : p = run[r].prog /\ a = run[r].at /\ m = run[r].m
  OBVIOUS
<1>4. /\ p \in DOMAIN Programs /\ a \in Nat /\ a + 1 <= Len(Programs[p])
      /\ Programs[p][a + 1] = "gate"
  BY <1>1, <1>3, StepOf, SeedSteps DEF Step
<1>5. /\ run'[r].prog = p /\ run'[r].m = m /\ run'[r].at = a + 1
      /\ \A s \in Runs : s # r => run'[s] = run[s]
  BY <1>1, <1>3, <1>4, NextStep
<1>6. m \in Ids /\ SeedOf(r)
  BY <1>2, <1>3, SeedingHasGateway DEF SafetyInv, SeedInv
<1>7. "manual" \in rows'[m] /\ \A n \in Ids : "gateway" \in rows'[n] => "gateway" \in rows[n]
  BY <1>1, <1>3, <1>6 DEF SafetyInv, TypeOK
<1>8. SeedOf(r)'
  BY <1>1, <1>3, <1>5, <1>6, <1>7 DEF SeedOf
<1>9. Seeded(m)'
  <2>1. Seeding(r)'
    BY <1>4, <1>5 DEF Seeding, At, Step
  <2> QED BY <1>5, <2>1 DEF Seeded
<1>10. SeedType'
  BY <1>1 DEF SeedType, SafetyInv, TypeOK
<1>11. PICK M : M = {r}
  OBVIOUS
<1> QED BY <1>1, <1>3, <1>5, <1>7, <1>8, <1>9, <1>10, <1>11, SeedMoves

\* The gate is there: found, or inserted.
LEMMA SeedsGate ==
  ASSUME SafetyInv, RowsGrow, NEW r \in Runs, Running(r), Step(r) = "gate", Advance(r, 1),
         UNCHANGED <<rows, seeding>>, NEW m, m = run[r].m, HasGate(m)'
  PROVE  SeedInv' /\ AllSeeded' /\ SeedType'
<1>1. Seeding(r) /\ At(r, "gate")
  BY DEF Seeding, At, Running
<1>2. run[r].m \in Ids /\ SeedOf(r)
  BY <1>1, SeedingHasGateway DEF SafetyInv, SeedInv
<1>3. ~Seeding(r)'
  <2> SUFFICES ASSUME Seeding(r)' PROVE FALSE
    OBVIOUS
  <2>1. Programs[run[r].prog][run[r].at + 1] \in {"manual", "gate"}
        /\ run[r].at + 1 <= Len(Programs[run[r].prog])
    BY NextStep DEF Seeding, At, Step
  <2> QED BY <2>1, StepOf, SeedSteps DEF Step
<1>6. Seeded(m)'
  BY <1>1, <1>2 DEF Seeded, SeedOf
<1>7. SeedType'
  BY DEF SeedType, SafetyInv, TypeOK
<1>8. PICK M : M = {r}
  OBVIOUS
<1> QED BY <1>3, <1>6, <1>7, <1>8, NextStep, SeedMoves

\* A program stops on an exception: only where a row is UNIQUE.
LEMMA SeedsThrow ==
  ASSUME SafetyInv, RowsGrow, NEW r \in Runs, Throw(r), ~Seeding(r), UNCHANGED <<rows, seeding>>
  PROVE  SeedInv' /\ AllSeeded' /\ SeedType'
<1>1. run'[r] = Idle /\ \A s \in Runs : s # r => run'[s] = run[s]
  BY DEF Throw, SafetyInv, RunShape
<1>2. ~Seeding(r)'
  BY <1>1, IdleRow, ProgramLengths DEF Seeding, At
<1> QED BY <1>1, <1>2, Elsewhere

LEMMA SeedsCrash ==
  ASSUME SafetyInv, RowsGrow, NEW r \in Runs, Crash(r)
  PROVE  SeedInv' /\ AllSeeded' /\ SeedType'
<1>1. Throw(r) /\ UNCHANGED rows
  BY DEF Crash
<1>2. CASE ~Seeding(r)
  BY <1>1, <1>2, SeedsThrow DEF Crash
<1>3. CASE Seeding(r)
  <2>1. run'[r] = Idle /\ \A s \in Runs : s # r => run'[s] = run[s]
    BY <1>1 DEF Throw, SafetyInv, RunShape
  <2>2. ~Seeding(r)'
    BY <2>1, IdleRow, ProgramLengths DEF Seeding, At
  <2>3. seeding' = [seeding EXCEPT ![run[r].m] = "stopped"] /\ run[r].m \in Ids
    BY <1>3, SeedingHasGateway DEF Crash
  <2>4. PICK m : m = run[r].m
    OBVIOUS
  <2>5. SeedType' /\ seeding'[m] = "stopped" /\ \A n \in Ids : seeding'[n] \in {seeding[n], "stopped"}
    BY <2>3, <2>4 DEF SeedType, SafetyInv, TypeOK
  <2>6. Seeded(m)'
    BY <2>5 DEF Seeded
  <2>7. PICK M : M = {r}
    OBVIOUS
  <2> QED BY <1>1, <2>1, <2>2, <2>4, <2>5, <2>6, <2>7, SeedMoves
<1> QED BY <1>2, <1>3

LEMMA SeedsLook ==
  ASSUME SafetyInv, RowsGrow, NEW r \in Runs, Look(r)
  PROVE  SeedInv' /\ AllSeeded' /\ SeedType'
<1>1. /\ Running(r) /\ run[r].prog = "bootstrap" /\ UNCHANGED <<rows, gates, seeding>>
      /\ Step(r) \notin {"merchant", "brand", "store", "manual", "bootstrapped", "installed"}
  BY ProgramLengths DEF Look, Looks, At, Running, hierarchy
<1>2. CASE run' = [run EXCEPT ![r].write = TRUE]
  <2>1. /\ run'[r].prog = run[r].prog /\ run'[r].at = run[r].at /\ run'[r].m = run[r].m
        /\ \A s \in Runs : s # r => run'[s] = run[s]
    BY <1>2 DEF SafetyInv, RunShape, RunRows
  <2>2. (Seeding(r)' <=> Seeding(r)) /\ (At(r, "gate")' <=> At(r, "gate"))
    BY <2>1 DEF Seeding, At, Step
  <2>3. Seeding(r) => SeedOf(r)'
    BY <1>1, <2>1, <2>2 DEF SafetyInv, SeedInv, SeedOf
  <2>4. PICK m : m = run[r].m
    OBVIOUS
  <2>5. Seeding(r) => Seeded(m)'
    BY <2>1, <2>2, <2>4 DEF Seeded
  <2>6. SeedType'
    BY <1>1 DEF SeedType, SafetyInv, TypeOK
  <2>7. PICK M : M = {r}
    OBVIOUS
  <2> QED BY <1>1, <2>1, <2>2, <2>3, <2>4, <2>5, <2>6, <2>7, SeedMoves
<1>3. ASSUME Found(r), Advance(r, IF Step(r) = "gateway" THEN 3 ELSE 1)
      PROVE  SeedInv' /\ AllSeeded' /\ SeedType'
  <2>1. CASE Step(r) = "gateway"
    <3>1. Advance(r, 3)
      BY <1>3, <2>1
    <3>2. Programs[run[r].prog][run[r].at + 3] = "template"
      BY <1>1, <2>1, StepOf, SeedSteps DEF Step
    <3>3. ~Seeding(r)'
      BY <1>1, <3>1, <3>2, NextStep DEF Seeding, At, Step
    <3>4. ~Seeding(r)
      BY <2>1 DEF Seeding, At
    <3> QED BY <1>1, <3>1, <3>3, <3>4, NextStep, Elsewhere
  <2>2. CASE Step(r) = "gate"
    <3>1. PICK m : m = run[r].m
      OBVIOUS
    <3>2. m \in Ids /\ run[r].store.m = m
      BY <1>1, <2>2, <3>1, StepOf, StepsAt, HasStore DEF Step
    <3>3. PICK g \in gates : g.store = run[r].store /\ g.gatewayOf = run[r].m
      BY <1>3, <2>2 DEF Found
    <3>4. g.m = m /\ g.store.m = m /\ g.gatewayOf = m /\ g \in gates'
      BY <1>1, <3>1, <3>2, <3>3 DEF SafetyInv, TenantIntegrity
    <3>5. HasGate(m)'
      BY <3>4 DEF HasGate
    <3>6. Advance(r, 1)
      BY <1>3, <2>2
    <3> QED BY <1>1, <2>2, <3>1, <3>5, <3>6, SeedsGate
  <2>3. CASE Step(r) \notin {"gateway", "gate"}
    BY <1>1, <1>3, <2>3, PassesBy
  <2> QED BY <2>1, <2>2, <2>3
<1> QED BY <1>2, <1>3 DEF Look

\* The other steps of the programs.
LEMMA SeedsContinue ==
  ASSUME SafetyInv, RowsGrow, NEW r \in Runs, Continue(r)
  PROVE  SeedInv' /\ AllSeeded' /\ SeedType'
<1>1. CASE LookForMerchant(r) \/ InsertMerchant(r) \/ ProvisionStore(r)
  <2>1. /\ Running(r) /\ Step(r) \in {"merchant", "store"} /\ UNCHANGED <<rows, seeding>>
    BY <1>1 DEF LookForMerchant, InsertMerchant, ProvisionStore, At, Running
  <2>2. ~Seeding(r)
    BY <2>1 DEF Seeding, At
  <2>3. CASE Throw(r)
    BY <2>1, <2>2, <2>3, SeedsThrow
  <2>4. CASE ~Throw(r)
    <3>1. /\ run[r] \in RunRows /\ run \in [Runs -> RunRows] /\ run[r].at \in Nat
          /\ run[r].at \in 1..Len(Programs[run[r].prog])
          /\ run[r].at = 1 \/ run[r].at = 3
      BY <2>1, StepOf, StepsAt DEF SafetyInv, RunShape, Step
    <3>2. /\ run'[r].prog = run[r].prog /\ run'[r].at \in {run[r].at, run[r].at + 1}
          /\ \A s \in Runs : s # r => run'[s] = run[s]
      <4>1. CASE LookForMerchant(r)
        <5>1. PICK row : /\ run' = [run EXCEPT ![r] = row]
                         /\ \/ row = [run[r] EXCEPT !.write = TRUE]
                            \/ \E m \in Ids : row = [run[r] EXCEPT !.m = m, !.at = run[r].at + 1]
          <6>1. CASE run' = [run EXCEPT ![r].write = TRUE]
            BY <6>1
          <6>2. ASSUME NEW m \in Ids, run' = [run EXCEPT ![r].m = m, ![r].at = @ + 1]
                PROVE  run' = [run EXCEPT ![r] = [run[r] EXCEPT !.m = m, !.at = run[r].at + 1]]
            BY <6>2
          <6> QED BY <4>1, <6>1, <6>2 DEF LookForMerchant
        <5>2. row.prog = run[r].prog /\ row.at \in {run[r].at, run[r].at + 1}
          BY <3>1, <5>1 DEF RunRows
        <5> QED BY <3>1, <5>1, <5>2
      <4>2. CASE InsertMerchant(r)
        BY <2>4, <3>1, <4>2 DEF InsertMerchant, RunRows
      <4>3. CASE ProvisionStore(r)
        BY <3>1, <4>3 DEF ProvisionStore, RunRows
      <4> QED BY <1>1, <4>1, <4>2, <4>3
    <3>3. ~Seeding(r)'
      <4> SUFFICES ASSUME Seeding(r)' PROVE FALSE
        OBVIOUS
      <4>1. Programs[run[r].prog][run'[r].at] \in {"manual", "gate"} /\ Running(r)
        BY <2>1, <3>2 DEF Seeding, At, Step
      <4>2. run'[r].at = run[r].at + 1 /\ run[r].at + 1 <= Len(Programs[run[r].prog])
        BY <2>1, <3>1, <3>2, <4>1, ProgramKinds DEF Step, Running
      <4> QED BY <2>1, <3>1, <4>1, <4>2, SeedSteps DEF Step, Running
    <3> QED BY <2>1, <2>2, <3>2, <3>3, Elsewhere
  <2> QED BY <2>3, <2>4
<1>2. CASE ProvisionBrand(r) \/ PutFlag(r) \/ PutClaim(r)
  <2>1. /\ Running(r) /\ Advance(r, 1) /\ UNCHANGED <<rows, seeding>>
        /\ Step(r) \in {"brand", "installed", "bootstrapped", "claim"}
    BY <1>2 DEF ProvisionBrand, PutFlag, PutClaim, At, Running
  <2> QED BY <2>1, PassesBy
<1>3. CASE InsertPart(r)
  <2>1. Running(r) /\ Step(r) \in Parts
    BY <1>3 DEF InsertPart, Running
  <2>2. CASE Taken(r)
    <3>1. Throw(r) /\ UNCHANGED <<rows, seeding>>
      BY <1>3, <2>2 DEF InsertPart
    <3>2. ~Seeding(r)
      BY <2>2 DEF Taken, Seeding, At
    <3> QED BY <3>1, <3>2, SeedsThrow
  <2>3. CASE ~Taken(r) /\ Step(r) = "gateway"
    BY <1>3, <2>3, SeedsGateway
  <2>4. CASE Step(r) = "manual"
    BY <1>3, <2>4, SeedsManual
  <2>5. CASE ~Taken(r) /\ Step(r) \notin {"gateway", "manual"}
    <3>1. /\ Advance(r, 1) /\ UNCHANGED seeding
          /\ rows' = [rows EXCEPT ![run[r].m] = @ \union {Step(r)}]
      BY <1>3, <2>5 DEF InsertPart
    <3>2. \A m \in Ids : "gateway" \in rows'[m] => "gateway" \in rows[m]
      BY <2>5, <3>1 DEF SafetyInv, TypeOK
    <3>3. Step(r) # "gate"
      BY <2>1 DEF Parts
    <3> QED BY <2>1, <2>5, <3>1, <3>2, <3>3, PassesBy
  <2> QED BY <2>2, <2>3, <2>4, <2>5
<1>4. CASE InsertGate(r)
  <2>1. Running(r) /\ Step(r) = "gate" /\ Advance(r, 1) /\ UNCHANGED <<rows, seeding>>
    BY <1>4 DEF InsertGate, At, Running
  <2>2. PICK m : m = run[r].m
    OBVIOUS
  <2>3. PICK g : g = [m |-> run[r].m, store |-> run[r].store, gatewayOf |-> run[r].m]
    OBVIOUS
  <2>4. run[r].store.m = m
    BY <2>1, <2>2, StepOf, StepsAt, HasStore DEF Step
  <2>5. g \in gates' /\ g.m = m /\ g.store.m = m /\ g.gatewayOf = m
    BY <1>4, <2>2, <2>3, <2>4 DEF InsertGate
  <2>6. HasGate(m)'
    BY <2>5 DEF HasGate
  <2> QED BY <2>1, <2>2, <2>6, SeedsGate
<1>5. CASE ClaimDelete(r)
  <2>1. ~Seeding(r) /\ Throw(r) /\ UNCHANGED <<rows, seeding>>
    BY <1>5, ProgramLengths DEF ClaimDelete, Seeding, At
  <2> QED BY <2>1, SeedsThrow
<1> QED BY <1>1, <1>2, <1>3, <1>4, <1>5, SeedsLook DEF Continue

\* A request that begins was idle, and is at its first step.
LEMMA SeedsBegin ==
  ASSUME SafetyInv, RowsGrow, NEW r \in Runs,
         \/ \E prog \in DOMAIN Programs, name \in Names : Begin(r, prog, name)
         \/ \E m \in Ids : claim(r, m)
  PROVE  SeedInv' /\ AllSeeded' /\ SeedType'
<1>1. run[r].prog = "idle" /\ UNCHANGED <<rows, seeding>>
  BY DEF Begin, claim
<1>2. ~Seeding(r)
  BY <1>1, ProgramLengths DEF Seeding, At
<1>3. /\ \A s \in Runs : s # r => run'[s] = run[s]
      /\ run'[r].prog \in DOMAIN Programs => run'[r].at = 1
  <2>1. CASE \E prog \in DOMAIN Programs, name \in Names : Begin(r, prog, name)
    BY <2>1 DEF Begin, Idle, SafetyInv, RunShape
  <2>2. CASE \E m \in Ids : claim(r, m)
    <3>1. /\ run'[r].prog = "claiming"
          /\ \A s \in Runs : s # r => run'[s] = run[s]
      BY <2>2 DEF claim, Idle, SafetyInv, RunShape
    <3> QED BY <3>1, ProgramLengths
  <2> QED BY <2>1, <2>2
<1>4. ~Seeding(r)'
  BY <1>3, FirstSteps DEF Seeding, At, Step
<1> QED BY <1>1, <1>2, <1>3, <1>4, Elsewhere

LEMMA SeedsStep == SafetyInv /\ [Next]_vars => SeedInv' /\ AllSeeded' /\ SeedType'
<1> SUFFICES ASSUME SafetyInv, [Next]_vars PROVE SeedInv' /\ AllSeeded' /\ SeedType'
  OBVIOUS
<1> DEFINE Goal == SeedInv' /\ AllSeeded' /\ SeedType'
<1>0. RowsGrow /\ Isolates \subseteq Runs /\ Requests \subseteq Runs
  BY Grows DEF SafetyInv, Runs
<1>1. ASSUME NEW r \in Runs, Continue(r) \/ Crash(r) PROVE Goal
  BY <1>0, <1>1, SeedsContinue, SeedsCrash
<1>2. ASSUME NEW r \in Isolates, ensureSystemBootstrapped(r) PROVE Goal
  BY <1>0, <1>2, SeedsBegin, ProgramLengths, NamesAssumption DEF ensureSystemBootstrapped
<1>3. ASSUME NEW r \in Requests, \/ \E name \in Names : install(r, name) \/ createMerchant(r, name)
                                 \/ \E m \in Ids : claim(r, m)
      PROVE  Goal
  <2>1. CASE \E m \in Ids : claim(r, m)
    BY <1>0, <2>1, SeedsBegin
  <2>2. CASE \E name \in Names : install(r, name) \/ createMerchant(r, name)
    <3>1. \E prog \in DOMAIN Programs, name \in Names : Begin(r, prog, name)
      BY <2>2, ProgramLengths DEF install, createMerchant
    <3> QED BY <1>0, <3>1, SeedsBegin
  <2> QED BY <1>3, <2>1, <2>2
<1>4. ASSUME UNCHANGED <<run, seeding>>,
             \A m \in Ids : "gateway" \in rows'[m] => "gateway" \in rows[m]
      PROVE  Goal
  <2>1. SeedType'
    BY <1>4 DEF SafetyInv, TypeOK, SeedType
  <2>2. PICK M : M = {}
    OBVIOUS
  <2> QED BY <1>0, <1>4, <2>1, <2>2, SeedMoves
<1>5. ASSUME NEW m \in Ids,
             \/ bootstrapKey(m) \/ createBrand(m) \/ ClaimExpires(m)
             \/ (\E b \in brands : createStore(m, b))
             \/ (\E s \in stores, owner \in Ids : createGate(m, s, owner))
             \/ (\E s \in stores : createGateFor(m, s))
      PROVE  Goal
  <2>1. UNCHANGED <<run, seeding>>
    BY <1>5 DEF bootstrapKey, createBrand, ClaimExpires, createStore, createGate, createGateFor
  <2>2. UNCHANGED rows \/ rows' = [rows EXCEPT ![m] = @ \union {"key"}]
    BY <1>5 DEF bootstrapKey, createBrand, ClaimExpires, createStore, createGate, createGateFor
  <2>3. \A n \in Ids : "gateway" \in rows'[n] => "gateway" \in rows[n]
    BY <2>2 DEF SafetyInv, TypeOK
  <2> QED BY <1>4, <2>1, <2>3
<1>6. UNCHANGED vars => UNCHANGED <<run, seeding, rows>>
  BY DEF vars
<1>7. UNCHANGED vars => Goal
  BY <1>4, <1>6
<1> HIDE DEF Goal
<1>8. Goal
  BY <1>1, <1>2, <1>3, <1>5, <1>7 DEF Next
<1> QED BY <1>8 DEF Goal
-----------------------------------------------------------------------------
(* The flags and the claims                                                *)

\* What is behind a program that writes a flag or a claim.
LEMMA FlagMeans ==
  ASSUME SafetyInv, NEW r \in Runs
  PROVE  /\ At(r, "installed") => run[r].m \in Ids /\ IsPlatform(run[r].m) /\ Usable(run[r].m)
         /\ At(r, "bootstrapped") =>
              /\ run[r].m \in Ids /\ IsPlatform(run[r].m) /\ Usable(run[r].m)
              /\ {"gateway", "template", "otp", "webhook"} \subseteq rows[run[r].m]
         /\ At(r, "claim") => run[r].m \in Ids /\ Complete(run[r].m)
<1> DEFINE m == run[r].m
<1>1. ASSUME Running(r), run[r].at > 1
      PROVE  m \in Ids /\ Exists(m) /\ merchants[m].platform = (run[r].prog # "create")
  BY <1>1, HasMerchant
<1>2. ASSUME Running(r), NEW i \in 1..run[r].at - 1, NEW step, Programs[run[r].prog][i] = step
      PROVE  Done(r, step)
  BY <1>2 DEF SafetyInv, StepsDone
<1>3. Parts = {"user", "chart", "key", "gateway", "manual", "template", "otp", "webhook"}
  BY DEF Parts
<1>4. ASSUME Done(r, "brand"), Done(r, "store"), Done(r, "user"), Done(r, "chart"), Done(r, "key")
      PROVE  Usable(m)
  BY <1>3, <1>4 DEF Done, Usable
<1>5. ASSUME run[r].prog = "install", Running(r), run[r].at = 11
      PROVE  m \in Ids /\ IsPlatform(m) /\ Usable(m)
  <2>1. \A step \in {"merchant", "brand", "store", "user", "chart", "key"} : Done(r, step)
    <3>1. \A i \in 1..10 : i \in 1..run[r].at - 1
      BY <1>5
    <3> QED BY <1>2, <1>5, <3>1, StepsBehind
  <2>2. m \in Ids /\ Exists(m) /\ merchants[m].platform
    <3>1. m \in Ids /\ Exists(m) /\ merchants[m].platform = (run[r].prog # "create")
      BY <1>1, <1>5
    <3>2. run[r].prog # "create"
      BY <1>5
    <3> QED BY <3>1, <3>2
  <2>3. Usable(m)
    BY <1>4, <2>1
  <2> QED BY <2>2, <2>3 DEF IsPlatform
<1>6. ASSUME run[r].prog = "bootstrap", Running(r), run[r].at \in {13, 14}
      PROVE  /\ m \in Ids /\ IsPlatform(m) /\ Usable(m)
             /\ {"gateway", "template", "otp", "webhook"} \subseteq rows[m]
  <2>1. \A step \in {"merchant", "brand", "store", "user", "chart", "gateway", "template", "otp",
                     "webhook", "key"} : Done(r, step)
    <3>1. \A i \in 1..12 : i \in 1..run[r].at - 1
      BY <1>6
    <3> QED BY <1>2, <1>6, <3>1, StepsBehind
  <2>2. {"gateway", "template", "otp", "webhook"} \subseteq rows[m]
    BY <1>3, <2>1 DEF Done
  <2>3. m \in Ids /\ Exists(m) /\ merchants[m].platform
    <3>1. m \in Ids /\ Exists(m) /\ merchants[m].platform = (run[r].prog # "create")
      BY <1>1, <1>6
    <3>2. run[r].prog # "create"
      BY <1>6
    <3> QED BY <3>1, <3>2
  <2>4. Usable(m)
    BY <1>4, <2>1
  <2> QED BY <2>2, <2>3, <2>4 DEF IsPlatform
<1>7. ASSUME run[r].prog = "create", Running(r), run[r].at = 11
      PROVE  m \in Ids /\ Complete(m)
  <2>1. \A step \in {"merchant", "brand", "store", "user", "chart", "key", "gateway", "manual",
                     "gate", "otp"} : Done(r, step)
    <3>1. \A i \in 1..10 : i \in 1..run[r].at - 1
      BY <1>7
    <3> QED BY <1>2, <1>7, <3>1, StepsBehind
  <2>2. {"gateway", "manual", "otp"} \subseteq rows[m] /\ HasGate(m)
    BY <1>3, <1>7, <2>1 DEF Done
  <2> QED BY <1>1, <1>4, <1>7, <2>1, <2>2 DEF Complete
<1>8. ASSUME NEW step, At(r, step)
      PROVE  /\ Running(r) /\ Programs[run[r].prog][run[r].at] = step
             /\ run[r].at \in 1..Len(Programs[run[r].prog]) /\ run[r].prog \in DOMAIN Programs
  BY <1>8, StepOf DEF At, Step, Running
<1>9. At(r, "installed") => m \in Ids /\ IsPlatform(m) /\ Usable(m)
  BY <1>5, <1>6, <1>8, StepsAt
<1>10. At(r, "bootstrapped") => /\ m \in Ids /\ IsPlatform(m) /\ Usable(m)
                                /\ {"gateway", "template", "otp", "webhook"} \subseteq rows[m]
  BY <1>6, <1>8, StepsAt
<1>11. At(r, "claim") => m \in Ids /\ Complete(m)
  BY <1>7, <1>8, StepsAt
<1> QED BY <1>9, <1>10, <1>11

\* Who writes them.
LEMMA FlagsWritten ==
  ASSUME SafetyInv, [Next]_vars
  PROVE  /\ installed' => installed \/ \E r \in Runs : At(r, "installed")
         /\ bootstrapped' => bootstrapped \/ \E r \in Runs : At(r, "bootstrapped")
         /\ \A m \in claims' : m \in claims \/ \E r \in Runs : At(r, "claim") /\ m = run[r].m
         /\ \A m \in claimed' : \/ m \in claimed
                                \/ \E r \in Runs : run[r].prog = "claiming" /\ m = run[r].m
<1> DEFINE Written ==
      /\ installed' => installed \/ \E r \in Runs : At(r, "installed")
      /\ bootstrapped' => bootstrapped \/ \E r \in Runs : At(r, "bootstrapped")
      /\ \A m \in claims' : m \in claims \/ \E r \in Runs : At(r, "claim") /\ m = run[r].m
      /\ \A m \in claimed' : \/ m \in claimed
                             \/ \E r \in Runs : run[r].prog = "claiming" /\ m = run[r].m
<1>1. ASSUME UNCHANGED kv PROVE Written
  BY <1>1 DEF kv
<1>2. ASSUME NEW r \in Runs, PutFlag(r) PROVE Written
  BY <1>2 DEF PutFlag
<1>3. ASSUME NEW r \in Runs, PutClaim(r) PROVE Written
  BY <1>3 DEF PutClaim
<1>4. ASSUME NEW r \in Runs, ClaimDelete(r) PROVE Written
  BY <1>4 DEF ClaimDelete
<1>5. ASSUME NEW m \in Ids, ClaimExpires(m) PROVE Written
  BY <1>5 DEF ClaimExpires
<1>6. ASSUME NEW r, \/ LookForMerchant(r) \/ Look(r) \/ InsertMerchant(r) \/ ProvisionBrand(r)
                    \/ ProvisionStore(r) \/ InsertPart(r) \/ InsertGate(r) \/ Crash(r)
      PROVE  UNCHANGED kv
  BY <1>6 DEF LookForMerchant, Look, InsertMerchant, ProvisionBrand, ProvisionStore, InsertPart,
     InsertGate, Crash
<1>7. ASSUME NEW r, \/ ensureSystemBootstrapped(r)
                    \/ (\E name \in Names : install(r, name) \/ createMerchant(r, name))
                    \/ (\E m \in Ids : claim(r, m))
      PROVE  UNCHANGED kv
  BY <1>7 DEF ensureSystemBootstrapped, install, createMerchant, claim, Begin
<1>8. ASSUME NEW m \in Ids, \/ bootstrapKey(m) \/ createBrand(m)
                            \/ (\E b \in brands : createStore(m, b))
                            \/ (\E s \in stores, owner \in Ids : createGate(m, s, owner))
                            \/ (\E s \in stores : createGateFor(m, s))
      PROVE  UNCHANGED kv
  BY <1>8 DEF bootstrapKey, createBrand, createStore, createGate, createGateFor
<1>9. UNCHANGED vars => UNCHANGED kv
  BY DEF vars, kv
<1> HIDE DEF Written
<1>10. Written
  <2>1. ASSUME NEW r \in Runs, Continue(r) \/ Crash(r) PROVE Written
    BY <1>1, <1>2, <1>3, <1>4, <1>6, <2>1 DEF Continue
  <2>2. ASSUME NEW m \in Ids, \/ bootstrapKey(m)
                              \/ createBrand(m)
                              \/ (\E b \in brands : createStore(m, b))
                              \/ (\E s \in stores, owner \in Ids : createGate(m, s, owner))
                              \/ (\E s \in stores : createGateFor(m, s))
                              \/ ClaimExpires(m)
        PROVE  Written
    BY <1>1, <1>5, <1>8, <2>2
  <2> QED BY <1>1, <1>7, <1>9, <2>1, <2>2 DEF Next
<1> QED BY <1>10 DEF Written

LEMMA FlagsStep == SafetyInv /\ [Next]_vars => InstalledIsUsable' /\ ClaimedIsComplete'
<1> SUFFICES ASSUME SafetyInv, [Next]_vars PROVE InstalledIsUsable' /\ ClaimedIsComplete'
  OBVIOUS
<1>0. RowsGrow
  BY Grows DEF SafetyInv
<1>1. \A m \in Ids : /\ IsPlatform(m) => IsPlatform(m)'
                     /\ Usable(m) => Usable(m)'
                     /\ Complete(m) => Complete(m)'
                     /\ rows[m] \subseteq rows'[m]
  BY <1>0, Kept DEF RowsGrow
<1>2. installed' => \E m \in Ids : (IsPlatform(m) /\ Usable(m))'
  <2>1. installed' => \E m \in Ids : IsPlatform(m) /\ Usable(m)
    BY FlagsWritten, FlagMeans DEF SafetyInv, InstalledIsUsable
  <2> QED BY <1>1, <2>1
<1>3. bootstrapped' => \E m \in Ids : /\ (IsPlatform(m) /\ Usable(m))'
                                      /\ {"gateway", "template", "otp", "webhook"} \subseteq rows'[m]
  <2>1. bootstrapped' => \E m \in Ids : /\ IsPlatform(m) /\ Usable(m)
                                        /\ {"gateway", "template", "otp", "webhook"} \subseteq rows[m]
    BY FlagsWritten, FlagMeans DEF SafetyInv, InstalledIsUsable
  <2> QED BY <1>1, <2>1
<1>4. ASSUME NEW m, m \in (claims \union claimed)' PROVE m \in Ids /\ Complete(m)'
  <2>1. \A x \in claims \union claimed : x \in Ids /\ Complete(x)
    BY DEF SafetyInv, TypeOK, ClaimedIsComplete, Complete, HasGate
  <2>2. m \in Ids /\ Complete(m)
    BY <1>4, <2>1, FlagsWritten, FlagMeans DEF SafetyInv, ClaimingIsComplete
  <2> QED BY <1>1, <2>2
<1>5. InstalledIsUsable'
  BY <1>2, <1>3, SeedsStep DEF InstalledIsUsable, AllSeeded
<1>6. ClaimedIsComplete'
  BY <1>4 DEF ClaimedIsComplete, Complete, HasGate
<1> QED BY <1>5, <1>6
-----------------------------------------------------------------------------
(* The rows                                                                *)

\* The types of all but the programs; the rest of the rows' invariants.
RowsInv ==
  /\ merchants \in Seq([name: Names, platform: BOOLEAN]) /\ Len(merchants) <= MaxMerchants
  /\ rows \in [Ids -> SUBSET Parts]
  /\ brands \subseteq Brands /\ stores \subseteq Stores /\ gates \subseteq Gates
  /\ fixedOtp \in BOOLEAN
  /\ otpOf \in 0..MaxMerchants
  /\ installed \in BOOLEAN /\ bootstrapped \in BOOLEAN
  /\ claims \subseteq Ids /\ claimed \subseteq Ids
  /\ crashes \in 0..MaxCrashes /\ extra \in 0..MaxExtra
  /\ OtpIsHad /\ TenantIntegrity

LEMMA Numbers == MaxMerchants \in Nat /\ MaxCrashes \in Nat /\ MaxExtra \in Nat
BY BoundsAssumption

LEMMA RowsStep == SafetyInv /\ [Next]_vars => RowsInv'
<1> SUFFICES ASSUME SafetyInv, [Next]_vars PROVE RowsInv'
  OBVIOUS
<1>0. RowsInv
  BY DEF SafetyInv, RowsInv, TypeOK
<1> USE DEF hierarchy, kv, config
<1>1. ASSUME UNCHANGED <<merchants, rows, hierarchy, otpOf, kv, config>> PROVE RowsInv'
  BY <1>0, <1>1 DEF RowsInv, OtpIsHad, TenantIntegrity
<1>2. ASSUME NEW r \in Runs, InsertMerchant(r) PROVE RowsInv'
  <2>1. UNCHANGED <<rows, hierarchy, otpOf, kv, config>>
    BY <1>2 DEF InsertMerchant
  <2>2. CASE UNCHANGED merchants
    BY <1>1, <2>1, <2>2
  <2>3. CASE ~UNCHANGED merchants
    <3>1. PICK x : x = [name |-> run[r].name, platform |-> run[r].prog # "create"]
      OBVIOUS
    <3>2. Len(merchants) < MaxMerchants /\ merchants' = Append(merchants, x)
      BY <1>2, <2>3, <3>1 DEF InsertMerchant
    <3>3. run[r].name \in Names
      BY DEF SafetyInv, RunShape, RunRows
    <3>4. x \in [name: Names, platform: BOOLEAN]
      BY <3>1, <3>3
    <3>5. merchants \in Seq([name: Names, platform: BOOLEAN])
      BY <1>0 DEF RowsInv
    <3>6. merchants' \in Seq([name: Names, platform: BOOLEAN]) /\ Len(merchants') <= MaxMerchants
      BY <3>2, <3>4, <3>5, Numbers
    <3> QED BY <1>0, <2>1, <3>6 DEF RowsInv, OtpIsHad, TenantIntegrity
  <2> QED BY <2>2, <2>3
<1>3. ASSUME NEW r \in Runs, ProvisionBrand(r) \/ ProvisionStore(r) PROVE RowsInv'
  <2>1. run[r].m \in Ids
    BY <1>3, StepOf, StepsAt, HasMerchant DEF ProvisionBrand, ProvisionStore, At, Step, Running
  <2>2. Main(run[r].m) \in Brands /\ MainStore(run[r].m) \in Stores
        /\ MainStore(run[r].m).m = run[r].m /\ MainStore(run[r].m).brand.m = run[r].m
    BY <2>1 DEF Main, MainStore, Brands, Stores
  <2>3. /\ UNCHANGED <<merchants, rows, gates, otpOf, kv, config>>
        /\ brands' \subseteq brands \union {Main(run[r].m)}
        /\ stores \subseteq stores' /\ stores' \subseteq stores \union {MainStore(run[r].m)}
    BY <1>3 DEF ProvisionBrand, ProvisionStore
  <2>4. \A s \in stores' : s \in stores \/ s = MainStore(run[r].m)
    BY <2>3
  <2>5. TenantIntegrity'
    BY <1>0, <2>2, <2>3, <2>4 DEF RowsInv, TenantIntegrity
  <2> QED BY <1>0, <2>2, <2>3, <2>5 DEF RowsInv, OtpIsHad
<1>4. ASSUME NEW r \in Runs, InsertPart(r) PROVE RowsInv'
  <2>1. Running(r) /\ Step(r) \in Parts /\ UNCHANGED <<merchants, hierarchy, kv, config>>
    BY <1>4 DEF InsertPart, Running
  <2>2. run[r].m \in Ids
    BY <2>1, StepOf, StepsAt, HasMerchant DEF Step
  <2>3. CASE Throw(r) /\ UNCHANGED <<rows, otpOf>>
    BY <1>1, <2>1, <2>3
  <2>4. CASE /\ rows' = [rows EXCEPT ![run[r].m] = @ \union {Step(r)}]
             /\ otpOf' = IF Step(r) = "otp" /\ fixedOtp /\ run[r].prog # "create"
                          THEN run[r].m ELSE otpOf
    <3>1. rows' \in [Ids -> SUBSET Parts] /\ \A m \in Ids : rows[m] \subseteq rows'[m]
      BY <1>0, <2>1, <2>4 DEF RowsInv
    <3>2. Step(r) \in rows'[run[r].m]
      BY <1>0, <2>2, <2>4 DEF RowsInv
    <3>3. otpOf' \in 0..MaxMerchants
      BY <1>0, <2>2, <2>4, Numbers DEF RowsInv, Ids
    <3>4. OtpIsHad'
      <4>1. otpOf # 0 => otpOf \in Ids
        BY <1>0, Numbers DEF RowsInv, Ids
      <4> QED BY <1>0, <2>4, <3>1, <3>2, <4>1 DEF RowsInv, OtpIsHad
    <3> QED BY <1>0, <2>1, <3>1, <3>3, <3>4 DEF RowsInv, TenantIntegrity
  <2> QED BY <1>4, <2>3, <2>4 DEF InsertPart
<1>5. ASSUME NEW r \in Runs, InsertGate(r) PROVE RowsInv'
  <2>1. PICK g : g = [m |-> run[r].m, store |-> run[r].store, gatewayOf |-> run[r].m]
    OBVIOUS
  <2>2. gates' = gates \union {g} /\ UNCHANGED <<merchants, rows, brands, stores, otpOf, kv, config>>
    BY <1>5, <2>1 DEF InsertGate
  <2>3. run[r].m \in Ids /\ run[r].store \in stores /\ run[r].store.m = run[r].m
    BY <1>5, StepOf, StepsAt, HasStore DEF InsertGate, At, Step, Running
  <2>4. g \in Gates /\ g.store \in stores /\ g.store.m = g.m
    BY <1>0, <2>1, <2>3 DEF RowsInv, Gates
  <2> QED BY <1>0, <2>2, <2>4 DEF RowsInv, OtpIsHad, TenantIntegrity
<1>6. ASSUME NEW r \in Runs, PutFlag(r) PROVE RowsInv'
  BY <1>0, <1>6 DEF PutFlag, RowsInv, OtpIsHad, TenantIntegrity
<1>7. ASSUME NEW r \in Runs, PutClaim(r) PROVE RowsInv'
  <2>1. run[r].m \in Ids
    BY <1>7, FlagMeans DEF PutClaim
  <2> QED BY <1>0, <1>7, <2>1 DEF PutClaim, RowsInv, OtpIsHad, TenantIntegrity
<1>8. ASSUME NEW r \in Runs, ClaimDelete(r) PROVE RowsInv'
  <2>1. run[r].m \in Ids
    BY <1>8 DEF ClaimDelete, SafetyInv, ClaimingIsComplete
  <2> QED BY <1>0, <1>8, <2>1 DEF ClaimDelete, RowsInv, OtpIsHad, TenantIntegrity
<1>9. ASSUME NEW r \in Runs, Crash(r) PROVE RowsInv'
  <2>1. crashes' \in 0..MaxCrashes
    BY <1>0, <1>9, Numbers DEF Crash, RowsInv
  <2> QED BY <1>0, <1>9, <2>1 DEF Crash, RowsInv, OtpIsHad, TenantIntegrity
<1>10. ASSUME NEW m \in Ids, ClaimExpires(m) PROVE RowsInv'
  BY <1>0, <1>10 DEF ClaimExpires, RowsInv, OtpIsHad, TenantIntegrity
<1>11. ASSUME NEW m \in Ids, bootstrapKey(m) PROVE RowsInv'
  <2>1. /\ rows' = [rows EXCEPT ![m] = @ \union {"key"}]
        /\ UNCHANGED <<merchants, hierarchy, otpOf, kv, config>>
    BY <1>11 DEF bootstrapKey
  <2>2. rows' \in [Ids -> SUBSET Parts] /\ \A n \in Ids : rows[n] \subseteq rows'[n]
    BY <1>0, <2>1 DEF RowsInv, Parts
  <2>3. OtpIsHad'
    <3>1. otpOf # 0 => otpOf \in Ids
      BY <1>0, Numbers DEF RowsInv, Ids
    <3> QED BY <1>0, <2>1, <2>2, <3>1 DEF RowsInv, OtpIsHad
  <2> QED BY <1>0, <2>1, <2>2, <2>3 DEF RowsInv, TenantIntegrity
<1>12. ASSUME NEW m \in Ids, NEW n \in {1, 2}, Counts(m, n) PROVE extra' \in 0..MaxExtra
  BY <1>0, <1>12, Numbers DEF Counts, RowsInv
<1>13. ASSUME NEW m \in Ids, createBrand(m) PROVE RowsInv'
  <2>1. extra' \in 0..MaxExtra
    BY <1>12, <1>13 DEF createBrand, More
  <2>2. [m |-> m, slug |-> "other"] \in Brands
    BY DEF Brands
  <2> QED BY <1>0, <1>13, <2>1, <2>2 DEF createBrand, RowsInv, OtpIsHad, TenantIntegrity
<1>14. ASSUME NEW m \in Ids, NEW b \in brands, createStore(m, b) PROVE RowsInv'
  <2>1. extra' \in 0..MaxExtra
    BY <1>12, <1>14 DEF createStore, More
  <2>2. PICK s : s = [m |-> m, brand |-> b, slug |-> "main"]
    OBVIOUS
  <2>3. /\ stores' = stores \union {s} /\ b.m = m
        /\ UNCHANGED <<merchants, rows, brands, gates, otpOf, kv, fixedOtp, crashes>>
    BY <1>14, <2>2 DEF createStore
  <2>4. s \in Stores /\ s.brand.m = s.m
    BY <1>0, <2>2, <2>3 DEF RowsInv, Stores
  <2> QED BY <1>0, <2>1, <2>3, <2>4 DEF RowsInv, OtpIsHad, TenantIntegrity
<1>15. ASSUME NEW m \in Ids, NEW s \in stores, NEW owner \in Ids,
              createGate(m, s, owner) \/ (createGateFor(m, s) /\ owner = m) PROVE RowsInv'
  <2>1. extra' \in 0..MaxExtra
    BY <1>12, <1>15 DEF createGate, createGateFor, More
  <2>2. PICK g : g = [m |-> m, store |-> s, gatewayOf |-> owner]
    OBVIOUS
  <2>3. /\ gates' = gates \union {g} /\ s.m = m
        /\ UNCHANGED <<merchants, rows, brands, stores, otpOf, kv, fixedOtp, crashes>>
    BY <1>15, <2>2 DEF createGate, createGateFor
  <2>4. g \in Gates /\ g.store \in stores /\ g.store.m = g.m
    BY <1>0, <2>2, <2>3 DEF RowsInv, Gates
  <2> QED BY <1>0, <2>1, <2>3, <2>4 DEF RowsInv, OtpIsHad, TenantIntegrity
<1>16. ASSUME NEW r, \/ LookForMerchant(r) \/ Look(r) \/ ensureSystemBootstrapped(r)
                     \/ (\E name \in Names : install(r, name) \/ createMerchant(r, name))
                     \/ (\E m \in Ids : claim(r, m))
       PROVE  UNCHANGED <<merchants, rows, hierarchy, otpOf, kv, config>>
  BY <1>16 DEF LookForMerchant, Look, ensureSystemBootstrapped, install, createMerchant, claim, Begin
<1>17. UNCHANGED vars => UNCHANGED <<merchants, rows, hierarchy, otpOf, kv, config>>
  BY DEF vars
<1> HIDE DEF hierarchy, kv, config
<1>18. ASSUME NEW r \in Runs, Continue(r) \/ Crash(r) PROVE RowsInv'
  BY <1>1, <1>2, <1>3, <1>4, <1>5, <1>6, <1>7, <1>8, <1>9, <1>16, <1>18 DEF Continue
<1>19. ASSUME NEW m \in Ids, \/ bootstrapKey(m)
                             \/ createBrand(m)
                             \/ (\E b \in brands : createStore(m, b))
                             \/ (\E s \in stores, owner \in Ids : createGate(m, s, owner))
                             \/ (\E s \in stores : createGateFor(m, s))
                             \/ ClaimExpires(m)
       PROVE  RowsInv'
  BY <1>10, <1>11, <1>13, <1>14, <1>15, <1>19
<1> QED BY <1>1, <1>16, <1>17, <1>18, <1>19 DEF Next
-----------------------------------------------------------------------------

LEMMA SafetyInit == Init => SafetyInv
<1> SUFFICES ASSUME Init PROVE SafetyInv
  OBVIOUS
<1>1. \A r \in Runs : run[r] = Idle
  BY DEF Init
<1>2. \A r \in Runs : run[r].prog = "idle" /\ run[r].m = 0 /\ run[r] \in RunRows /\ ~Running(r)
  BY <1>1, IdleRow, ProgramKinds DEF Idle, Running
<1>3. RunShape /\ StepsDone /\ ClaimingIsComplete
  <2>1. run \in [Runs -> RunRows]
    BY <1>2 DEF Init
  <2> QED BY <1>2, <2>1 DEF RunShape, StepsDone, ClaimingIsComplete
<1>4. TypeOK
  <2>1. merchants \in Seq([name: Names, platform: BOOLEAN]) /\ Len(merchants) <= MaxMerchants
    BY Numbers DEF Init
  <2>2. rows \in [Ids -> SUBSET Parts]
    BY DEF Init
  <2>3. otpOf \in 0..MaxMerchants /\ crashes \in 0..MaxCrashes /\ extra \in 0..MaxExtra
    BY Numbers DEF Init
  <2>4. \A r \in Runs : /\ run[r].prog \in DOMAIN Programs \union {"idle", "claiming"}
                        /\ run[r].m \in 0..MaxMerchants
    BY <1>2, Numbers
  <2>5. /\ brands \subseteq Brands /\ stores \subseteq Stores /\ gates \subseteq Gates
        /\ fixedOtp \in BOOLEAN /\ installed \in BOOLEAN /\ bootstrapped \in BOOLEAN
        /\ claims \subseteq Ids /\ claimed \subseteq Ids
        /\ seeding \in [Ids -> DOMAIN Programs \union {"none", "stopped"}]
    BY DEF Init
  <2> QED BY <2>1, <2>2, <2>3, <2>4, <2>5 DEF TypeOK
<1>5. OtpIsHad /\ InstalledIsUsable /\ ClaimedIsComplete /\ TenantIntegrity
  BY DEF Init, OtpIsHad, InstalledIsUsable, ClaimedIsComplete, TenantIntegrity
<1>6. SeedInv
  BY <1>2 DEF SeedInv, Seeding, At, Running
<1> QED BY <1>3, <1>4, <1>5, <1>6 DEF SafetyInv

LEMMA SafetyStep == SafetyInv /\ [Next]_vars => SafetyInv'
<1> SUFFICES ASSUME SafetyInv, [Next]_vars PROVE SafetyInv'
  OBVIOUS
<1>1. /\ ProgramsInv' /\ RowsInv' /\ InstalledIsUsable' /\ ClaimedIsComplete'
      /\ SeedInv' /\ SeedType'
  BY ProgramsStep, RowsStep, FlagsStep, SeedsStep
<1>2. TypeOK'
  <2>1. \A r \in Runs : /\ run'[r].prog \in DOMAIN Programs \union {"idle", "claiming"}
                        /\ run'[r].m \in 0..MaxMerchants
    BY <1>1 DEF ProgramsInv, RunShape, RunRows
  <2> QED BY <1>1, <2>1 DEF RowsInv, SeedType, TypeOK
<1> QED BY <1>1, <1>2 DEF SafetyInv, ProgramsInv, RowsInv

LEMMA SafetyInvariant == Spec => []SafetyInv
BY SafetyInit, SafetyStep, PTL DEF Spec

\* The rows, the keys of KV and the programs keep their types, however the
\* wizard, the bootstraps and the platform interleave and wherever they stop.
THEOREM TypeCorrect == Spec => []TypeOK
<1>1. SafetyInv => TypeOK
  BY DEF SafetyInv
<1> QED BY <1>1, SafetyInvariant, PTL

\* Stores hang under brands, and gates under stores, of their own merchant
\* (services/hierarchy.ts; controllers/admin-api.ts): also where the program
\* writes with the id of a store it was given some statements ago.
THEOREM TenantsApart == Spec => []TenantIntegrity
<1>1. SafetyInv => TenantIntegrity
  BY DEF SafetyInv
<1> QED BY <1>1, SafetyInvariant, PTL

\* KV says installed, or bootstrapped, only of a deployment with a platform
\* merchant that works (controllers/install.ts, services/bootstrap.ts), also
\* when the bootstrap resumed what the wizard or another isolate left half
\* done; and every gateway has its details and its gate, unless the one
\* program that inserted it is at them or was stopped before them
\* (bootstrap.ts:130-169 skips both for a gateway it finds).
THEOREM FlagsAreTrue == Spec => []InstalledIsUsable
<1>1. SafetyInv => InstalledIsUsable
  BY DEF SafetyInv
<1> QED BY <1>1, SafetyInvariant, PTL

\* Credentials are only ever offered of a complete merchant, and stay true of
\* it while the claim is between KV get and KV delete (controllers/admin-api.ts).
THEOREM ClaimsAreComplete == Spec => []ClaimedIsComplete
<1>1. SafetyInv => ClaimedIsComplete
  BY DEF SafetyInv
<1> QED BY <1>1, SafetyInvariant, PTL
=============================================================================
