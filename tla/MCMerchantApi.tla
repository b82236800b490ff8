---------------------------- MODULE MCMerchantApi ----------------------------
(* Instances of MerchantApi for TLC.                                        *)
EXTENDS MerchantApi, TLC

CONSTANTS m1, m2, k1, k2, r0, i1, b1

Full(m) == [status |-> "active", owner |-> m, scopes |-> Scopes, from |-> NoApiKey]
MCInitialKeys ==
  {[k \in ApiKeys |-> IF k = k1 THEN Full(m1) ELSE IF k = k2 THEN Full(m2) ELSE NoRow]}

\* The default, fewer and more.
MCAskedScopes == {{"read"}, {"read", "write"}, Scopes}

MCYesterday == {[req |-> r0, merchant |-> m1, idem |-> i1, body |-> b1]}

Symmetry == Permutations(Requests \ {r0}) \union Permutations(ApiKeys \ {k1, k2})
=============================================================================
