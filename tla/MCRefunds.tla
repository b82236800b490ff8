----------------------------- MODULE MCRefunds -----------------------------
(***************************************************************************)
(* Small instances of Refunds: requests for the whole amount or for half.  *)
(***************************************************************************)
EXTENDS Refunds

MCAmount == [r \in Refunds |-> IF r = "whole" THEN 2 ELSE 1]
=============================================================================
