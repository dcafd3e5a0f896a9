----------------------------- MODULE MCWebLogin -----------------------------
(***************************************************************************)
(* Two requests are served alike: WebLogin up to their exchange.           *)
(***************************************************************************)
EXTENDS WebLogin, TLC

RequestSymmetry == Permutations(Requests)
=============================================================================
