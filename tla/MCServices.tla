----------------------------- MODULE MCServices -----------------------------
(* Instances of Services for TLC: a provider, a dependent that provides in    *)
(* turn, and the root as a rival.                                             *)
EXTENDS Services, TLC

CONSTANTS a, b, s, t, k1, k2

MCRequires  == (a :> {s}) @@ (b :> {t})
MCPublishes == (a :> {<<s, k2>>, <<t, k1>>}) @@ (b :> {}) @@ (RootFiber :> {<<s, k1>>, <<t, k1>>})
=============================================================================
