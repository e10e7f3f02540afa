-------------------------- MODULE MCClusterUpgrade --------------------------
(***************************************************************************)
(* Three services: one in both bundles, with a component that stays, one   *)
(* that goes and one that is new; one of the first bundle only; one the    *)
(* upgrade adds.                                                           *)
(***************************************************************************)
EXTENDS ClusterUpgrade, TLC

CONSTANTS s1, s2, s3, c1, c2, c3, c4, h1, r1, r2

MCServiceOf == c1 :> s1 @@ c2 :> s1 @@ c3 :> s1 @@ c4 :> s2
MCOffered == <<{s1, s2, c1, c2, c4}, {s1, s3, c1, c3}>>
MCConfigured == <<{c2, s2, TheCluster}, {TheCluster, s1}>>
MCAdded == <<{}, {s1, s3}>>

RequestSymmetry == Permutations(Request)

=============================================================================
