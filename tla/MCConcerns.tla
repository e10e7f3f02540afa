----------------------------- MODULE MCConcerns -----------------------------
(***************************************************************************)
(* Concerns for a cluster with two or more services on two hosts of one    *)
(* provider.                                                               *)
(***************************************************************************)
EXTENDS Concerns, TLC

CONSTANTS k1, s1, s2, s3, s4, c1, c2, h1, h2, pr

\* two services of one component
MCClusterOf == s1 :> k1 @@ s2 :> k1
MCServiceOf == c1 :> s1 @@ c2 :> s2
MCProviderOf == h1 :> pr @@ h2 :> pr
MCRequires == s1 :> {} @@ s2 :> {s1}
MCConstraint == c1 :> {"all"} @@ c2 :> {"zeroOrOdd"}
MCNeeds == [o \in Service \cup Component |-> IF o = s2 THEN {c1} ELSE {}]
MCNeedsServices == c1 :> {s2} @@ c2 :> {}
MCBoundTo == [c \in Component |-> {}]

\* the hosts are alike
Symmetry == Permutations(Host)

\* four services without components: the second requires the third
MCClusterOfFour == [s \in {s1, s2, s3, s4} |-> k1]
MCRequiresThird == [s \in {s1, s2, s3, s4} |-> IF s = s2 THEN {s3} ELSE {}]
MCNoNeeds == [s \in {s1, s2, s3, s4} |-> {}]
MCNothing == [x \in {} |-> {}]

=============================================================================
