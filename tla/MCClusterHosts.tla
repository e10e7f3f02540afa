--------------------------- MODULE MCClusterHosts ---------------------------
(***************************************************************************)
(* ClusterHosts for a service of one component and two hosts.              *)
(***************************************************************************)
EXTENDS ClusterHosts, TLC

CONSTANTS k1, s1, c1, h1, h2, pr, ga

MCClusterOf == s1 :> k1
MCServiceOf == c1 :> s1
MCProviderOf == h1 :> pr @@ h2 :> pr
MCGroupOwner == ga :> s1

=============================================================================
