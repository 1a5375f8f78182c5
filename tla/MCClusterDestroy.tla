---------------------------- MODULE MCClusterDestroy ----------------------------
(* Values of the constants of ClusterDestroy for TLC: two AWS clusters and a  *)
(* KubeVirt cluster (either spec for all clusters meets strangers).           *)
EXTENDS ClusterDestroy

CONSTANTS a1, a2, k1

mcPlatformOf == [c \in {a1, a2, k1} |-> IF c = k1 THEN "kubevirt" ELSE "aws"]
=================================================================================
