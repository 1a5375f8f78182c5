---------------------------- MODULE MCClusterCreate ----------------------------
(* Values of the constants of ClusterCreate for TLC.                          *)
EXTENDS ClusterCreate

\* Two add-ons, one of them listed twice as cert-policy-controller is.
mcAcmAddOns == <<"cert-policy-controller", "cluster-proxy", "cert-policy-controller">>
mcMceAddOns == <<"cluster-proxy">>
================================================================================
