----------------------------- MODULE SecretContract -----------------------------
(***************************************************************************)
(* The promise of the S3 secret spec to those who share the secret with    *)
(* it: it touches one key of its own, which it adds once, unless an earlier*)
(* run has left it there, and only to a secret with a region, and which it *)
(* takes out once, at its end; each of its writes is a single step that    *)
(* leaves the rest of the secret as it is at that moment; and it passes    *)
(* only by taking its key out.                                             *)
(***************************************************************************)

VARIABLES
    region, data,  \* what the others keep in the secret
    test,          \* the key of the spec is in it
    phase          \* where the spec is on its way to a verdict

contractVars == <<region, data, test, phase>>

ContractInit == phase = "adding"

OthersKept == UNCHANGED <<region, data>>

AddKey ==
    /\ phase = "adding" /\ region
    /\ test' /\ phase' = "holding"
    /\ OthersKept

\* The spec gives up adding its key, or finds no region in the secret.
AddNothing ==
    /\ phase = "adding" /\ phase' = "holding"
    /\ UNCHANGED test /\ OthersKept

TakeKeyOut ==
    /\ phase = "holding"
    /\ ~test' /\ phase' \in {"passed", "failed"}
    /\ OthersKept

FailSpec ==
    /\ phase = "holding" /\ phase' = "failed"
    /\ UNCHANGED test /\ OthersKept

OthersWrite == UNCHANGED <<region, test, phase>>

ContractNext == AddKey \/ AddNothing \/ TakeKeyOut \/ FailSpec \/ OthersWrite

ContractSpec == ContractInit /\ [][ContractNext]_contractVars
=================================================================================
