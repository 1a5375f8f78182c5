-------------------------------- MODULE Options --------------------------------
(***************************************************************************)
(* options.go: where a run takes each of its options from.  env is the set *)
(* of options whose environment variable is set, file the set of those the *)
(* loaded options file gives a value.  A lookup is the source of its value:*)
(* the environment, the file, a default, nothing (it returns the empty     *)
(* string), or an error.                                                   *)
(***************************************************************************)

\* An options file may be named by the flag or by OPTIONS_FILE; else it is
\* ../resources/options.yaml.  The first name counts, whether or not there is
\* such a file.
Places == {"flag", "env", "default"}
OptionsFile(given) ==
    IF "flag" \in given THEN "flag" ELSE IF "env" \in given THEN "env" ELSE "default"

\* The options with a field in the file.
ClusterOptions == {"ClusterName", "Region", "NodePoolReplicas", "BaseDomain",
    "ReleaseImage", "InstanceType"}
CuratorOptions == {"Channel", "UpgradeType", "DesiredUpdate"}
CredentialOptions == {"AWSCreds", "PullSecret", "AWSSecretCreds", "S3AccessKeyID", "S3AccessSecret"}
InFile == ClusterOptions \cup CuratorOptions \cup CredentialOptions

\* The options only the environment can give; without it, the tower options
\* are empty, two are missed, and the others have a default.
TowerOptions == {"TowerHost", "TowerToken"}
Required == {"AWSStsCreds", "AWSRoleArn"}
Defaulted == {"Namespace", "Arch", "CuratorEnabled", "FIPSEnabled", "KVMem", "KVCPUCores"}
    \cup {"AWSSecretCreds", "Channel"}

\* The file has the options of a cluster for AWS only.
Lookup(option, cloud, env, file) ==
    IF option \in env THEN "env"
    ELSE IF option \in Required \/ (option \in ClusterOptions /\ cloud # "aws") THEN "error"
    ELSE IF option \in InFile \cap file THEN "file"
    ELSE IF option \in Defaulted THEN "default"
    ELSE "empty"

\* The access key and its secret come from one source.
S3Options == {"S3AccessKeyID", "S3AccessSecret"}
S3Creds(env, file) ==
    LET sourceOf(option) ==
            IF S3Options \subseteq env THEN "env" ELSE Lookup(option, "aws", {}, file)
    IN <<sourceOf("S3AccessKeyID"), sourceOf("S3AccessSecret")>>
=================================================================================
