------------------------------- MODULE MCSuiteRun -------------------------------
(* Values of the constants of SuiteRun for TLC.                               *)
EXTENDS SuiteRun

CONSTANTS s1, s2, l1

Named == {"S3AccessKeyID", "S3AccessSecret", "Region"}
Input(env, given, files, reportFile) ==
    [env |-> env, given |-> given, files |-> files, reportFile |-> reportFile]
\* The environment has both parts of the access key, one, or none; the file that
\* counts has both, one, none, or cannot be read although another one can.
MCInputs ==
    {Input(S3Options, {}, [default |-> Named], "writable"),
     Input({"S3AccessKeyID"}, {}, [default |-> Named], "writable"),
     Input({"S3AccessSecret"}, {"env"}, [env |-> {"S3AccessKeyID"}, default |-> Named], "unset"),
     Input({"Region"}, {"flag", "env"}, [flag |-> Named, env |-> {}], "unwritable"),
     Input(S3Options, {"env"}, [default |-> Named], "writable")}
=================================================================================
