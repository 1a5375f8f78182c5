--------------------------- MODULE MCCuratorUpgrade ---------------------------
(* Values of the constants of CuratorUpgrade for TLC.                        *)
EXTENDS CuratorUpgrade

CONSTANTS fast, stable, v1, v2, v22, np1, np2

mcChannels == {fast, stable}
mcVersions == {v2, v22}
mcThreeVersions == {v1, v2, v22}
mcNodePools == {np1, np2}
mcOnePool == {np1}

\* "4.19.22" contains "4.19.2".
mcContains == {<<v, v>> : v \in mcVersions} \cup {<<v22, v2>>}
mcThreeContains == {<<v, v>> : v \in mcThreeVersions} \cup {<<v22, v2>>}

mcNodePool == {"nodePool"}
mcSuite == {"channel", "controlPlane", "nodePool"}
===============================================================================
