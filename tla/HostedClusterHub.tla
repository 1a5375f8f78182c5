--------------------------- MODULE HostedClusterHub ---------------------------
(***************************************************************************)
(* What the upgrade specs read of the hub, and what each of them is asked  *)
(* to establish there.  The module has no variables: CuratorUpgrade (the   *)
(* code) and UpgradeContract (its promise) both extend it.                 *)
(***************************************************************************)
EXTENDS Naturals

CONSTANTS
    Selected,       \* the upgrade specs chosen by the label filter
    Channels,       \* update channels, e.g. fast-4.14
    Versions,       \* OCP versions, e.g. 4.19.22
    NodePools,      \* names of the NodePools of the HostedCluster
    NoValue,        \* an unset string option or an absent JSON field
    TestChannel,    \* options.clustercurator.channel
    DesiredUpdate,  \* options.clustercurator.desiredUpdate
    UpgradeType,    \* options.clustercurator.upgradeType
    Contains        \* pairs <<v, w>>: the release image of v contains the text w

SpecNames == {"channel", "controlPlane", "nodePool"}
UpgradeTypes == {"ControlPlane", "NodePools", "both"}

ASSUME SelectedAssumption == Selected \subseteq SpecNames
ASSUME NoValueAssumption == NoValue \notin Channels \cup Versions \cup UpgradeTypes
ASSUME OptionsAssumption ==
    /\ TestChannel \in Channels \cup {NoValue}
    /\ DesiredUpdate \in Versions \cup {NoValue}
    /\ UpgradeType \in UpgradeTypes
ASSUME ContainsAssumption ==
    /\ Contains \subseteq Versions \X Versions
    /\ \A v \in Versions : <<v, v>> \in Contains

-----------------------------------------------------------------------------
\* The HostedCluster's spec.channel and spec.release, and the spec.release of
\* each of its NodePools.
HostedClusterState ==
    [exists : BOOLEAN, channel : Channels \cup {NoValue}, release : Versions]
NodePoolStates == UNION {[P -> Versions] : P \in SUBSET NodePools}

\* gomega.ContainSubstring(desiredUpdate) applied to a release image.
ReleaseMatches(release) == <<release, DesiredUpdate>> \in Contains

ChannelReflected(hc) == hc.channel = TestChannel
ControlPlaneReflected(hc) == ReleaseMatches(hc.release)
NodePoolsReflected(np) ==
    /\ DOMAIN np # {}
    /\ \A n \in DOMAIN np : ReleaseMatches(np[n])

\* What the hub must show for spec s to pass.
Reflects(s, hc, np) ==
    \/ s = "channel" /\ ChannelReflected(hc)
    \/ s = "controlPlane" /\ ControlPlaneReflected(hc)
    \/ s = "nodePool" /\ NodePoolsReflected(np)

\* ginkgo.Skip: the options do not ask for this kind of upgrade.
SkipsControlPlane == UpgradeType # "ControlPlane" \/ DesiredUpdate = NoValue
SkipsNodePool == UpgradeType # "NodePools" \/ DesiredUpdate = NoValue
Skips(s) ==
    \/ s = "controlPlane" /\ SkipsControlPlane
    \/ s = "nodePool" /\ SkipsNodePool
=============================================================================
