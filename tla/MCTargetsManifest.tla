------------------------- MODULE MCTargetsManifest --------------------------
(* Instances of TargetsManifest for TLC.  The device is "rt" with tag "m"; *)
(* "r" abbreviates its hardware id, and two array elements are read.       *)
EXTENDS TargetsManifest

Device == <<"r", "t">>
Other == <<"x", "t">>
Shortened == <<"r">>
Tag == <<"m">>
OtherTag == <<"d">>

Target(f, v, h, t) == [fields |-> f, version |-> v, hwids |-> h, tags |-> t]

\* Everything the parser tells apart, in manifests of two entries.
VariedTargets ==
    {Target(f, v, h, t) :
        f \in {AllFields} \cup {AllFields \ {x} : x \in AllFields},
        v \in {1, 2},
        h \in {<<Device>>, <<Other>>, <<Other, Device>>, <<Shortened>>,
               <<Other, Other, Device>>},
        t \in {<<Tag>>, <<OtherTag>>, <<OtherTag, Tag>>}}

MalformedTargets ==
    {Target(f, v, <<Device>>, <<Tag>>) :
        f \in {AllFields, AllFields \ {"sha256"}}, v \in 1 .. 3}
=============================================================================
