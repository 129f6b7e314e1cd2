--------------------------- MODULE MCCgroupPids ---------------------------
EXTENDS CgroupPids, TLC

CONSTANTS root, a, b, i1, i2, i3, i4

\* The identities other than the first process's are interchangeable.
Identities == Permutations({i2, i3, i4})

\* One cgroup below the root.
FlatParent == (a :> root)
FlatAbove == (root :> {root}) @@ (a :> {a, root})
FlatPins == (root :> 0) @@ (a :> 1)

\* A chain of two directories below the root.
ChainParent == (a :> root) @@ (b :> a)
ChainAbove == (root :> {root}) @@ (a :> {a, root}) @@ (b :> {b, a, root})
ChainPins == [n \in Nodes |-> 0]
=============================================================================
