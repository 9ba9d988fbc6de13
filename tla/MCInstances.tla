---------------------------- MODULE MCInstances ----------------------------
EXTENDS Instances, TLC

CONSTANTS i1, i2, i3, ip1, r1, r2

\* A release with one more file is rolled out, twice, beside the one before it.
MCCarried == (i1 :> 1) @@ (i2 :> 2) @@ (i3 :> 2)
=============================================================================
