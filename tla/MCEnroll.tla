------------------------------ MODULE MCEnroll ------------------------------
(***************************************************************************)
(* Small instances of Enroll.  "H2" is a hostname with capitals whose      *)
(* lower-case form is "h2".                                                *)
(***************************************************************************)
EXTENDS Enroll

MCLower == [h \in Hostnames |-> IF h = "H2" THEN "h2" ELSE h]

At(h, x) == [hostname |-> h, uri |-> x]

\* A growing site; a renamed host; h1 on the other BMC, which replaces the
\* first one if ironic did not know it and takes over its name if it did; a
\* name one node gives up and another takes; a hostname typed twice; no host.
MCSite == { <<At("h1", "bmc1")>>,
            <<At("h1", "bmc1"), At("H2", "bmc2")>>,
            <<At("h3", "bmc1"), At("H2", "bmc2")>>,
            <<At("h1", "bmc2")>>,
            <<At("H2", "bmc1"), At("h3", "bmc2")>>,
            <<At("H2", "bmc1"), At("H2", "bmc2")>>, <<>> }
=============================================================================
