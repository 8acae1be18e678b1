--------------------------- MODULE MCSelfUpdate ---------------------------
(* Three releases: the second needs a new JBLibs and brings a private      *)
(* plugin, the third takes the public one out of the catalog.              *)
EXTENDS SelfUpdate, TLC

CONSTANTS lib, core, public, private

MCPin == << [m \in Modules |-> 1],
            [m \in Modules |-> 2],
            [m \in Modules |-> IF m = public THEN 2 ELSE 3] >>

MCCatalog == << {public}, {public, private}, {private} >>

MCRuns == << {1, 2}, {2}, {2, 3} >>
===========================================================================
