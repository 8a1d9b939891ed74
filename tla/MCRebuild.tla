----------------------------- MODULE MCRebuild ------------------------------
(***************************************************************************)
(* MacroBuild for TLC.  Files and the parts of their texts are             *)
(* interchangeable, so it is enough to begin with one crate of each kind:  *)
(* no file, one file, or two whose parts are the same or not.              *)
(***************************************************************************)
EXTENDS MacroBuild

InTurn ==
    /\ source["a"] \in {Absent, [kind |-> "good", rust |-> 1, ty |-> 1]}
    /\ source["a"] = Absent => source["b"] = Absent

MCInit == BuildInit /\ InTurn

MCSpec == MCInit /\ [][BuildNext]_buildVars /\ WF_buildVars(BuildRun)
=============================================================================
