--------------------------- MODULE MCCatalogPublish ---------------------------
(* Instances of CatalogPublish for TLC: Lxns, whose bundle has two files,   *)
(* DivingFish, whose only file has an entity tag beside it, and DxData,     *)
(* whose only file may be absent.  Beside them stands ImageFiles, the other *)
(* directory the process writes: nothing is shared, so a setup without      *)
(* sources has the calls that draw and no catalog work.                     *)
EXTENDS CatalogPublish, ImageFiles, TLC

CONSTANTS Lxns, DivingFish, DxData, songs, aliases, music, dxdata

MCTargets == [s \in {Lxns, DivingFish, DxData} |->
               CASE s = Lxns -> <<songs, aliases>>
                 [] s = DivingFish -> <<music>>
                 [] s = DxData -> <<dxdata>>]
MCOptional == {dxdata}
MCTagged == {DivingFish}

(* A bundle of two files beside one that may be absent, with two failing    *)
(* operations; and one file with its tag, beside callers of the alias tools. *)
MCSetups ==
  { [sources |-> {Lxns, DxData}, loaded |-> <<songs, aliases, Doc, dxdata>>,
     refreshes |-> 1, edits |-> 1, faults |-> 2],
    [sources |-> {DivingFish}, loaded |-> <<music, Doc>>,
     refreshes |-> 1, edits |-> 3, faults |-> 1],
    [sources |-> {}, loaded |-> <<Doc>>, refreshes |-> 0, edits |-> 0, faults |-> 0] }

FilesInit == Init /\ ImageInit
FilesNext ==
  \/ setup.sources # {} /\ Next /\ UNCHANGED imageVars
  \/ setup.sources = {} /\ ImageNext /\ UNCHANGED vars
FilesSpec == FilesInit /\ [][FilesNext]_<<vars, imageVars>>

CallerSymmetry == Permutations(Caller)
=============================================================================
