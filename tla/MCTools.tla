------------------------------- MODULE MCTools -------------------------------
(***************************************************************************)
(* TLC instance of CleaningTools: two folders, a directory with a target   *)
(* in it and another file in the first and a file in the second, each of   *)
(* which may be missing at first and created later.                        *)
(***************************************************************************)
EXTENDS CleaningTools

CONSTANTS Chrome, Edge, sub, inner, plain, other

ParentOf ==
    [e \in {sub, inner, plain, other} |->
        CASE e = inner -> sub [] e = other -> Edge [] OTHER -> Chrome]

FoldersOf ==
    [t \in FolderTool |->
        CASE t = "clean_browser_cache" -> <<Chrome, Edge>>
          [] t = "clean_nvidia" -> <<Edge>>
          [] OTHER -> <<Chrome>>]

=============================================================================
