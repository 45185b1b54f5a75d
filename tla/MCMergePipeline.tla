--------------------------- MODULE MCMergePipeline ---------------------------
(***************************************************************************)
(* MergePipeline for TLC: every folder of up to three files of up to two   *)
(* lines with timestamps 1 and 2, sorted or not, and a folder of five      *)
(* files, whose tree has three levels.                                     *)
(***************************************************************************)
EXTENDS MergePipeline

SmallFiles == UNION {[1..n -> {1, 2}] : n \in 0..2}
MCFolders == UNION {[1..n -> SmallFiles] : n \in 0..3}
                 \cup {<<<<2>>, <<1>>, <<>>, <<1>>, <<1, 3>>>>}
=============================================================================
