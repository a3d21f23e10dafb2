------------------------------ MODULE MCPaging ------------------------------
(***************************************************************************)
(* Instances of Paging.tla for TLC.                                        *)
(***************************************************************************)
EXTENDS Paging

\* Four rows, so that two pages of one and one of two leave a row over.
MCRows == 1 .. 4

\* An event whose id is neither the first nor the last.
MCOthers == {2}
=============================================================================
