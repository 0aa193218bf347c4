------------------------------ MODULE MCUpload ------------------------------
(* Two sectors of two cells; a chunk of two cells and one of a single one. *)
EXTENDS Upload
MCChunkEnds == <<2, 3>>
MCSectorEnds == <<2, 4>>
=============================================================================
