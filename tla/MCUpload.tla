------------------------------ MODULE MCUpload ------------------------------
(* Upload for TLC.  Tasks are interchangeable, and so are clips.            *)
EXTENDS UploadClaims, TLC

Interchangeable == Permutations(Tasks) \cup Permutations(Clips)
=============================================================================
