---------------------------- MODULE UploadClaims ----------------------------
(***************************************************************************)
(* What the repository's documents and comments say of uploads and the     *)
(* code, as Upload models it, does not do.  The run that checks each one   *)
(* ends in a counterexample.                                               *)
(***************************************************************************)
EXTENDS Upload

(* db/models.py: "a publish_id already being set means the bytes are        *)
(* already uploaded, don't upload again -- just resume polling".  But it is *)
(* set before the first byte is sent, so that one 5xx on a chunk makes the  *)
(* retry poll for bytes that nobody ever sends.                             *)
ResumedIsSent ==
  \A t \in Tasks : run[t].pc = "poll" => run[t].draft \in sent[t]

=============================================================================
