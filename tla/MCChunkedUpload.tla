-------------------------- MODULE MCChunkedUpload --------------------------
(* A small instance of ChunkedUpload for TLC.                               *)
EXTENDS ChunkedUpload
=============================================================================
