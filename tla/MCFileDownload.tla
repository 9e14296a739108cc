--------------------------- MODULE MCFileDownload ---------------------------
(* Instances of FileDownload: one downloading thread and one that sends
   other requests. *)
EXTENDS FileDownload, TLC
=============================================================================
