---------------------------- MODULE MCBulkUpload ----------------------------
(* Instances of BulkUpload for TLC: files of up to MaxRows rows. *)
EXTENDS BulkUpload
=============================================================================
