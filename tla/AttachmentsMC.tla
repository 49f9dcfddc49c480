--------------------------- MODULE AttachmentsMC ----------------------------
(* Attachments on a small instance: one upload, one task in each bucket.    *)
EXTENDS Attachments, TLC

CONSTANTS f1
=============================================================================
