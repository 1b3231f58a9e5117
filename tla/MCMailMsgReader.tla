--------------------------- MODULE MCMailMsgReader ---------------------------
(* MailMsgReader for TLC: a blocking and a non-blocking file. *)
EXTENDS MailMsgReader
=============================================================================
