--------------------------- MODULE MCReplyBuffer ---------------------------
(***************************************************************************)
(* Replies of a session for TLC; the bounds are in the configurations.     *)
(***************************************************************************)
EXTENDS ReplyBuffer
=============================================================================
