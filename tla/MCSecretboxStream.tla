------------------------- MODULE MCSecretboxStream --------------------------
(***************************************************************************)
(* SecretboxStream with blocks of four bytes; the buffers of the two       *)
(* passes hold one block and one and a half, and the longest message       *)
(* crosses four blocks.                                                    *)
(***************************************************************************)
EXTENDS SecretboxStream
=============================================================================
