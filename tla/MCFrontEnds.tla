----------------------------- MODULE MCFrontEnds -----------------------------
(* Two nodes with a feed of two items out of three; one HTTP and one WebSocket
   address; a cleanup of five rows in pages of two. *)
EXTENDS FrontEnds
MCRejected == {1, 2, 4}
=============================================================================
