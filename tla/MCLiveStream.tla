--------------------------- MODULE MCLiveStream ---------------------------
(* Module LiveStream over the segments 1 .. MaxSeq of a recorded stream, or  *)
(* of a live one whose playlist slides.                                      *)
EXTENDS LiveStream
=============================================================================
