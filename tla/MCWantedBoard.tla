--------------------------- MODULE MCWantedBoard ---------------------------
(***************************************************************************)
(* WantedBoard for TLC: one poster with an image and a video, one          *)
(* with neither, whose key sorts first.                                    *)
(***************************************************************************)
EXTENDS WantedBoard

CONSTANTS p1, p2

MCMediaOf(p) == IF p = p1 THEN {"image", "video"} ELSE {}
MCBefore(p, q) == p = p2 /\ q = p1
=============================================================================
