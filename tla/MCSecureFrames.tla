--------------------------- MODULE MCSecureFrames ---------------------------
(* Small instances of SecureFrames for TLC. *)
EXTENDS SecureFrames

CONSTANTS a, b, m1, m2, m3, f1, f2

\* a sends the texts m1, m2 and the file f1; b answers with m3.
MCAuthor == [m \in Msg |-> IF m = m3 THEN b ELSE a]
MCChunks == [f \in File |-> IF f = f1 THEN 2 ELSE 1]
=============================================================================
