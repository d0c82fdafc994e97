----------------------------- MODULE MCBackups -----------------------------
(***************************************************************************)
(* Backups for TLC: two contacts.  The first is on disk with a message and *)
(* may send another; the second is in an older backup, with a message, and *)
(* may be met.                                                             *)
(***************************************************************************)
EXTENDS Backups

MCContactOf(m) == IF m <= 2 THEN "a" ELSE "b"
MCKept == {<<"contacts", "a">>, <<"conversations", "a">>, <<"messages", 1>>}
MCOlder == {<<"contacts", "b">>, <<"conversations", "b">>, <<"messages", 3>>}
=============================================================================
