---------------------------- MODULE MCLongPoll ----------------------------
(* Small instances of LongPoll for model checking.                         *)
EXTENDS LongPoll
=============================================================================
