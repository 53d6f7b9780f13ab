--------------------------- MODULE MCFilterClient ---------------------------
(***************************************************************************)
(* One processor, one address and one update thread beside the UI thread;  *)
(* a queue of one notification stands for 64.  MaxSets is the number of    *)
(* calls of setranges, and is what each .cfg chooses.                      *)
(***************************************************************************)
EXTENDS FilterClient

CONSTANTS c1, u1, a1

MCCpus     == {c1}
MCUpdaters == {u1}
MCAddrs    == {a1}
=============================================================================
