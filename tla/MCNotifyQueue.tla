--------------------------- MODULE MCNotifyQueue ---------------------------
(***************************************************************************)
(* Two processors run callouts, one thread of the program reads: the only  *)
(* thread that issues IOCTL_PEERBLOCK_GETNOTIFICATION and CancelIo is      *)
(* pbfilter_base::thread_func.  Capacity stands for 64.                    *)
(***************************************************************************)
EXTENDS NotifyQueue

CONSTANTS s1, s2, t1, i1, i2, n1, n2

MCSenders == {s1, s2}
MCThreads == {t1}
MCIrps    == {i1, i2}
MCNotes   == {n1, n2}
=============================================================================
