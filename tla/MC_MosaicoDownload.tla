------------------------- MODULE MC_MosaicoDownload -------------------------
(* Two topics, one of them unstamped, for TLC. *)
EXTENDS MosaicoDownload, TLC

CONSTANTS t1, t2

MCTopics == {t1, t2}
MCUnstamped == {t2}
===========================================================================
