------------------------- MODULE MCNetlogManager -------------------------
(* Small instances of NetlogManager for TLC.  Four journal records, four   *)
(* descriptors (stdin and three more) and two restarts: enough for a        *)
(* failed connect, a reconnect after a write error, a crash between a send *)
(* and a flush, and a full descriptor table after leaks.                   *)
EXTENDS NetlogManager

MCNRec == 4
MCMaxFd == 3
MCMaxRestart == 2
=============================================================================
