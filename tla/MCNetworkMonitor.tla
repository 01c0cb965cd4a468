------------------------- MODULE MCNetworkMonitor -------------------------
(* Small instances of NetworkMonitor for TLC.                              *)
EXTENDS NetworkMonitor

\* No directory yet: netlogd starts before systemd-networkd.
MCNoDirs == {}

\* Only netif/: networkd has started and not yet written a link.
MCNetifOnly == {Netif}

\* Both directories: networkd has run before netlogd.
MCAllDirs == {Netif, Links}
====
