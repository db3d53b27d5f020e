--------------------------- MODULE WinrtDiscoveryMC ---------------------------
(* WinrtDiscovery on a search for classic devices with two of them paired,   *)
(* nothing that fails and nobody who stops it.                               *)
EXTENDS WinrtDiscovery

McPairedSearch ==
  {[starts |-> 1, methods |-> {"classic"},
    paired |-> [m \in {"classic", "le"} |-> IF m = "classic" THEN WdDevices ELSE {}],
    adverts |-> 0, timeout |-> FALSE, may |-> {}]}
===============================================================================
