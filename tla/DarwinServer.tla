----------------------------- MODULE DarwinServer -----------------------------
(***************************************************************************)
(* QBluetoothServer on macOS (qbluetoothserver_macos.mm, btsocketlistener  *)
(* .mm, qbluetoothserviceinfo_macos.mm): servers claim invented ports in a *)
(* registry they share, and a service registered for a port starts and     *)
(* stops the listener of the server it finds there.                        *)
(***************************************************************************)
EXTENDS Integers, FiniteSets

CONSTANTS
  DvServers,     \* QBluetoothServer objects
  DvPorts,       \* 1..30 for RFCOMM
  DvScenarios

DvFlags == {"askForPort", "listenerFails", "relisten", "lateUnregister"}
ASSUME DvAssumption ==
  /\ DvPorts \in Nat \ {0}
  /\ \A s \in DvScenarios :
       s.may \subseteq DvFlags /\ s.listens \in Nat /\ s.peers \in Nat

VARIABLE dv

DvMay(flag) == flag \in dv.scenario.may
Ports == 1..DvPorts
Nobody == "nobody"

\* registry: busyChannels().  Of each server: its port, its listener, the port its
\* service information names while it is registered, the connections that wait.
DvServer == [port |-> 0, listener |-> "none", service |-> 0, pending |-> 0]
DvInit ==
  \E s \in DvScenarios :
    dv = [scenario |-> s, registry |-> [p \in Ports |-> Nobody],
          server |-> [v \in DvServers |-> DvServer], listens |-> 0, peers |-> 0,
          errors |-> 0]

Free(r) == {p \in Ports : r.registry[p] = Nobody}
FindFreeChannel(r) ==
  IF Free(r) = {} THEN 0 ELSE CHOOSE p \in Free(r) : \A q \in Free(r) : p <= q
\* unregisterServer(): whoever is registered for the port is removed.
UnregisterServer(r, v) ==
  LET port == r.server[v].port
  IN IF port = 0 THEN r ELSE [r EXCEPT !.registry[port] = Nobody]

\* close() and listen(); port: 0, or the one that is asked for.
DvServerClose(r, v) ==
  LET stopped == [r EXCEPT !.server[v].listener = "none"]
  IN [UnregisterServer(stopped, v) EXCEPT !.server[v].port = 0]
ListenOn(r, v, port) ==
  LET chosen == IF port = 0 THEN FindFreeChannel(r) ELSE port IN
  IF chosen = 0 \/ r.registry[chosen] # Nobody THEN [r EXCEPT !.errors = 1]
  ELSE [r EXCEPT !.server[v].port = chosen, !.registry[chosen] = v,
                 !.server[v].listener = "idle"]

\* registerService() starts the listener of the server it finds at its port,
\* unregisterService() stops it; ok: what registerForChannelOpenNotifications()
\* returns.
Found(r, port) == IF port = 0 THEN Nobody ELSE r.registry[port]
RegisterDarwinService(r, v, ok) ==
  LET port == r.server[v].port
      w == Found(r, port)
      n == [r EXCEPT !.server[v].service = port]
  IN IF w = Nobody THEN n
     ELSE [n EXCEPT !.server[w].listener = IF ok THEN "live" ELSE "none"]
UnregisterDarwinService(r, v) ==
  LET w == Found(r, r.server[v].service)
      n == [r EXCEPT !.server[v].service = 0]
  IN IF w = Nobody THEN n ELSE [n EXCEPT !.server[w].listener = "none"]

--------------------------------------------------------------------------------
\* The application, which unregisters a service before it closes the server, and
\* closes the server before it listens again, unless the scenario says otherwise.
DvListen(v) ==
  /\ dv.server[v].listener = "none" /\ dv.listens < dv.scenario.listens
  /\ dv.server[v].port # 0 => DvMay("relisten")
  /\ \E port \in {0} \cup (IF DvMay("askForPort") THEN Ports ELSE {}) :
       dv' = ListenOn([dv EXCEPT !.listens = @ + 1], v, port)
DvRegister(v) ==
  /\ dv.server[v].listener = "idle" /\ dv.server[v].service = 0
  /\ \E ok \in {TRUE} \cup (IF DvMay("listenerFails") THEN {FALSE} ELSE {}) :
       dv' = RegisterDarwinService(dv, v, ok)
DvUnregister(v) == dv.server[v].service # 0 /\ dv' = UnregisterDarwinService(dv, v)
DvClose(v) ==
  /\ dv.server[v].port # 0
  /\ dv.server[v].service # 0 => DvMay("lateUnregister")
  /\ dv' = DvServerClose(dv, v)
\* openNotifyRFCOMM() and nextPendingConnection().
DvPeer(v) ==
  /\ dv.server[v].listener = "live" /\ dv.peers < dv.scenario.peers
  /\ dv' = [dv EXCEPT !.peers = @ + 1, !.server[v].pending = @ + 1]
DvTake(v) == dv.server[v].pending > 0 /\ dv' = [dv EXCEPT !.server[v].pending = @ - 1]

DvNext ==
  \E v \in DvServers :
    DvListen(v) \/ DvRegister(v) \/ DvUnregister(v) \/ DvClose(v) \/ DvPeer(v) \/ DvTake(v)
DvSpec == DvInit /\ [][DvNext]_dv

--------------------------------------------------------------------------------
\* A record of the right shape; a server that listens has a port.
DvTypeOK ==
  /\ dv.registry \in [Ports -> DvServers \cup {Nobody}]
  /\ \A v \in DvServers :
       /\ dv.server[v].port \in 0..DvPorts /\ dv.server[v].service \in 0..DvPorts
       /\ dv.server[v].listener \in {"none", "idle", "live"}
       /\ dv.server[v].listener # "none" => dv.server[v].port # 0

\* The registry and the servers agree: a port is claimed by the server that has
\* it, and by no other, so no entry outlives its server.
DvRegistryAgrees ==
  \A p \in Ports, v \in DvServers :
    dv.registry[p] = v <=> dv.server[v].port = p

\* A server whose service is registered and that has not been closed accepts: no
\* step of another server stops it (unless its listener could not be started).
DvServes ==
  [][ \A v \in DvServers :
        /\ dv.server[v].listener = "live"
        /\ dv'.server[v].port # 0 /\ dv'.server[v].service # 0
        => dv'.server[v].listener = "live" ]_dv

\* A server that nobody has registered a service for hears nobody.
DvQuiet == \A v \in DvServers : dv.server[v].listener = "live" => dv.server[v].service # 0

=============================================================================
