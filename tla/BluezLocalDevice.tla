---------------------------- MODULE BluezLocalDevice ----------------------------
(***************************************************************************)
(* QBluetoothLocalDevice on BlueZ (qbluetoothlocaldevice_bluez.cpp): the   *)
(* host mode of the adapter, and the set of connected devices it keeps     *)
(* from the signals of BlueZ.  Properties are read when a signal is        *)
(* handled, and may have changed since it was sent.                        *)
(***************************************************************************)
EXTENDS Integers, Sequences, SequencesExt

CONSTANTS BlDevices, BlScenarios

BlFlags == {"external", "removed", "adapterGone", "powerFails", "quickConnect",
            "quickRemoval"}
ASSUME BlAssumption ==
  "null" \notin BlDevices /\ \A s \in BlScenarios : s.may \subseteq BlFlags

VARIABLE bl

BlMay(flag) == flag \in bl.scenario.may
HostModes == {"PoweredOff", "Connectable", "Discoverable"}
HostMode(r) ==
  IF ~r.powered THEN "PoweredOff"
  ELSE IF r.discoverable THEN "Discoverable" ELSE "Connectable"

\* orders: properties set by the program, for BlueZ to carry out; events: signals
\* of BlueZ to the program; real: what BlueZ has of each device.  The constructor
\* reads the devices that are there.
BlInit ==
  \E s \in BlScenarios, on, disc \in BOOLEAN,
     real \in [BlDevices -> {"absent", "known", "connected"}] :
    bl = [scenario |-> s, valid |-> TRUE, powered |-> on, discoverable |-> disc,
          orders |-> <<>>, events |-> <<>>, pendingMode |-> "none",
          current |-> IF ~on THEN "PoweredOff" ELSE IF disc THEN "Discoverable"
                      ELSE "Connectable",
          wanted |-> "none", asked |-> 0, changes |-> 0,
          real |-> real, monitors |-> {d \in BlDevices : real[d] # "absent"},
          connected |-> {d \in BlDevices : real[d] = "connected"}]

SetPowered(r, v) == [r EXCEPT !.orders = Append(@, <<"Powered", v>>)]
SetDiscoverable(r, v) == [r EXCEPT !.orders = Append(@, <<"Discoverable", v>>)]

\* setHostMode(): an adapter that is off is switched on first.
SetHostMode(r, mode) ==
  IF r.pendingMode # "none" THEN r
  ELSE IF mode = "PoweredOff" THEN SetPowered(r, FALSE)
  ELSE IF HostMode(r) = "PoweredOff"
    THEN SetPowered([r EXCEPT !.pendingMode = mode], TRUE)
  ELSE SetDiscoverable(r, mode = "Discoverable")

\* PropertiesChanged() of the adapter.
AdapterChanged(r) ==
  LET mode == HostMode(r)
  IN IF mode = "PoweredOff" THEN [r EXCEPT !.current = mode]
     ELSE IF r.pendingMode \notin {"none", mode}
       THEN SetDiscoverable([r EXCEPT !.pendingMode = "none"],
                            r.pendingMode = "Discoverable")
     ELSE [r EXCEPT !.current = mode, !.pendingMode = "none"]

\* PropertiesChanged() of a device: its address is read from BlueZ, the null
\* address when the device has gone.
DeviceChanged(r, d, up) ==
  LET address == IF r.real[d] = "absent" THEN "null" ELSE d
  IN IF up THEN [r EXCEPT !.connected = @ \cup {address}]
     ELSE [r EXCEPT !.connected = @ \ {address}]

\* InterfacesAdded() and InterfacesRemoved().
DeviceAdded(r, d, up) ==
  IF d \in r.monitors THEN r
  ELSE [r EXCEPT !.monitors = @ \cup {d}, !.connected = IF up THEN @ \cup {d} ELSE @]
DeviceRemoved(r, d) ==
  IF d \in r.monitors THEN [r EXCEPT !.monitors = @ \ {d}, !.connected = @ \ {d}] ELSE r
AdapterRemoved(r) == [r EXCEPT !.valid = FALSE, !.monitors = {}, !.connected = {}]

BlHandler(r, e) ==
  CASE e[1] = "adapter" -> IF r.valid THEN AdapterChanged(r) ELSE r
    [] e[1] = "device" -> IF e[2] \in r.monitors THEN DeviceChanged(r, e[2], e[3]) ELSE r
    [] e[1] = "added" -> IF r.valid THEN DeviceAdded(r, e[2], e[3]) ELSE r
    [] e[1] = "removed" -> DeviceRemoved(r, e[2])
    [] e[1] = "adapterRemoved" -> AdapterRemoved(r)
Signal(r, e) == [r EXCEPT !.events = Append(@, e)]

--------------------------------------------------------------------------------
\* The application waits for the end of one change before it asks for the next.
BlSetHostMode ==
  /\ bl.valid /\ bl.asked < bl.scenario.asks /\ bl.orders = <<>> /\ bl.events = <<>>
  /\ \E mode \in HostModes :
       bl' = SetHostMode([bl EXCEPT !.asked = @ + 1,
                            !.wanted = IF bl.pendingMode = "none" THEN mode ELSE @], mode)
BlEvent ==
  /\ bl.events # <<>>
  /\ bl' = BlHandler([bl EXCEPT !.events = Tail(@)], Head(bl.events))

\* BlueZ carries out an order; switching on may fail when the radio is blocked.
Assign(r, prop, v) ==
  IF (prop = "Powered" /\ r.powered = v) \/ (prop = "Discoverable" /\ r.discoverable = v)
    THEN r
  ELSE Signal(IF prop = "Powered" THEN [r EXCEPT !.powered = v]
              ELSE [r EXCEPT !.discoverable = v], <<"adapter">>)
BlBluez ==
  /\ bl.orders # <<>>
  /\ LET r == [bl EXCEPT !.orders = Tail(@)] o == Head(bl.orders)
     IN \/ bl' = Assign(r, o[1], o[2])
        \/ BlMay("powerFails") /\ o = <<"Powered", TRUE>> /\ bl' = r
BlExternal ==
  /\ BlMay("external") /\ bl.valid /\ bl.changes < bl.scenario.changes
  /\ \E prop \in {"Powered", "Discoverable"}, v \in BOOLEAN :
       bl' = Assign([bl EXCEPT !.changes = @ + 1, !.wanted = "none"], prop, v)

\* A device appears, connects, disconnects and is removed.
Unheard(d) == \E i \in DOMAIN bl.events : bl.events[i][1] # "adapter" /\ bl.events[i][2] = d
BlDevice ==
  /\ bl.valid /\ bl.changes < bl.scenario.changes
  /\ \E d \in BlDevices, new \in {"absent", "known", "connected"} :
       LET r == [bl EXCEPT !.changes = @ + 1, !.real[d] = new]
           old == bl.real[d]
       IN /\ new # old
          /\ bl' = IF old = "absent" THEN Signal(r, <<"added", d, new = "connected">>)
                   ELSE IF new = "absent" THEN Signal(r, <<"removed", d>>)
                   ELSE IF d \in bl.monitors
                     THEN Signal(r, <<"device", d, new = "connected">>) ELSE r
          /\ new = "absent" => BlMay("removed")
          /\ <<"device", d, TRUE>> \in Range(bl.events) /\ new = "absent" =>
               BlMay("quickRemoval")
          /\ Unheard(d) /\ new # "absent" => d \in bl.monitors \/ BlMay("quickConnect")
BlAdapterGone ==
  /\ BlMay("adapterGone") /\ bl.valid
  /\ \A i \in DOMAIN bl.events : bl.events[i][1] # "adapterRemoved"
  /\ bl' = Signal([bl EXCEPT !.orders = <<>>, !.wanted = "none",
                             !.real = [d \in BlDevices |-> "absent"]],
                  <<"adapterRemoved", "none">>)

BlNext ==
  BlSetHostMode \/ BlEvent \/ BlBluez \/ BlExternal \/ BlDevice \/ BlAdapterGone

\* The event loop and BlueZ run.
BlFairness == WF_bl(BlEvent) /\ WF_bl(BlBluez)
BlSpec == BlInit /\ [][BlNext]_bl /\ BlFairness

--------------------------------------------------------------------------------
\* A record of the right shape; an adapter that has gone leaves nothing behind.
BlTypeOK ==
  /\ bl.valid \in BOOLEAN /\ bl.monitors \subseteq BlDevices
  /\ bl.connected \subseteq BlDevices \cup {"null"}
  /\ bl.current \in HostModes /\ bl.pendingMode \in HostModes \cup {"none"}
  /\ (~bl.valid => bl.monitors = {} /\ bl.connected = {})

\* When every signal is handled the program's picture is BlueZ's: the host mode it
\* has announced, and the devices it calls connected.
BlSettled == bl.valid /\ bl.events = <<>> /\ bl.orders = <<>>
BlModeTold == BlSettled => bl.current = HostMode(bl)
BlConnectedAgrees ==
  BlSettled => bl.connected = {d \in BlDevices : bl.real[d] = "connected"}

\* The mode that was asked for is reached, also when the adapter was off, unless
\* somebody else changes it.
BlModeReached ==
  []<>(bl.wanted = "none" \/ (BlSettled /\ HostMode(bl) = bl.wanted))

=============================================================================
