----------------------------- MODULE BluezDiscovery -----------------------------
(***************************************************************************)
(* The users of an adapter's discovery mode on BlueZ in one process: a     *)
(* device discovery agent (qbluetoothdevicediscoveryagent_bluez.cpp), the  *)
(* pairing of QBluetoothLocalDevice (qbluetoothlocaldevice_bluez.cpp), and *)
(* QtBluezDiscoveryManager (bluez/bluez5_helper.cpp), which counts their   *)
(* interest and switches the mode for all of them.                         *)
(* "removedPairing": the adapter goes while a pairing looks for its device;*)
(* "powerOffBusy": it has no power while somebody needs its discovery.     *)
(***************************************************************************)
EXTENDS Integers, Sequences, FiniteSets, TLC

CONSTANTS BdDevices,   \* remote devices in range
          BdScenarios  \* bounds and what BlueZ and the application may do

BdFlags == {"filterFails", "stopInSlot", "restartInSlot", "hasty", "otherOn",
            "otherStops", "removed", "noTimeout", "powerOff", "supersede",
            "cancel", "pairFails", "samePairing", "cancelRace", "removedPairing", "powerOffBusy"}
ASSUME BdAssumption == \A s \in BdScenarios : s.may \subseteq BdFlags

VARIABLE bd

BdMay(flag) == flag \in bd.scenario.may
Statuses == {"absent", "Unpaired", "Paired", "AuthorizedPaired"}

\* refs: the references of the adapter, 0 without an entry; session and other:
\* whether this process or another one has asked BlueZ to discover; flag: the
\* property Discovering, which follows later; offSignal: its change is on its way.
\* frames: the loops of start() on the stack, the devices each has still to report.
\* calls: Pair() and RemoveDevice() without a reply; waiting: a request without one.
BdInit ==
  \E s \in BdScenarios :
    bd = [scenario |-> s, refs |-> 0, was |-> FALSE, session |-> FALSE,
          other |-> "otherOn" \in s.may, flag |-> "otherOn" \in s.may,
          offSignal |-> FALSE, present |-> TRUE, powered |-> TRUE,
          active |-> FALSE, timer |-> FALSE, frames |-> <<>>,
          found |-> {}, starts |-> 0, ends |-> 0, added |-> {},
          valid |-> TRUE, pairTimer |-> FALSE, address |-> "none",
          pairing |-> "none", target |-> "none", calls |-> {}, asked |-> 0,
          waiting |-> FALSE, told |-> <<>>,
          status |-> [d \in BdDevices |-> IF d \in s.known THEN "Unpaired" ELSE "absent"]]

Known(r) == {d \in BdDevices : r.status[d] # "absent"}

\* registerDiscoveryInterest(), unregisterDiscoveryInterest().  Nobody looks at
\* the result of StartDiscovery(), which fails without power.
RegisterInterest(r) ==
  IF r.refs > 0 THEN [r EXCEPT !.refs = @ + 1]
  ELSE [r EXCEPT !.refs = 1, !.was = r.flag, !.session = @ \/ (~r.flag /\ r.powered)]
UnregisterInterest(r) ==
  IF r.refs # 1 THEN [r EXCEPT !.refs = IF @ = 0 THEN 0 ELSE @ - 1]
  ELSE [r EXCEPT !.refs = 0, !.session = @ /\ r.was]

\* PropertiesChanged() of the manager: somebody has switched the mode off.
ModeSwitchedOff(r) ==
  IF r.refs > 0 /\ r.powered THEN [r EXCEPT !.session = TRUE] ELSE r

--------------------------------------------------------------------------------
(* The discovery agent *)

AgentEnds(r) == [r EXCEPT !.ends = @ + 1]

\* start().
AgentStart(r, filterOk) ==
  LET a == [r EXCEPT !.found = {}, !.starts = @ + 1]
  IN IF ~a.present \/ ~a.powered \/ ~filterOk THEN AgentEnds(a)
     ELSE [RegisterInterest([a EXCEPT !.active = TRUE]) EXCEPT
             !.frames = <<Known(a)>> \o @]

\* _q_discoveryFinished(), from stop() or from the timer.
AgentFinished(r) ==
  AgentEnds(UnregisterInterest([r EXCEPT !.timer = FALSE, !.active = FALSE]))
AgentStop(r) == IF r.active THEN AgentFinished(r) ELSE r

\* _q_discoveryInterrupted(): the manager has dropped the interest already.
AgentInterrupted(r) ==
  IF r.active THEN AgentEnds([r EXCEPT !.timer = FALSE, !.active = FALSE]) ELSE r

\* The end of start(): the timer, unless the search has no end.
StartTimer(r) == [r EXCEPT !.timer = "noTimeout" \notin r.scenario.may]

\* deviceFound(): a device is announced once, or each time it is seen when the
\* search has no end.  The slot may stop the search, and start it anew.
Reports(r, d) == r.active /\ (d \notin r.found \/ "noTimeout" \in r.scenario.may)
SlotReactions(r) ==
  {r} \cup (IF "stopInSlot" \in r.scenario.may THEN {AgentStop(r)} ELSE {})
      \cup (IF "restartInSlot" \in r.scenario.may /\ r.active
               /\ r.starts < r.scenario.starts
              THEN {AgentStart(AgentStop(r), TRUE)} ELSE {})
DeviceFound(r, d) ==
  IF Reports(r, d) THEN SlotReactions([r EXCEPT !.found = @ \cup {d}]) ELSE {r}

--------------------------------------------------------------------------------
(* The pairing of the local device *)

PairingAnswer(r, d, p) == [r EXCEPT !.waiting = FALSE, !.told = <<d, p, r.asked>>]
PairingError(r) == [r EXCEPT !.waiting = FALSE]

StopPairingDiscovery_TimerLeft(r) ==
  IF r.pairTimer THEN UnregisterInterest(r) ELSE r
StopPairingDiscovery(r) ==
  IF r.pairTimer THEN UnregisterInterest([r EXCEPT !.pairTimer = FALSE]) ELSE r

Call(r, op, d) == [r EXCEPT !.calls = @ \cup {[op |-> op, dev |-> d, state |-> "sent",
                                               id |-> r.asked]}]

\* processPairing(): the device is there.
ProcessPairing(r, d, p) ==
  LET a == StopPairingDiscovery(r)
  IN IF p = "Unpaired" THEN Call([a EXCEPT !.target = "none"], "remove", d)
     ELSE IF a.status[d] = "Unpaired"
       THEN Call([a EXCEPT !.target = d, !.pairing = p], "pair", d)
     ELSE PairingAnswer([a EXCEPT !.target = "none", !.pairing = p, !.status[d] = p], d, p)

\* requestPairing(): a request for what is so already cancels what runs.
AlreadySo(r, d, p) ==
  LET a == [r EXCEPT !.pairTimer = FALSE,
                     !.calls = {IF c.op = "pair" /\ c.dev = r.target /\ c.state = "sent"
                                  THEN [c EXCEPT !.state = "canceled"] ELSE c : c \in @},
                     !.target = "none"]
  IN PairingAnswer(a, d, p)
StatusOf(r, d) == IF r.status[d] = "absent" THEN "Unpaired" ELSE r.status[d]
RequestPairing(r, d, p) ==
  LET a == [StopPairingDiscovery(r) EXCEPT !.target = "none"]
  IN IF StatusOf(r, d) = p THEN AlreadySo(r, d, p)
     ELSE IF d \in Known(a) THEN ProcessPairing(a, d, p)
     ELSE [RegisterInterest(a) EXCEPT !.address = d, !.pairing = p, !.pairTimer = TRUE]

\* pairingCompleted(): the reply to Pair().
PairingCompleted(r, c) ==
  IF c.state # "ok" THEN IF c.state = "canceled" THEN r ELSE PairingError(r)
  ELSE IF ~r.valid THEN r
  ELSE IF r.target = "none" \/ r.status[r.target] = "Unpaired" THEN PairingError(r)
  ELSE PairingAnswer([r EXCEPT !.status[r.target] = r.pairing, !.target = "none"],
                     r.target, r.pairing)
RemoveCompleted(r, c) ==
  IF c.state = "ok" THEN PairingAnswer(r, c.dev, "Unpaired") ELSE PairingError(r)

--------------------------------------------------------------------------------
(* Actions: the event loop runs nothing while start() is on the stack *)

Quiet == bd.frames = <<>>
Settled == bd.flag = (bd.session \/ bd.other) /\ ~bd.offSignal

BdStart ==
  /\ Quiet /\ ~bd.active /\ bd.starts < bd.scenario.starts
  /\ Settled \/ BdMay("hasty")
  /\ \E ok \in BOOLEAN : (~ok => BdMay("filterFails")) /\ bd' = AgentStart(bd, ok)
BdStop == Quiet /\ bd.active /\ bd' = AgentStop(bd)
BdLoop ==
  /\ ~Quiet
  /\ LET rest == Head(bd.frames)
         out == [bd EXCEPT !.frames = Tail(@)]
     IN IF ~bd.active THEN bd' = out
        ELSE IF rest = {} THEN bd' = StartTimer(out)
        ELSE \E d \in rest :
               bd' \in DeviceFound([bd EXCEPT !.frames[1] = rest \ {d}], d)
BdTimeout == Quiet /\ bd.timer /\ bd' = AgentFinished(bd)

\* InterfacesAdded, to the agent and to the local device.
BdAdded ==
  /\ Quiet
  /\ \E d \in bd.added :
       \E r \in DeviceFound([bd EXCEPT !.added = @ \ {d}], d) :
         bd' = IF r.pairTimer /\ r.address = d /\ d \in Known(r)
                 THEN ProcessPairing(r, d, r.pairing) ELSE r
BdRequestPairing ==
  /\ Quiet /\ bd.valid /\ bd.asked < bd.scenario.asks
  /\ Settled \/ BdMay("hasty")
  /\ \E d \in BdDevices, p \in {"Unpaired", "Paired", "AuthorizedPaired"} :
       LET same == StatusOf(bd, d) = p
       IN /\ bd.waiting =>
               IF ~same THEN bd.pairTimer /\ BdMay("supersede")
               ELSE IF bd.pairTimer THEN BdMay("samePairing")
               ELSE bd.target = d /\ BdMay("cancel")
          /\ ~same /\ d \notin Known(bd) => bd.powered \/ BdMay("powerOffBusy")
          /\ bd' = RequestPairing([bd EXCEPT !.asked = @ + 1, !.waiting = TRUE], d, p)
BdPairTimeout ==
  /\ Quiet /\ bd.pairTimer /\ bd.valid
  /\ bd' = PairingError(UnregisterInterest([bd EXCEPT !.pairTimer = FALSE]))
BdReply ==
  /\ Quiet
  /\ \E c \in {x \in bd.calls : x.state # "sent"} :
       LET r == [bd EXCEPT !.calls = @ \ {c}]
       IN bd' = IF c.op = "pair" THEN PairingCompleted(r, c) ELSE RemoveCompleted(r, c)

\* The signal that the mode is off, and the removal of the adapter, behind what
\* BlueZ has sent before.  The local device's timer runs on, without an adapter.
BdOff == Quiet /\ bd.offSignal /\ bd' = ModeSwitchedOff([bd EXCEPT !.offSignal = FALSE])
BdRemoved ==
  /\ Quiet /\ BdMay("removed") /\ bd.present
  /\ bd.pairTimer => BdMay("removedPairing")
  /\ bd.added = {} /\ ~bd.offSignal /\ \A c \in bd.calls : c.state = "sent"
  /\ LET gone == [bd EXCEPT !.present = FALSE, !.flag = FALSE, !.session = FALSE,
                            !.other = FALSE, !.valid = FALSE,
                            !.target = "none", !.refs = 0,
                            !.status = [d \in BdDevices |-> "absent"],
                            !.calls = {[c EXCEPT !.state = "failed"] : c \in @}]
     IN bd' = IF bd.refs > 0 THEN AgentInterrupted(gone) ELSE gone

\* BlueZ and the surroundings.
BdAppears ==
  /\ bd.flag /\ bd.present
  /\ \E d \in BdDevices \ Known(bd) :
       bd' = [bd EXCEPT !.status[d] = "Unpaired", !.added = @ \cup {d}]
BdFlag ==
  /\ bd.flag # (bd.session \/ bd.other)
  /\ bd' = [bd EXCEPT !.flag = ~@, !.offSignal = bd.flag]
BdBluezActs ==
  \E c \in {x \in bd.calls : x.state = "sent"}, ok \in BOOLEAN :
    /\ IF ok THEN bd.powered ELSE BdMay("pairFails") \/ ~bd.powered
    /\ c.op = "pair" => BdMay("cancelRace") \/ bd.target = c.dev
    /\ bd' = [bd EXCEPT
         !.calls = (@ \ {c}) \cup {[c EXCEPT !.state = IF ok THEN "ok" ELSE "failed"]},
         !.status[c.dev] = IF ~ok THEN @ ELSE IF c.op = "pair" THEN "Paired" ELSE "absent"]
BdOtherStops == BdMay("otherStops") /\ bd.other /\ bd' = [bd EXCEPT !.other = FALSE]
BdPowerOff ==
  /\ BdMay("powerOff") /\ bd.present /\ bd.powered
  /\ bd.refs > 0 => BdMay("powerOffBusy")
  /\ bd' = [bd EXCEPT !.powered = FALSE, !.session = FALSE, !.other = FALSE]
BdNext ==
  \/ BdStart \/ BdStop \/ BdLoop \/ BdTimeout \/ BdAdded
  \/ BdRequestPairing \/ BdPairTimeout \/ BdReply \/ BdOff \/ BdRemoved
  \/ BdAppears \/ BdFlag \/ BdBluezActs \/ BdOtherStops \/ BdPowerOff

\* The event loop runs, the timers fire, and BlueZ answers its calls.
BdFairness ==
  /\ WF_bd(BdLoop) /\ WF_bd(BdTimeout) /\ WF_bd(BdPairTimeout) /\ WF_bd(BdReply)
  /\ WF_bd(BdBluezActs) /\ WF_bd(BdFlag) /\ WF_bd(BdOff)
BdSpec == BdInit /\ [][BdNext]_bd /\ BdFairness

--------------------------------------------------------------------------------
\* A record of the right shape.
BdTypeOK ==
  /\ bd.refs \in 0..2 /\ bd.found \subseteq BdDevices /\ bd.added \subseteq BdDevices
  /\ bd.status \in [BdDevices -> Statuses]
  /\ bd.target \in BdDevices \cup {"none"}
  /\ \A f \in {"was", "session", "other", "flag", "offSignal", "present", "powered",
               "active", "timer", "valid", "pairTimer", "waiting"} :
       bd[f] \in BOOLEAN
  /\ (bd.timer => bd.active)

\* The interest the manager counts is that of the search that runs and of the
\* pairing that waits for its device, and nobody else's.
BdInterestHeld ==
  bd.refs = (IF bd.active THEN 1 ELSE 0) + (IF bd.pairTimer THEN 1 ELSE 0)

\* Qt turned the discovery mode on, Qt turns it off again when nobody in the
\* process needs it.
BdScanSwitchedOff == bd.refs = 0 => ~bd.session
BdSwitchedOff ==
  {"hasty", "otherStops", "supersede"} \cap bd.scenario.may = {} => BdScanSwitchedOff

\* Whoever has registered an interest is served: BlueZ discovers, or the signal
\* that makes the manager ask for it again is on its way.
BdServed == bd.refs > 0 => bd.session \/ bd.other \/ bd.flag \/ bd.offSignal

\* A search is answered by one of finished(), canceled() and errorOccurred(), once.
BdOneEnd == bd.starts = bd.ends + (IF bd.active THEN 1 ELSE 0)

\* What pairingFinished() says is so.
BdPairingTrue ==
  [][bd'.told # bd.told =>
       LET d == bd'.told[1] p == bd'.told[2] IN StatusOf(bd', d) = p]_bd

\* Every pairing request, and every search with a time limit, comes to an end.
BdPairingAnswered == []<>~bd.waiting
BdSearchEnds == []<>(~bd.active \/ BdMay("noTimeout"))

=============================================================================
