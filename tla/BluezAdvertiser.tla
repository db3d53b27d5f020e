--------------------------- MODULE BluezAdvertiser ---------------------------
(***************************************************************************)
(* QLeAdvertiserBluez: advertising by HCI commands that are written to the *)
(* adapter past BlueZ, one after another as each completes.  Completions   *)
(* are told apart by their command code only, and other programs' are read *)
(* too.  The controller around it is AttServer, where the advertiser is    *)
(* but the data it has.                                                    *)
(***************************************************************************)
EXTENDS Integers, Sequences, SequencesExt

CONSTANT
  BaScenarios  \* what is advertised, and what the adapter and the application do

(***************************************************************************)
(* A scenario has the advertising and the scan response data, whether the  *)
(* mode is one that answers scans, the white list (in "filter" only), and  *)
(* bounds the calls of startAdvertising().  Its set "may" has:             *)
(* "noPower"     reading the transmission power may fail                   *)
(* "fails"       another command may fail, but not to stop advertising     *)
(* "sendFails"   a command may not be written                              *)
(* "unmonitored" completions may not be had                                *)
(* "alreadyOn"   another program may advertise at first                    *)
(* "foreign"     completions of another program's commands come            *)
(* "foreignFails" ... and may be failures                                  *)
(* "stops"       the application calls stopAdvertising()                   *)
(* "stopPower"   ... also while the power is read                          *)
(* "peer"        a device connects, and the link ends                      *)
(* "peerEarly"   ... also one that still hears an earlier advertising      *)
(* "disconnects" the application calls disconnectFromDevice()              *)
(* "deleteEarly" ... also with commands under way                          *)
(* "narrow"      size_t has the width of int, 32 bits                      *)
(* Data have the length of the name, the numbers of services whose UUIDs   *)
(* have 2, 4 and 16 bytes, and the length of the manufacturer data, -1 for *)
(* none.                                                                   *)
(***************************************************************************)
ASSUME BaAssumption ==
  \A c \in BaScenarios :
    /\ \A d \in {c.adv, c.rsp} :
         /\ d.power \in BOOLEAN /\ d.name \in Nat /\ d.manufacturer \in Nat \cup {-1}
         /\ d.services \in [{2, 4, 16} -> Nat]
    /\ {c.scannable, c.filter} \subseteq BOOLEAN
    /\ {c.whiteList, c.starts} \subseteq Nat
    /\ c.may \subseteq {"alreadyOn", "noPower", "fails", "sendFails", "unmonitored",
                        "foreign", "foreignFails", "stops", "stopPower", "peer", "peerEarly",
                        "disconnects", "deleteEarly", "narrow"}

VARIABLE
  ba  \* the controller's state, the advertiser, the commands, the adapter

BaMay(what) == what \in ba.scenario.may
BaMaybe(what) == IF BaMay(what) THEN BOOLEAN ELSE {FALSE}

-----------------------------------------------------------------------------
(* The data: a sequence of fields, each with its kind and its bytes *)

BaRoom == 31
BaLength(packet) == FoldSeq(LAMBDA field, sum : field.bytes + sum, 0, packet)
BaField(kind, bytes) == [kind |-> kind, bytes |-> bytes]

\* setLocalNameData(): a name is shortened.
BaNameData(d, packet) ==
  LET room == BaRoom - BaLength(packet)
  IN  IF d.name = 0 \/ room <= 3 THEN packet
      ELSE Append(packet, IF d.name + 2 <= room THEN BaField("name", d.name + 2)
                          ELSE BaField("shortName", room))

\* addServicesData(): as many as there is room for.  The room without the header is
\* divided without a sign: below zero the quotient is huge, and as an int -1, or
\* where size_t is narrow still huge.
BaServicesData(d, width, packet) ==
  LET room == (BaRoom - BaLength(packet) - 2) \div width
      wraps == room < 0 /\ BaMay("narrow")
      told == IF room < d.services[width] /\ ~wraps THEN room ELSE d.services[width]
  IN  IF told <= 0 THEN packet
      ELSE Append(packet, BaField(IF told = d.services[width] THEN "services" ELSE "someServices",
                                  2 + told * width))

\* setManufacturerData(): the room left over is computed without a sign, so that
\* more than 27 bytes pass the test.
BaManufacturerData(d, packet) ==
  IF d.manufacturer = -1 \/ (d.manufacturer <= 27 /\ BaLength(packet) >= 27 - d.manufacturer)
  THEN packet
  ELSE Append(packet, BaField("manufacturer", d.manufacturer + 4))

\* setData()
BaData(d, isScanResponse, sendPower) ==
  LET power == IF d.power /\ sendPower THEN <<BaField("power", 3)>> ELSE <<>>
      flags == IF isScanResponse THEN power ELSE Append(power, BaField("flags", 3))
      services == FoldLeft(LAMBDA packet, width : BaServicesData(d, width, packet),
                           BaNameData(d, flags), <<2, 4, 16>>)
  IN  BaManufacturerData(d, services)

-----------------------------------------------------------------------------
(* The commands *)

BaCommand(ocf, on, packet) == [ocf |-> ocf, on |-> on, packet |-> packet]
BaToggle(on) == BaCommand("SetAdvEnable", on, <<>>)

\* queueAdvertisingCommands()
BaAdvertisingCommands(p) ==
  LET c == p.scenario
      rsp == BaData(c.rsp, TRUE, p.sendPower)
  IN  <<BaToggle(FALSE)>>
        \o (IF c.filter
            THEN <<BaCommand("ClearWhiteList", FALSE, <<>>)>>
                   \o [i \in 1..c.whiteList |-> BaCommand("AddToWhiteList", FALSE, <<>>)]
            ELSE <<>>)
        \o <<BaCommand("SetAdvParams", FALSE, <<>>),
             BaCommand("SetAdvData", FALSE, BaData(c.adv, FALSE, p.sendPower))>>
        \o (IF c.scannable /\ rsp # <<>>
            THEN <<BaCommand("SetScanResponseData", FALSE, rsp)>> ELSE <<>>)
        \o <<BaToggle(TRUE)>>

\* What another program advertises.
BaTheirs == <<BaField("theirs", BaRoom)>>

BaInit ==
  \E scenario \in BaScenarios :
  \E on \in IF "alreadyOn" \in scenario.may THEN BOOLEAN ELSE {FALSE} :
    ba = [scenario |-> scenario, starts |-> 0,
          state |-> "Unconnected", advertiser |-> FALSE,
          pending |-> <<>>, sendPower |-> FALSE,
          \* commands written and completions not yet read
          wire |-> <<>>, completed |-> <<>>,
          radio |-> [on |-> on, adv |-> IF on THEN BaTheirs ELSE <<>>],
          \* history: another program's completion came, an error was reported
          heard |-> FALSE, failed |-> FALSE]

\* handleError(), which handleAdvertisingError() is connected to.
BaHandleError(p) ==
  [p EXCEPT !.pending = <<>>, !.state = "Unconnected", !.failed = TRUE]

\* sendNextCommand(): the head, also when it was sent before.
BaSendNextCommand(p, fails) ==
  IF p.pending = <<>> THEN p
  ELSE IF fails THEN BaHandleError(p)
  ELSE [p EXCEPT !.wire = Append(@, Head(p.pending))]

\* startAdvertising(), doStartAdvertising(): an advertiser that exists goes on.
BaStartAdvertising ==
  /\ ba.state = "Unconnected" /\ ba.starts < ba.scenario.starts
  /\ \E fails \in BaMaybe("sendFails"), unmonitored \in BaMaybe("unmonitored") :
       LET power == ba.scenario.adv.power \/ ba.scenario.rsp.power
           p == [ba EXCEPT !.state = "Advertising", !.advertiser = TRUE, !.starts = @ + 1]
           q == [p EXCEPT !.sendPower = power]
           queued == [q EXCEPT !.pending = @ \o
                       IF power THEN <<BaCommand("ReadTxPowerLevel", FALSE, <<>>)>>
                       ELSE BaAdvertisingCommands(q)]
       IN  ba' = IF unmonitored THEN BaHandleError(p) ELSE BaSendNextCommand(queued, fails)

\* doStopAdvertising()
BaDoStop(p, fails) ==
  BaSendNextCommand([p EXCEPT !.pending = Append(@, BaToggle(FALSE))], fails)
BaStopAdvertising ==
  /\ BaMay("stops") /\ ba.state = "Advertising"
  /\ BaMay("stopPower") \/ \A c \in ToSet(ba.pending) : c.ocf # "ReadTxPowerLevel"
  /\ \E fails \in BaMaybe("sendFails") :
       ba' = BaDoStop([ba EXCEPT !.state = "Unconnected"], fails)

\* resetController(), when a link ends or is closed; the destructor stops, too.
BaReset ==
  /\ \/ ba.state = "Connected"
     \/ ba.state = "Advertising" /\ BaMay("disconnects")
  /\ ba.pending # <<>> => BaMay("deleteEarly")
  /\ \E fails \in BaMaybe("sendFails") :
       LET stopped == IF ba.advertiser THEN BaDoStop(BaDoStop(ba, fails), fails) ELSE ba
       IN  ba' = [stopped EXCEPT !.state = "Unconnected", !.advertiser = FALSE,
                                 !.pending = <<>>]

-----------------------------------------------------------------------------
(* The adapter *)

\* What becomes of a command: "disallowed" is status 0x0c.
BaStatuses(command) ==
  CASE command.ocf = "ReadTxPowerLevel" -> IF BaMay("noPower") THEN {"ok", "error"} ELSE {"ok"}
    [] command.ocf = "SetAdvEnable" /\ ~command.on ->
         IF ba.radio.on THEN {"ok"} ELSE {"ok", "disallowed"}
    [] command.ocf = "SetAdvParams" /\ ba.radio.on -> {"disallowed"}
    [] OTHER -> IF BaMay("fails") THEN {"ok", "error"} ELSE {"ok"}
BaExecutes ==
  /\ ba.wire # <<>>
  /\ LET command == Head(ba.wire)
     IN  \E status \in BaStatuses(command) :
           ba' = [ba EXCEPT
             !.wire = Tail(@),
             !.completed = Append(@, [ocf |-> command.ocf, status |-> status]),
             !.radio =
               IF status # "ok" THEN @
               ELSE CASE command.ocf = "SetAdvEnable" -> [@ EXCEPT !.on = command.on]
                      [] command.ocf = "SetAdvData" -> [@ EXCEPT !.adv = command.packet]
                      [] OTHER -> @]

\* Another program's command, of a code that is ours as well.
BaForeign ==
  /\ BaMay("foreign") /\ ~ba.heard /\ ba.pending # <<>>
  /\ \E status \in IF BaMay("foreignFails") THEN {"ok", "error"} ELSE {"ok"} :
       ba' = [ba EXCEPT !.completed = Append(@, [ocf |-> "SetAdvEnable", status |-> status]),
                        !.heard = TRUE]

\* A device that connects ends the advertising; handleConnectionRequest().
BaPeerConnects ==
  /\ BaMay("peer") /\ ba.radio.on /\ (ba.pending = <<>> \/ BaMay("peerEarly"))
  /\ ba' = [ba EXCEPT !.radio.on = FALSE,
                      !.state = IF @ = "Advertising" THEN "Connected" ELSE @]

\* handleCommandCompleted()
BaTaken(completion) == ba.pending # <<>> /\ Head(ba.pending).ocf = completion.ocf
BaCommandCompleted ==
  /\ ba.completed # <<>>
  /\ LET completion == Head(ba.completed)
         p == [ba EXCEPT !.completed = Tail(@)]
         q == [p EXCEPT !.pending = Tail(@)]
         power == completion.ocf = "ReadTxPowerLevel"
         read == [q EXCEPT !.sendPower = @ /\ completion.status = "ok"]
         ignored == completion.status = "disallowed" /\ completion.ocf = "SetAdvEnable"
                      /\ ~Head(ba.pending).on
     IN  IF ~BaTaken(completion) THEN ba' = p
         ELSE \E fails \in BaMaybe("sendFails") :
                ba' = IF power
                      THEN BaSendNextCommand(
                             [read EXCEPT !.pending = @ \o BaAdvertisingCommands(read)], fails)
                      ELSE IF completion.status = "ok" \/ ignored
                      THEN BaSendNextCommand(q, fails)
                      ELSE BaHandleError(q)

-----------------------------------------------------------------------------
BaNext ==
  \/ BaStartAdvertising \/ BaStopAdvertising \/ BaReset
  \/ BaExecutes \/ BaForeign \/ BaPeerConnects \/ BaCommandCompleted

\* The adapter completes commands, and the event loop reads its events.
BaFairness == WF_ba(BaExecutes) /\ WF_ba(BaCommandCompleted)
BaSpec == BaInit /\ [][BaNext]_ba /\ BaFairness

-----------------------------------------------------------------------------
(* What must hold *)

\* The advertiser has its shape.
BaTypeOK ==
  /\ ba.scenario \in BaScenarios
  /\ ba.state \in {"Unconnected", "Advertising", "Connected"}
  /\ {ba.advertiser, ba.sendPower, ba.radio.on, ba.heard, ba.failed} \subseteq BOOLEAN
  /\ \A command \in ToSet(ba.pending) \union ToSet(ba.wire) : command.on \in BOOLEAN
  /\ ~ba.advertiser => ba.pending = <<>>

\* The queue moves: for the command at its head a completion is still to come,
\* whatever was sent twice and whosever completions were taken.
BaCommandsMove ==
  ba.pending # <<>> =>
    \E i \in 1..(Len(ba.wire) + Len(ba.completed)) :
      ((ba.wire \o ba.completed)[i]).ocf = Head(ba.pending).ocf

\* The adapter never advertises for us with data that are not those asked for (the
\* power of transmission may be missing), such as an earlier set or none at all.
BaOurs ==
  /\ ba.radio.on
  /\ \E sendPower \in BOOLEAN : ba.radio.adv = BaData(ba.scenario.adv, FALSE, sendPower)
BaOwnData == ba.radio.on => BaOurs \/ ba.radio.adv = BaTheirs

\* When everything sent is done, the adapter advertises our data in AdvertisingState
\* and else it does not, also when it was stopped, started and deleted with commands
\* under way.
BaQuiet == ba.wire = <<>> /\ ba.completed = <<>>
BaRadioAgrees == BaQuiet /\ ~ba.failed => BaOurs = (ba.state = "Advertising")

\* Errors are real: that there is nothing to stop, or that another program advertises
\* already, is none.
BaErrorsReal ==
  ba.failed =>
    ba.scenario.may \cap {"fails", "sendFails", "unmonitored", "foreignFails"} # {}

\* Data fit their packet, a name is shortened to fill it, and the data of the
\* manufacturer are left out only where there is no room for them.
BaLeavesOut(d, packet) ==
  d.manufacturer # -1 /\ \A i \in DOMAIN packet : packet[i].kind # "manufacturer"
BaDataFit ==
  \A command \in ToSet(ba.pending) :
    /\ BaLength(command.packet) <= BaRoom
    /\ \A kind \in {"adv", "rsp"} :
         LET d == ba.scenario[kind]
         IN  /\ command.ocf = (IF kind = "adv" THEN "SetAdvData" ELSE "SetScanResponseData")
             /\ BaLeavesOut(d, command.packet)
             => BaLength(command.packet) + 4 + d.manufacturer > BaRoom
    /\ \A i \in DOMAIN command.packet :
         command.packet[i].kind = "shortName" => BaLength(SubSeq(command.packet, 1, i)) = BaRoom

\* An advertiser is done with its commands at last.
BaQueueEnds == []<>(ba.pending = <<>>)
=============================================================================
