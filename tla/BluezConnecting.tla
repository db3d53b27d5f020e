--------------------------- MODULE BluezConnecting ---------------------------
(***************************************************************************)
(* How a Low Energy central connects over the kernel's sockets:            *)
(* connectToDevice() of qlowenergycontroller_bluez.cpp first disconnects   *)
(* the other links of the adapter, through the job queue of                *)
(* bluez/remotedevicemanager.cpp and BlueZ's D-Bus interface, and then     *)
(* connects an L2CAP socket.  AttClient begins where this module ends.     *)
(***************************************************************************)
EXTENDS Integers, Sequences, FiniteSets, SequencesExt

CONSTANTS
  BcDevice,    \* the device of this controller
  BcOthers,    \* the other devices the adapter may be connected to
  BcScenarios  \* what the devices, BlueZ and the application may do

(***************************************************************************)
(* A scenario has the other links at first and bounds the calls of         *)
(* connectToDevice(), and its set "may" has:                               *)
(* "dbusFails"   BlueZ's objects may be out of reach, or the device        *)
(*               unknown to it                                             *)
(* "stays"       BlueZ may fail to disconnect a device                     *)
(* "leaves"      another link may end by itself                            *)
(* "noSocket"    the socket may not be made or bound                       *)
(* "refused"     the connection may be refused                             *)
(* "linkLoss"    ... or lost                                               *)
(* "disconnects" the application calls disconnectFromDevice()              *)
(* "lingers"     ... and the kernel may keep the link a while              *)
(* "giveUp"      ... also before there is a socket                         *)
(* "noAdapter"   the adapter may be unknown to BlueZ                       *)
(* "vanishes"    the other links may end while their addresses are read    *)
(***************************************************************************)
ASSUME BcAssumption ==
  /\ IsFiniteSet(BcOthers)
  /\ \A c \in BcScenarios :
       /\ c.others \subseteq BcOthers /\ c.connects \in Nat
       /\ c.may \subseteq
            {"dbusFails", "stays", "leaves", "noSocket", "refused", "linkLoss",
             "disconnects", "lingers", "giveUp", "noAdapter", "vanishes"}

VARIABLE
  bc  \* the controller, its sockets, the job queue, the links of the adapter

BcMay(what) == what \in bc.scenario.may
BcMaybe(what) == IF BcMay(what) THEN BOOLEAN ELSE {FALSE}

-----------------------------------------------------------------------------
BcInit ==
  \E scenario \in BcScenarios :
    bc = [scenario |-> scenario, connects |-> 0,
          state |-> "Unconnected",
          \* the sockets made so far, each "idle", "connecting", "failed",
          \* "connected", "closed" or "deleted"; the one in l2cpSocket
          sockets |-> <<>>, l2cpSocket |-> 0,
          \* RemoteDeviceManager: timers that call runQueue() and
          \* prepareNextJob(), the Disconnect() calls under way
          jobQueue |-> <<>>, jobInProgress |-> FALSE,
          runs |-> 0, prepares |-> 0, calls |-> <<>>,
          links |-> scenario.others,
          gaveUp |-> FALSE]  \* history: an attempt was, with jobs under way

\* activeLowEnergyConnections(): our own link is one, too.
BcOwnLinks(p) == {i \in DOMAIN p.sockets : p.sockets[i] = "connected"}
BcActive(p) == p.links \union (IF BcOwnLinks(p) = {} THEN {} ELSE {BcDevice})

-----------------------------------------------------------------------------
(* The controller *)

\* l2cpDisconnected(), and l2cpErrorChanged(): services and requests are AttClient's.
BcL2cpDisconnected(p) == [p EXCEPT !.state = "Unconnected"]
BcL2cpErrorChanged(p) == [p EXCEPT !.state = "Unconnected"]

\* establishL2cpClientSocket()
BcEstablish(p, fails) ==
  LET q == [p EXCEPT !.sockets = Append(@, IF fails THEN "idle" ELSE "connecting"),
                     !.l2cpSocket = Len(p.sockets) + 1]
  IN  IF fails THEN [q EXCEPT !.state = "Unconnected"] ELSE q

\* scheduleJob()
BcScheduleJob(p, remotes) ==
  [p EXCEPT !.jobQueue = @ \o remotes, !.runs = @ + 1]

BcDeleteSocket(p) ==
  IF p.l2cpSocket = 0 THEN p
  ELSE [p EXCEPT !.sockets[p.l2cpSocket] = "deleted", !.l2cpSocket = 0]
BcConnectToDevice ==
  /\ bc.state = "Unconnected" /\ bc.connects < bc.scenario.connects
  /\ LET p == BcDeleteSocket([bc EXCEPT !.state = "Connecting", !.connects = @ + 1])
     IN  IF BcActive(p) # {}
         THEN \/ bc' = BcScheduleJob(p, SetToSeq(BcActive(p)))
              \/ BcMay("noAdapter") /\ bc' = p
              \/ BcMay("vanishes") /\ bc' = BcScheduleJob([p EXCEPT !.links = {}], <<>>)
         ELSE \E fails \in BcMaybe("noSocket") : bc' = BcEstablish(p, fails)

\* activeConnectionTerminationDone()
BcTerminationDone(p, fails) ==
  IF BcActive(p) # {} THEN BcL2cpDisconnected([p EXCEPT !.state = "Unconnected"])
  ELSE BcEstablish(p, fails)

\* disconnectFromDevice(): close() of a socket ends in disconnected().
BcDisconnectFromDevice ==
  /\ BcMay("disconnects") /\ bc.state # "Unconnected"
  /\ bc.l2cpSocket = 0 => BcMay("giveUp")
  /\ IF bc.l2cpSocket = 0
     THEN bc' = BcL2cpDisconnected([bc EXCEPT !.gaveUp = @ \/ bc.jobQueue # <<>>])
     ELSE \E lingers \in BcMaybe("lingers") :
            bc' = BcL2cpDisconnected(
                    [bc EXCEPT !.sockets[bc.l2cpSocket] = "closed",
                               !.links = @ \union IF lingers /\ bc.state = "Connected"
                                                  THEN {BcDevice} ELSE {}])

-----------------------------------------------------------------------------
(* RemoteDeviceManager *)

\* disconnectDevice(): a call to BlueZ, or a timer.
BcDisconnectDevice(p, unknown) ==
  IF unknown THEN [p EXCEPT !.prepares = @ + 1]
  ELSE [p EXCEPT !.calls = Append(@, Head(p.jobQueue))]
BcRun(p, unknown) ==
  IF p.jobInProgress \/ p.jobQueue = <<>> THEN p
  ELSE BcDisconnectDevice([p EXCEPT !.jobInProgress = TRUE], unknown)
BcRunQueue ==
  /\ bc.runs > 0
  /\ \E unknown \in BcMaybe("dbusFails") :
       bc' = BcRun([bc EXCEPT !.runs = @ - 1], unknown)

\* prepareNextJob(), from its timer or when BlueZ has answered.
BcPrepare(p, unknown, fails) ==
  LET q == [p EXCEPT !.jobQueue = Tail(@), !.jobInProgress = FALSE]
  IN  IF q.jobQueue = <<>> THEN BcTerminationDone(q, fails) ELSE BcRun(q, unknown)
BcPrepareNextJob ==
  /\ bc.prepares > 0
  /\ \E unknown \in BcMaybe("dbusFails"), fails \in BcMaybe("noSocket") :
       bc' = BcPrepare([bc EXCEPT !.prepares = @ - 1], unknown, fails)
BcDisconnectReply ==
  /\ bc.calls # <<>>
  /\ \E unknown \in BcMaybe("dbusFails"), fails \in BcMaybe("noSocket"),
        stays \in BcMaybe("stays") :
       LET p == [bc EXCEPT !.calls = Tail(@)]
           cut == [p EXCEPT !.links = @ \ {Head(bc.calls)},
                            !.sockets = IF Head(bc.calls) # BcDevice THEN @
                                        ELSE [i \in DOMAIN @ |->
                                               IF i \in BcOwnLinks(p) THEN "failed" ELSE @[i]]]
       IN  bc' = BcPrepare(IF stays THEN p ELSE cut, unknown, fails)

-----------------------------------------------------------------------------
(* The adapter and the sockets, all of which are connected to the same slots *)

BcOtherLeaves ==
  /\ BcMay("leaves")
  /\ \E d \in bc.links : bc' = [bc EXCEPT !.links = @ \ {d}]

BcSocketConnected(i) ==
  /\ bc.sockets[i] = "connecting"
  /\ bc' = [bc EXCEPT !.sockets[i] = "connected", !.state = "Connected"]

\* A failing connect() is an error of the write notifier; the read notifier sees
\* it too, and closes the socket.
BcSocketRefused(i) ==
  /\ BcMay("refused") /\ bc.sockets[i] = "connecting"
  /\ bc' = BcL2cpErrorChanged([bc EXCEPT !.sockets[i] = "failed"])
BcSocketEnds(i) ==
  /\ bc.sockets[i] = "failed" \/ (bc.sockets[i] = "connected" /\ BcMay("linkLoss"))
  /\ bc' = BcL2cpDisconnected(BcL2cpErrorChanged([bc EXCEPT !.sockets[i] = "closed"]))

-----------------------------------------------------------------------------
BcNext ==
  \/ BcConnectToDevice \/ BcDisconnectFromDevice
  \/ BcRunQueue \/ BcPrepareNextJob \/ BcDisconnectReply \/ BcOtherLeaves
  \/ \E i \in DOMAIN bc.sockets :
       BcSocketConnected(i) \/ BcSocketRefused(i) \/ BcSocketEnds(i)

\* Timers, BlueZ's answers and the socket's notifiers.
BcSocketAnswers ==
  \E i \in DOMAIN bc.sockets :
    BcSocketConnected(i) \/ BcSocketRefused(i)
      \/ (bc.sockets[i] = "failed" /\ BcSocketEnds(i))
BcFairness ==
  /\ WF_bc(BcRunQueue) /\ WF_bc(BcPrepareNextJob) /\ WF_bc(BcDisconnectReply)
  /\ WF_bc(BcSocketAnswers)
BcSpec == BcInit /\ [][BcNext]_bc /\ BcFairness

-----------------------------------------------------------------------------
(* What must hold *)

\* The state has its shape: at most one job is worked off, and it is the head.
BcTypeOK ==
  /\ bc.scenario \in BcScenarios
  /\ bc.state \in {"Unconnected", "Connecting", "Connected"}
  /\ bc.sockets \in Seq({"idle", "connecting", "failed", "connected", "closed", "deleted"})
  /\ bc.l2cpSocket \in 0..Len(bc.sockets)
  /\ {bc.runs, bc.prepares} \subseteq Nat

\* Jobs are worked off one by one and never stop with some left, also when
\* attempts follow each other faster than BlueZ answers: a timer or an answer is
\* still to come, and prepareNextJob() finds a job to take off.
BcJobsMove ==
  /\ bc.prepares + Len(bc.calls) = IF bc.jobInProgress THEN 1 ELSE 0
  /\ bc.jobInProgress => bc.jobQueue # <<>>
  /\ bc.jobQueue # <<>> => bc.jobInProgress \/ bc.runs > 0
  /\ \A i \in DOMAIN bc.calls : bc.calls[i] = Head(bc.jobQueue)

\* Unless an attempt was given up with jobs under way, there is one socket, the
\* controller's, it is connected in ConnectedState, and none connects for a
\* controller that the application does not expect to.
BcOneSocket ==
  /\ \A i \in DOMAIN bc.sockets :
       bc.sockets[i] \in {"connecting", "connected"} => i = bc.l2cpSocket
  /\ bc.state = "Connected" => BcOwnLinks(bc) # {}
  /\ bc.state = "Unconnected" =>
       \A i \in DOMAIN bc.sockets : bc.sockets[i] \notin {"connecting", "connected"}
BcOwnSocket == bc.gaveUp \/ BcOneSocket

\* Unless an attempt was given up, what connects has the adapter for itself when it
\* begins: the kernel has one channel of this kind at a time.
BcConnecting == bc.state = "Connecting" /\ bc.l2cpSocket # 0
BcAlone == [][~BcConnecting /\ BcConnecting' => bc.gaveUp \/ bc.links' = {}]_bc

\* ConnectingState ends, whatever becomes of the other links and of the socket.
BcAttemptEnds == []<>(bc.state # "Connecting")
=============================================================================
