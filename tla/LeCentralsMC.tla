----------------------------- MODULE LeCentralsMC -----------------------------
(***************************************************************************)
(* The Low Energy centrals other than the one over the kernel's ATT        *)
(* channel, for TLC: over BlueZ's D-Bus interface, on Android, on Apple's  *)
(* systems and on Windows.  A program is built with one of them, and so is *)
(* a behaviour: "backend" is chosen at first, the variables of the others  *)
(* stay as they are initially, where none of their actions is obliged to   *)
(* happen.                                                                 *)
(***************************************************************************)
EXTENDS DBusController, AndroidController, DarwinCentral, WinrtCentral, TLC

CONSTANTS s1, s2

\* The peer: two services, the first with a characteristic and its descriptor.
McServices == {s1, s2}
McAttributes == {1, 2, 3}
McHome == 1 :> s1 @@ 2 :> s1 @@ 3 :> s2
McDescriptors == {2}

Scenario(calls, sessions, may) == [calls |-> calls, sessions |-> sessions, may |-> may]

McDBusScenarios ==
  {[battery |-> {}] @@ Scenario(2, 1, {"jobError", "linkLoss", "uuids"}),
   [battery |-> {}] @@
     Scenario(1, 2, {"linkLoss", "removed", "connectFails", "closeEarly", "closeTwice"}),
   [battery |-> {s2}] @@ Scenario(1, 1, {"managedFails", "jobError", "linkLoss"})}

\* Android is given the first service only: what it does with a second one, it
\* does after the first.
McTree == <<[service |-> s1, chars |-> <<[char |-> 1, descs |-> <<2>>]>>]>>
McRefused == {<<"Write", 2>>}
McAgScenarios ==
  {Scenario(2, 1, {"silent"}),
   Scenario(2, 1, {"jobError", "bonding"}),
   Scenario(1, 2, {"linkLoss", "connectFails", "falseConnect", "discoverFails",
                   "closeEarly"})}

McDcScenarios ==
  {Scenario(2, 1, {"errors", "silent", "linkLoss"}),
   Scenario(1, 1, {"modified", "notifies", "config"}),
   Scenario(0, 2, {"connectFails", "closeEarly", "linkLoss"}),
   Scenario(0, 1, {"closeEarly", "closeFirst"})}

McWrScenarios ==
  {Scenario(2, 1, {"errors", "linkLoss"}),
   Scenario(1, 2, {"closes", "linkLoss"}),
   Scenario(0, 2, {"connectFails", "closeEarly", "findError", "linkLoss"})}

-------------------------------------------------------------------------------
VARIABLE backend

\* What is not built in stays as it is in one of its scenarios.
Spare(name, scenario, scenarios) == backend = name \/ scenario = CHOOSE s \in scenarios : TRUE

LeInit ==
  /\ backend \in {"bluezdbus", "android", "darwin", "winrt"}
  /\ DBusInit /\ Spare("bluezdbus", dbus.scenario, DBusScenarios)
  /\ AndroidInit /\ Spare("android", andr.scenario, AgScenarios)
  /\ DcInit /\ Spare("darwin", dc.scenario, DcScenarios)
  /\ WrInit /\ Spare("winrt", wr.scenario, WrScenarios)

LeNext ==
  /\ UNCHANGED backend
  /\ \/ backend = "bluezdbus" /\ DBusNext /\ UNCHANGED <<androidVars, dc, wr>>
     \/ backend = "android" /\ AndroidNext /\ UNCHANGED <<dbusVars, dc, wr>>
     \/ backend = "darwin" /\ DcNext /\ UNCHANGED <<dbusVars, androidVars, wr>>
     \/ backend = "winrt" /\ WrNext /\ UNCHANGED <<dbusVars, androidVars, dc>>

LeVars == <<backend, dbusVars, androidVars, dc, wr>>
LeSpec ==
  /\ LeInit /\ [][LeNext]_LeVars
  /\ DBusFairness /\ AndroidFairness /\ DcFairness /\ WrFairness

-------------------------------------------------------------------------------
(* What each central promises; its module says how it keeps the promise. *)

\* Type correctness of all four.
LeTypeOK == DBusTypeOK /\ AndroidTypeOK /\ DcTypeOK /\ WrTypeOK

\* The queue of reads, writes and discovery steps never stops with work in it:
\* what is marked as under way has an answer or a watchdog that will take it off
\* (scheduleNextJob(), pendingJob with handleForTimeout, requestPending).
QueuesMove ==
  DBusJobsMove /\ AndroidQueueUnlocks /\ AndroidGateIsTheJobs /\ DcQueueMoves

\* The answer that ends a call or a job is that of its own request, however late
\* the answers of others arrive.
OwnAnswers == DBusOwnAnswer /\ AndroidOwnAnswer /\ DcOwnAnswer

\* connected() and disconnected() alternate and agree with the state, in whatever
\* order the link, the answers and close() come.
StatesAnnounced == DBusAnnounced /\ AndroidAnnounced

\* The handles and states that Qt's thread works with are those of the manager on
\* the LE queue, also when didModifyServices comes in between.
HandlesLive == DcHandlesLive /\ DcAssertions

\* Nothing of an earlier session, its worker handlers or its registrations, meets
\* the next one, and a discovery that ends has listed every service.
OwnSession == WrHeld /\ WrOwnConnection /\ WrValuesOwn /\ WrAllDiscovered

\* Every read and write is answered, given up by a watchdog, or its service gone.
CallsEnd == DBusCallsAnswered /\ AndroidCallsEnd /\ DcCallsEnd /\ WrCallsEnd

\* Connecting, discovering and closing end.
ControllersSettle == DBusSettles /\ AndroidSettles /\ DcSettles /\ WrSettles

\* The discovery of a service ends, whichever of its requests fails.
DetailsEnd == AndroidDetailsFinish /\ DcDetailsEnd /\ WrDetailsEnd
===============================================================================
