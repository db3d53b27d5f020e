--------------------------- MODULE WinrtDiscovery ---------------------------
(***************************************************************************)
(* The device discovery agent of Windows                                   *)
(* (qbluetoothdevicediscoveryagent_winrt.cpp).  Every search has a worker  *)
(* of its own; the callbacks of WinRT run on threads of a pool, count down *)
(* the paired devices, and post what they find to the thread of the agent. *)
(* A queued signal is delivered even if it is disconnected meanwhile.      *)
(***************************************************************************)
EXTENDS Integers, Sequences, FiniteSets, SequencesExt

CONSTANTS
  WdDevices,   \* the devices
  WdScenarios  \* what is paired, what is searched, what may happen

(***************************************************************************)
(* A scenario has the number of searches, the methods of each, the devices *)
(* paired by method, the number of advertisements, whether there is a      *)
(* lowEnergySearchTimeout, and its set "may" has:                          *)
(* "startFails"  FindAllAsync may fail to start                            *)
(* "findFails"   ... or end without a result                               *)
(* "refused"     FromIdAsync may fail to start for a device                *)
(* "unanswered"  ... or end without a result                               *)
(* "denied"      the services of a device may be out of reach              *)
(* "detailsFail" ... or other details of a device                          *)
(* "both"        an advertisement may have a new service and new data of a  *)
(*               device already seen or paired                             *)
(* "torn"        a device may be read while an advertisement changes it    *)
(* "stops"       the application may stop a search ...                     *)
(* "lateStop"    ... whose end is already on its way                       *)
(***************************************************************************)
WdMethods == {"classic", "le"}
ASSUME WdAssumption ==
  /\ IsFiniteSet(WdDevices)
  /\ \A c \in WdScenarios :
       /\ {c.starts, c.adverts} \subseteq Nat /\ c.timeout \in BOOLEAN
       /\ c.methods \in SUBSET WdMethods \ {{}}
       /\ c.paired \in [WdMethods -> SUBSET WdDevices]
       /\ c.may \subseteq {"startFails", "findFails", "refused", "unanswered", "denied",
                           "detailsFail", "both", "torn", "stops", "lateStop"}

VARIABLE
  wd  \* the agent, its workers, and the events for its thread

WdMay(what) == what \in wd.scenario.may
WdOutcomes(normal, others) == {normal} \cup (others \cap wd.scenario.may)

-----------------------------------------------------------------------------
WdUnseen == [services |-> 0, data |-> 0]
\* QWinRTBluetoothDeviceDiscoveryWorker: its methods; FindAllAsync operations
\* under way, those for a device, and callbacks at their end;
\* m_pendingPairedDevices, m_leWatcher, m_foundLEDevicesMap.
WdWorker(methods) ==
  [methods |-> methods, finding |-> {}, ops |-> {}, leaving |-> 0, pending |-> 0,
   watcher |-> FALSE, found |-> [d \in WdDevices |-> WdUnseen], deleted |-> FALSE]

\* ... and the agent: its worker, its timer, discoveredDevices with the search
\* that found each, how many ends the search has had and whose the last was.
WdInit ==
  \E scenario \in WdScenarios :
    wd = [scenario |-> scenario, adverts |-> 0, workers |-> <<>>, worker |-> 0,
          timer |-> FALSE, listed |-> [d \in WdDevices |-> WdUnseen],
          by |-> [d \in WdDevices |-> 0], ends |-> 0, ended |-> 0, posted |-> <<>>]

WdPost(p, what, i, device, info) ==
  [p EXCEPT !.posted =
     Append(@, [what |-> what, worker |-> i, device |-> device, info |-> info])]
WdError(p) == WdPost(p, "error", 0, "", WdUnseen)
WdClassicOnly(p, i) == p.workers[i].methods = {"classic"}

\* finishDiscovery() on a thread of the pool: scanFinished() is queued if the
\* agent is still connected to it.
WdFinish(p, i) ==
  LET q == [p EXCEPT !.workers[i].watcher = FALSE]
  IN  WdPost(IF i = p.worker THEN WdPost(q, "finished", i, "", WdUnseen) ELSE q,
             "delete", i, "", WdUnseen)
\* ... when the count reaches 0, if nothing else ends the search.
WdFinishIfLast(p, i) ==
  IF WdClassicOnly(p, i) /\ p.workers[i].pending = 0 THEN WdFinish(p, i) ELSE p

-----------------------------------------------------------------------------
(* The agent *)

\* start(), with the worker's start(); an error is told at once.
WdStart ==
  /\ wd.worker = 0 /\ Len(wd.workers) < wd.scenario.starts
  /\ \E failed \in IF WdMay("startFails") THEN SUBSET wd.scenario.methods ELSE {{}} :
       LET i == Len(wd.workers) + 1
           methods == wd.scenario.methods
           w == [WdWorker(methods) EXCEPT !.finding = methods \ failed,
                                          !.watcher = "le" \in methods]
       IN  wd' = [wd EXCEPT
                    !.workers = Append(@, w), !.worker = i,
                    !.listed = [d \in WdDevices |-> WdUnseen],
                    !.by = [d \in WdDevices |-> 0], !.ends = 0, !.ended = 0,
                    !.timer = @ \/ (wd.scenario.timeout /\ "le" \in methods)]

\* disconnectAndClearWorker() takes the worker's signals, and the timer from it.
WdClear(p) == [p EXCEPT !.worker = 0, !.timer = FALSE]

\* stop()
WdStopped(p) == WdClear([p EXCEPT !.workers[p.worker].watcher = FALSE])
WdStop ==
  /\ WdMay("stops") /\ wd.worker # 0
  /\ (\E k \in DOMAIN wd.posted : wd.posted[k].what = "finished") => WdMay("lateStop")
  /\ wd' = [WdStopped(wd) EXCEPT !.ends = @ + 1, !.ended = wd.worker]

\* onScanFinished()
WdScanFinished(p, i) == [WdClear(p) EXCEPT !.ends = @ + 1, !.ended = i]

\* finishDiscovery() in the thread of the agent: its signal is direct.
WdTimeout ==
  /\ wd.timer /\ wd.worker # 0
  /\ wd' = WdPost([WdScanFinished([wd EXCEPT !.timer = FALSE], wd.worker)
                     EXCEPT !.workers[wd.worker].watcher = FALSE],
                  "delete", wd.worker, "", WdUnseen)

\* registerDevice()
WdRegister(p, d, info) ==
  IF p.by[d] # 0
  THEN [p EXCEPT !.listed[d].services = IF info.services > @ THEN info.services ELSE @]
  ELSE [p EXCEPT !.listed[d] = info, !.by[d] = Len(p.workers)]
\* updateDeviceData()
WdUpdate(p, d, info) ==
  IF p.by[d] = 0 THEN p ELSE [p EXCEPT !.listed[d].data = info.data]

\* deviceFound() and deviceDataChanged() are queued for the worker itself and
\* reach nobody when it is not the agent's any more.
WdHeard(p, i) == i = p.worker /\ ~p.workers[i].deleted
WdDeliver ==
  /\ wd.posted # <<>>
  /\ LET event == Head(wd.posted)
         i == event.worker
         p == [wd EXCEPT !.posted = Tail(@)]
     IN  wd' = CASE event.what = "finished" -> WdScanFinished(p, i)
                 [] event.what = "delete" -> [p EXCEPT !.workers[i].deleted = TRUE]
                 [] event.what = "found" /\ WdHeard(p, i) ->
                      WdRegister(p, event.device, event.info)
                 [] event.what = "data" /\ WdHeard(p, i) ->
                      WdUpdate(p, event.device, event.info)
                 [] OTHER -> p

-----------------------------------------------------------------------------
(* The callbacks of a worker *)

\* onDeviceDiscoveryFinished(), gatherMultipleDeviceInformation()
WdGather_EmptyWaits(p, i, m, devices, refused) ==
  LET q == [p EXCEPT !.workers[i].pending = @ + Cardinality(devices \ refused),
                     !.workers[i].ops = @ \cup {<<m, d, 0>> : d \in devices \ refused}]
      told == IF refused = {} THEN q ELSE WdError(q)
  IN  IF devices = {} THEN p
      ELSE IF devices = refused THEN WdFinishIfLast(told, i) ELSE told
WdGather(p, i, m, devices, refused) ==
  LET q == [p EXCEPT !.workers[i].pending = @ + Cardinality(devices \ refused),
                     !.workers[i].ops = @ \cup {<<m, d, 0>> : d \in devices \ refused}]
      told == IF refused = {} THEN q ELSE WdError(q)
  IN  IF devices = {} /\ WdClassicOnly(p, i) THEN WdFinish(p, i)
      ELSE IF devices # {} /\ devices = refused THEN WdFinishIfLast(told, i) ELSE told
WdFindAnswered(i, m) ==
  /\ m \in wd.workers[i].finding
  /\ LET p == [wd EXCEPT !.workers[i].finding = @ \ {m}]
         devices == wd.scenario.paired[m]
     IN  \E outcome \in WdOutcomes("found", {"findFails"}),
            refused \in IF WdMay("refused") THEN SUBSET devices ELSE {{}} :
           wd' = IF outcome = "findFails" \/ p.workers[i].deleted THEN p
                 ELSE WdGather(p, i, m, devices, refused)

\* onPairedClassicBluetoothDeviceFoundAsync() counts down and then reads the device,
\* while other callbacks run; the callback counts down again when it returns, but
\* only the first looks, when it has read, whether it was the last.
WdClassicCounted(i, op) ==
  /\ op[1] = "classic" /\ ~wd.workers[i].deleted
  /\ wd' = [wd EXCEPT !.workers[i].ops = (@ \ {op}) \cup {<<"reading", op[2], op[3]>>},
                      !.workers[i].pending = @ - 1]
WdClassicFound(p, i, d, outcome) ==
  CASE outcome = "unanswered" -> p
    [] outcome = "detailsFail" -> WdError(p)
    [] outcome = "denied" -> WdFinishIfLast(p, i)
    [] OTHER -> WdFinishIfLast(WdPost(p, "found", i, d, WdUnseen), i)

\* onBluetoothLEDeviceFound(), for a paired device and for one that advertises
WdLEFound(p, i, d, outcome, data) ==
  CASE outcome = "unanswered" -> p
    [] outcome \in {"denied", "detailsFail"} -> WdError(p)
    [] OTHER -> WdPost(p, "found", i, d,
                       [services |-> p.workers[i].found[d].services, data |-> data])
WdPairedLEFound(p, i, d, outcome, data) ==
  WdLEFound(IF outcome = "unanswered" THEN p
            ELSE [p EXCEPT !.workers[i].pending = @ - 1], i, d, outcome, data)

WdCallback(i, op) ==
  LET d == op[2]
      p == [wd EXCEPT !.workers[i].ops = @ \ {op}]
      q == [p EXCEPT !.workers[i].leaving = @ + 1]
      data == wd.workers[i].found[d].data
  IN  \E outcome \in WdOutcomes("found", {"unanswered", "denied", "detailsFail"}),
         read \in IF WdMay("torn") THEN 0..data ELSE {data} :
        /\ op[1] = "classic" => p.workers[i].deleted \/ outcome = "unanswered"
        /\ wd' = IF p.workers[i].deleted THEN p
                 ELSE CASE op[1] \in {"classic", "reading"} -> WdClassicFound(q, i, d, outcome)
                        [] op[1] = "le" -> WdPairedLEFound(q, i, d, outcome, read)
                        [] OTHER -> WdLEFound(p, i, d, outcome, read)
WdCallbackReturns(i) ==
  /\ wd.workers[i].leaving > 0
  /\ wd' = [wd EXCEPT !.workers[i].leaving = @ - 1, !.workers[i].pending = @ - 1]

\* onBluetoothLEAdvertisementReceived(): a device that is new, or has a new
\* service, is asked for; new data alone are posted.
WdAdvertised(p, i, d, info) ==
  LET q == [p EXCEPT !.workers[i].found[d] = info]
      known == p.workers[i].found[d]
  IN  IF info.services > known.services
      THEN [q EXCEPT !.workers[i].ops = @ \cup {<<"advert", d, p.adverts>>}]
      ELSE WdPost(q, "data", i, d, info)
WdPaired(i, d) == \E m \in wd.workers[i].methods : d \in wd.scenario.paired[m]
WdAdvertisement(i, d) ==
  /\ wd.workers[i].watcher /\ wd.adverts < wd.scenario.adverts
  /\ wd.workers[i].found[d] = WdUnseen /\ WdPaired(i, d) => WdMay("both")
  /\ LET known == wd.workers[i].found[d]
         p == [wd EXCEPT !.adverts = @ + 1]
         more == [known EXCEPT !.services = @ + 1]
         other == [known EXCEPT !.data = @ + 1]
         both == [more EXCEPT !.data = @ + 1]
     IN  \E info \in IF known = WdUnseen THEN {both}
                     ELSE {more, other} \cup IF WdMay("both") THEN {both} ELSE {} :
           wd' = WdAdvertised(p, i, d, info)

-----------------------------------------------------------------------------
WdNext ==
  \/ WdStart \/ WdStop \/ WdTimeout \/ WdDeliver
  \/ \E i \in DOMAIN wd.workers :
       \/ WdCallbackReturns(i)
       \/ \E m \in WdMethods : WdFindAnswered(i, m)
       \/ \E op \in wd.workers[i].ops : WdClassicCounted(i, op) \/ WdCallback(i, op)
       \/ \E d \in WdDevices : WdAdvertisement(i, d)

\* The event loop, its timer and the pool run, and WinRT answers.
WdAnswers ==
  \E i \in DOMAIN wd.workers :
    \/ WdCallbackReturns(i)
    \/ \E m \in WdMethods : WdFindAnswered(i, m)
    \/ \E op \in wd.workers[i].ops : WdClassicCounted(i, op) \/ WdCallback(i, op)
WdFairness == WF_wd(WdDeliver) /\ WF_wd(WdTimeout) /\ WF_wd(WdAnswers)
WdSpec == WdInit /\ [][WdNext]_wd /\ WdFairness

-----------------------------------------------------------------------------
(* What must hold *)

\* The state has its shape, and the timer runs for a search that is under way.
WdTypeOK ==
  /\ wd.scenario \in WdScenarios
  /\ wd.worker \in {0, Len(wd.workers)} /\ wd.ends \in Nat
  /\ wd.timer => wd.worker # 0
  /\ \A i \in DOMAIN wd.workers :
       /\ wd.workers[i].finding \subseteq WdMethods /\ wd.workers[i].leaving \in Nat
       /\ wd.workers[i].pending \in Int

\* A search ends once, by finished() or canceled(), and by its own worker.
WdOneEnd ==
  wd.workers # <<>> =>
    /\ wd.ends = IF wd.worker = 0 THEN 1 ELSE 0
    /\ wd.ended \in {0, Len(wd.workers)}

\* Only the worker of the search under way listens to advertisements.
WdWatcherOwned ==
  \A i \in DOMAIN wd.workers : wd.workers[i].watcher => i = wd.worker

\* With nothing on its way about a device of the search under way, the agent
\* knows the services and the data of its advertisements.
WdQuiet(i, d) ==
  /\ \A k \in DOMAIN wd.posted : wd.posted[k].device # d
  /\ \A op \in wd.workers[i].ops : op[2] # d
WdAdvertsTold ==
  wd.worker # 0 =>
    \A d \in WdDevices :
      WdQuiet(wd.worker, d) => wd.listed[d] = wd.workers[wd.worker].found[d]

\* A step that lists a device, or changes it, delivers what the worker of the
\* search under way has posted: what an earlier worker still finds is not taken
\* for a result of this one.
WdListsItsOwn ==
  [][wd'.listed # wd.listed /\ wd'.workers = wd.workers =>
       wd.posted # <<>> /\ Head(wd.posted).worker = wd.worker]_wd

\* A search that finds only paired devices ends when they have been asked; one
\* for low energy devices ends by its timeout.
WdEndsByItself ==
  wd.worker # 0 /\ (WdClassicOnly(wd, wd.worker) \/ wd.scenario.timeout)
WdSearchEnds == []<>~WdEndsByItself
=============================================================================
