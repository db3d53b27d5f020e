----------------------------- MODULE WinrtCentral -----------------------------
(***************************************************************************)
(* The central of Windows: QLowEnergyControllerPrivateWinRT, its connection *)
(* handler and its service handlers (qlowenergycontroller_winrt.cpp).       *)
(* Each handler lives in a thread of its own and reports by queued signals; *)
(* WinRT calls the controller back on threads of its pool; and the          *)
(* controller's own thread waits for WinRT in nested event loops, where it  *)
(* takes other calls and signals, and returns from the last wait first.     *)
(***************************************************************************)
EXTENDS LowEnergyApi, SequencesExt

CONSTANTS
  WrScenarios  \* what the peer, WinRT and the application may do

(***************************************************************************)
(* A scenario bounds calls and sessions, and its set "may" has:            *)
(* "connectFails"  a connection handler may give up, or the controller may *)
(*                 fail to register for the changes of the device          *)
(* "findError"     the result of a service discovery may be unreadable     *)
(* "findFails"     ... or report a failure                                 *)
(* "errors"        an operation may fail                                   *)
(* "noService"     the native service may be missing                       *)
(* "detailsFail"   a service handler may fail                              *)
(* "noDescriptor"  a descriptor to write may be missing                    *)
(* "linkLoss"      the link may be lost                                    *)
(* "lossRace"      ... also while a registration for value changes waits   *)
(* "closes"        disconnectFromDevice() once connected                   *)
(* "closeEarly"    ... and while connecting                                *)
(* "closeRace"     ... with the handler's report on its way, before it     *)
(*                 hears of it, or while a registration waits              *)
(* "quick"         discoverServices() while an earlier one is not over     *)
(***************************************************************************)
ASSUME WrAssumption ==
  \A c \in WrScenarios :
       /\ c.sessions \in 1..LeMaxSessions /\ c.calls \in 0..LeMaxCalls
       /\ c.may \subseteq
            {"connectFails", "findError", "findFails", "errors", "noService",
             "detailsFail", "noDescriptor", "linkLoss", "lossRace", "closes",
             "closeEarly", "closeRace", "quick"}

VARIABLE
  wr  \* the controller, its handlers, and what WinRT has to answer

WrMay(what) == what \in wr.scenario.may
WrUp == {"Connected", "Discovering", "Discovered"}

-----------------------------------------------------------------------------
WrInit ==
  \E scenario \in WrScenarios :
    wr = [scenario |-> scenario,
          \* the controller: mDevice with its mGattSession, the registration
          \* for its status, those for the values of a service, by session
          state |-> "Unconnected", services |-> NoServices, calls |-> <<>>,
          device |-> FALSE, status |-> FALSE,
          values |-> [s \in LeServices |-> 0],
          \* the connection handlers, one for each session, and the session
          \* the application wants and the one it has (0: none)
          session |-> 0, handlers |-> <<>>, wanted |-> 0, own |-> 0,
          \* signals queued for the controller; its waits, the last one on top;
          \* the included services it waits for without an event loop
          posted |-> <<>>, waits |-> <<>>, blocked |-> {},
          \* the service handlers that run; the service discoveries WinRT has
          \* not answered, and those that wait for included services; calls
          \* WinRT has accepted
          details |-> {}, finding |-> {}, walks |-> {}, accepted |-> {}]

WrPost(w, what, about) ==
  [w EXCEPT !.posted = Append(@, [what |-> what, about |-> about])]

\* invalidateServices(): the waits that go on hold services nobody lists.
WrInvalidate(w) ==
  [w EXCEPT !.services = NoServices,
            !.calls = Dropped(@, DOMAIN @),
            !.waits = [i \in DOMAIN @ |-> [@[i] EXCEPT !.listed = FALSE]],
            !.details = {[h EXCEPT !.listed = FALSE] : h \in @},
            !.blocked = {[h EXCEPT !.listed = FALSE] : h \in @}]
WrUnregister(w) == [w EXCEPT !.status = FALSE]
WrRelease(w) ==
  [WrUnregister(w) EXCEPT !.values = [s \in LeServices |-> 0], !.device = FALSE]
WrHandleConnectionError_StateKept(w) == WrUnregister(w)
WrHandleConnectionError(w) == [WrUnregister(w) EXCEPT !.state = "Unconnected"]

-----------------------------------------------------------------------------
(* The controller's thread runs when it waits in an event loop or not at all *)

WrRunning == wr.blocked = {}
WrRegistering == \E i \in DOMAIN wr.waits : wr.waits[i].call = 0

WrConnect ==
  /\ WrRunning /\ MayConnect(wr.state) /\ wr.session < wr.scenario.sessions
  /\ wr' = [wr EXCEPT !.state = "Connecting", !.session = @ + 1,
                      !.wanted = wr.session + 1,
                      !.handlers = Append(@, "connecting")]

\* QLowEnergyController::disconnectFromDevice() and the backend's; the
\* handlers hear of it when they next wait.
WrAborted_Unheard(handler) == handler
WrAborted(handler) == IF handler = "connecting" THEN "aborting" ELSE handler
WrClose(w) ==
  [WrRelease(WrInvalidate(w)) EXCEPT
     !.state = "Unconnected", !.wanted = 0,
     !.handlers = [i \in DOMAIN @ |-> WrAborted(@[i])]]
WrReported ==
  \E i \in DOMAIN wr.posted : wr.posted[i].what \in {"connected", "failed"}
WrDisconnect ==
  /\ WrRunning /\ MayDisconnect(wr.state)
  /\ WrMay(IF wr.state = "Connecting" THEN "closeEarly" ELSE "closes")
  /\ WrReported \/ WrRegistering => WrMay("closeRace")
  /\ wr' = WrClose(wr)

\* QWinRTLowEnergyConnectionHandler: connectToDevice() with its two ways,
\* handleDeviceDisconnectRequest().  It waits with an early exit, but only an
\* event loop tells it of the request.
WrReports == {"connected"} \cup IF WrMay("connectFails") THEN {"failed"} ELSE {}
WrHandlerHears ==
  \E i \in DOMAIN wr.handlers :
    /\ wr.handlers[i] = "aborting"
    /\ wr' = [wr EXCEPT !.handlers[i] = "silent"]
WrHandlerEnds ==
  \E i \in DOMAIN wr.handlers :
    /\ wr.handlers[i] \in
         {"connecting", "silent"} \cup IF WrMay("closeRace") THEN {"aborting"} ELSE {}
    /\ \E report \in WrReports :
         wr' = [IF wr.handlers[i] = "silent" THEN wr ELSE WrPost(wr, report, i)
                  EXCEPT !.handlers[i] = "over"]

\* The signals of the handlers, in the controller's thread.
WrDeviceConnected(w, i, registered) ==
  IF ~registered THEN WrHandleConnectionError([w EXCEPT !.device = TRUE])
  ELSE [w EXCEPT !.device = TRUE, !.status = TRUE, !.state = "Connected", !.own = i]

\* registerForValueChanges(): done already, or wait for the characteristic.
WrCharList(w, s) ==
  IF w.services[s] = "none" THEN w
  ELSE IF w.values[s] # 0 THEN [w EXCEPT !.services[s] = "Discovered"]
  ELSE [w EXCEPT !.waits = Append(@, [call |-> 0, service |-> s, listed |-> TRUE])]
WrHandleServiceHandlerError(w) ==
  IF w.state = "Discovering" THEN [w EXCEPT !.state = "Unconnected"] ELSE w

WrDeliver ==
  /\ WrRunning /\ wr.posted # <<>>
  /\ LET signal == Head(wr.posted)
         w == [wr EXCEPT !.posted = Tail(@)]
     IN  CASE signal.what = "connected" ->
                \E registered \in {TRUE} \cup
                     IF WrMay("connectFails") THEN {FALSE} ELSE {} :
                  wr' = WrDeviceConnected(w, signal.about, registered)
           [] signal.what = "failed" -> wr' = WrHandleConnectionError(w)
           [] signal.what = "charList" -> wr' = WrCharList(w, signal.about)
           [] OTHER -> wr' = WrHandleServiceHandlerError(w)

\* onStatusChange(), on a thread of the pool.
WrStatusLost(w) ==
  [WrRelease(WrInvalidate(w)) EXCEPT !.state = "Unconnected"]
WrStatusChanged ==
  /\ wr.status /\ wr.state # "Unconnected" /\ WrMay("linkLoss")
  /\ WrRegistering => WrMay("lossRace")
  /\ wr' = WrStatusLost(wr)

-----------------------------------------------------------------------------
(* The services *)

WrBusy == wr.finding \cup {walk.session : walk \in wr.walks}
WrDiscover ==
  /\ WrRunning /\ MayDiscover(wr.state)
  /\ WrBusy # {} => WrMay("quick")
  /\ wr' = [wr EXCEPT !.state = "Discovering", !.finding = @ \cup {wr.session}]

WrService(w, s) ==
  [w EXCEPT !.services[s] = IF @ = "none" THEN "Remote" ELSE @]

\* onServiceDiscoveryFinished(), on a thread of the pool, with the wait of
\* obtainIncludedServices() after each service.
WrFind(w, i, result) ==
  IF w.state # "Discovering" \/ result = "failure" THEN w
  ELSE IF result = "error" THEN WrHandleConnectionError(w)
  ELSE LET found == SetToSeq(LeServices)
       IN  [WrService(w, Head(found)) EXCEPT
              !.walks = @ \cup {[session |-> i, left |-> Tail(found)]}]
WrFound ==
  \E i \in wr.finding :
    \E result \in {"ok"} \cup (IF WrMay("findError") THEN {"error"} ELSE {})
                  \cup IF WrMay("findFails") THEN {"failure"} ELSE {} :
      wr' = WrFind([wr EXCEPT !.finding = @ \ {i}], i, result)

WrWalkOn(w, walk) ==
  LET rest == [w EXCEPT !.walks = @ \ {walk}]
  IN  IF w.state # "Discovering" THEN rest
      ELSE IF walk.left = <<>> THEN [rest EXCEPT !.state = "Discovered"]
      ELSE [WrService(rest, Head(walk.left)) EXCEPT
              !.walks = @ \cup {[walk EXCEPT !.left = Tail(@)]}]
WrWalk == \E walk \in wr.walks : wr' = WrWalkOn(wr, walk)

\* discoverServiceDetails(), the wait for the included services, and
\* QWinRTLowEnergyServiceHandler.
WrDiscoverDetails(s) ==
  /\ WrRunning /\ MayDiscoverDetails(wr.services[s]) /\ wr.device
  /\ \E native \in {TRUE} \cup IF WrMay("noService") THEN {FALSE} ELSE {} :
       wr' = [wr EXCEPT !.services[s] = "Discovering",
                        !.blocked = IF native THEN {[service |-> s, listed |-> TRUE]}
                                    ELSE {}]

WrDiscoveryError(w, h) ==
  IF h.listed THEN [w EXCEPT !.services[h.service] = "Remote"] ELSE w
WrIncluded ==
  \E h \in wr.blocked :
    \E ok \in {TRUE} \cup IF WrMay("errors") THEN {FALSE} ELSE {} :
      LET w == [wr EXCEPT !.blocked = {}]
      IN  wr' = IF ok THEN [w EXCEPT !.details = @ \cup {h}]
                ELSE WrDiscoveryError(w, h)

WrCharListObtained ==
  \E h \in wr.details :
    \E result \in {"charList"} \cup
         IF WrMay("detailsFail") THEN {"charListFailed"} ELSE {} :
      wr' = WrPost([wr EXCEPT !.details = @ \ {h}], result, h.service)

-----------------------------------------------------------------------------
(* Reads and writes: wait for the characteristic, then start the operation *)

WrCall(a) ==
  /\ WrRunning /\ MayAccess(wr.services[LeHome[a]]) /\ wr.device
  /\ Len(wr.calls) < wr.scenario.calls
  /\ wr' = [wr EXCEPT !.calls = Append(@, "open"),
                      !.waits = Append(@, [call |-> Len(wr.calls) + 1,
                                           service |-> LeHome[a], listed |-> TRUE])]

\* readX(), writeX() after getNativeCharacteristic(): "missing" is the
\* descriptor writeDescriptor() does not find.
WrStart(w, i, result) ==
  CASE result = "ok" -> [w EXCEPT !.accepted = @ \cup {i}]
    [] result = "error" -> [w EXCEPT !.calls = Answered(@, i, "error")]
    [] OTHER -> w
WrStartResults ==
  {"ok"} \cup (IF WrMay("errors") THEN {"error"} ELSE {})
         \cup IF WrMay("noDescriptor") THEN {"missing"} ELSE {}
WrRegistered(w, wait) ==
  IF wait.listed
  THEN [w EXCEPT !.services[wait.service] = "Discovered"] ELSE w
WrValue(w, s) == [w EXCEPT !.values[s] = w.own]

\* The wait on top ends.
WrAwaited ==
  /\ WrRunning /\ wr.waits # <<>>
  /\ LET wait == Last(wr.waits)
         w == [wr EXCEPT !.waits = Front(@)]
     IN  \E result \in WrStartResults :
           wr' = IF wait.call # 0 THEN WrStart(w, wait.call, result)
                 ELSE WrRegistered(IF result = "ok" THEN WrValue(w, wait.service) ELSE w,
                                   wait)

\* The completion of an operation, on a thread of the pool.
WrCompleted ==
  \E i \in wr.accepted :
    \E result \in {"ok"} \cup IF WrMay("errors") THEN {"error"} ELSE {} :
      wr' = [wr EXCEPT !.accepted = @ \ {i}, !.calls = Answered(@, i, result)]

-----------------------------------------------------------------------------
WrNext ==
  \/ WrConnect \/ WrDisconnect \/ WrHandlerHears \/ WrHandlerEnds \/ WrDeliver
  \/ WrStatusChanged \/ WrDiscover \/ WrFound \/ WrWalk \/ WrIncluded
  \/ WrCharListObtained \/ WrAwaited \/ WrCompleted
  \/ \E s \in LeServices : WrDiscoverDetails(s)
  \/ \E a \in LeAttributes : WrCall(a)

\* The threads run, WinRT answers or times out (every wait has a limit but the
\* one for an unpaired device's services, which the system ends).  Strong
\* fairness where the controller's thread may be blocked again and again.
WrFairness ==
  /\ WF_wr(WrHandlerHears) /\ WF_wr(WrHandlerEnds) /\ SF_wr(WrDeliver)
  /\ WF_wr(WrFound) /\ WF_wr(WrWalk) /\ WF_wr(WrIncluded)
  /\ WF_wr(WrCharListObtained) /\ SF_wr(WrAwaited) /\ WF_wr(WrCompleted)
WrSpec == WrInit /\ [][WrNext]_wr /\ WrFairness

-----------------------------------------------------------------------------
(* What must hold *)

\* The state has its shape; the controller waits in one place at a time; and a
\* call WinRT has accepted has left the waits.
WrTypeOK ==
  /\ wr.scenario \in WrScenarios
  /\ wr.state \in ControllerStates \ {"Closing"}
  /\ wr.services \in [LeServices -> ServiceStates]
  /\ \A i \in DOMAIN wr.calls : wr.calls[i] \in LeResults
  /\ {wr.device, wr.status} \subseteq BOOLEAN
  /\ wr.values \in [LeServices -> 0..LeMaxSessions]
  /\ \A i \in DOMAIN wr.handlers :
       wr.handlers[i] \in {"connecting", "aborting", "silent", "over"}
  /\ Cardinality(wr.blocked) <= 1
  /\ wr.status => wr.device
  /\ {wr.waits[i].call : i \in DOMAIN wr.waits} \cap wr.accepted = {}

\* A controller that says it is connected holds the device and hears of its
\* loss.
WrHeld == wr.state \in WrUp => wr.device /\ wr.status

\* ... and the connection is the one the application asked for last: the
\* handler of an abandoned attempt is not heard.
WrOwnConnection == wr.state \in WrUp => wr.own = wr.wanted

\* In DiscoveredState every service of the peer is listed, whatever the state
\* has been while the discovery waited.
WrAllDiscovered ==
  wr.state = "Discovered" => \A s \in LeServices : wr.services[s] # "none"

\* The registrations for value changes are those of the connection that is up:
\* a later session that found one of an earlier session would not register.
WrValuesOwn ==
  \A s \in LeServices : wr.values[s] # 0 => wr.device /\ wr.values[s] = wr.own

\* connectToDevice() and discoverServices() come to an end ...
WrSettles ==
  /\ []<>(wr.state # "Connecting")
  /\ []<>(wr.state # "Discovering")
\* ... and so does discoverDetails() ...
WrDetailsEnd ==
  \A s \in LeServices : []<>(wr.services[s] # "Discovering")
\* ... and every read and write: answered, or its service invalid.
WrCallsEnd ==
  \A i \in 1..LeMaxCalls : []<>(i \notin Open(wr.calls))
=============================================================================
