---------------------------- MODULE DarwinDiscovery ----------------------------
(***************************************************************************)
(* The device discovery agent of macOS and iOS                             *)
(* (qbluetoothdevicediscoveryagent_darwin.mm) with its two inquiries: the  *)
(* classic one of IOBluetooth, on the main thread, with a watchdog         *)
(* (darwin/btdeviceinquiry.mm), and one on the Low Energy queue, made anew *)
(* for every scan, whose signals cross to the main thread                  *)
(* (darwin/btledeviceinquiry.mm).                                          *)
(***************************************************************************)
EXTENDS Integers, Sequences, FiniteSets, TLC

CONSTANT DdScenarios

DdFlags == {"ios", "startFails", "stopFails", "classicError", "hangs", "powerOff",
            "unsupported", "restart", "lateSignal", "noTimeout"}
ASSUME DdAssumption == \A s \in DdScenarios : s.may \subseteq DdFlags

VARIABLE dd

DdMay(flag) == flag \in dd.scenario.may
DdMethods(r) == IF "ios" \in r.scenario.may THEN {{"le"}}
                ELSE {{"classic"}, {"le"}, {"classic", "le"}}

\* classic: m_active of the classic inquiry; watchdog; running: what IOBluetooth
\* does.  le: internalState of the scan, number says which scan it is, owned
\* whether inquiryLE holds it.  queue: blocks of the Low Energy queue; events:
\* signals on their way to the main thread.  stopped, told: as the application
\* sees the search; strays: ends it is told of without a search.
DdInit ==
  \E s \in DdScenarios :
    dd = [scenario |-> s, power |-> "on", state |-> "none", methods |-> {},
          startPending |-> FALSE, stopPending |-> FALSE,
          classic |-> FALSE, watchdog |-> FALSE, running |-> FALSE,
          le |-> "none", number |-> 0, owned |-> FALSE, timer |-> FALSE,
          queue |-> <<>>, events |-> <<>>,
          starts |-> 0, ends |-> 0, stopped |-> FALSE, told |-> "nothing"]

DdActive(r) == r.startPending \/ (~r.stopPending /\ r.state # "none")
DdEnds(r, how) == [r EXCEPT !.ends = @ + 1, !.told = how]
Emitted(r, name) == [r EXCEPT !.events = Append(@, [name |-> name, number |-> r.number])]

\* startClassic() and startLE().
StartClassic(r, ok) ==
  IF ok THEN [r EXCEPT !.state = "classic", !.classic = TRUE, !.running = TRUE,
                       !.watchdog = TRUE]
  ELSE DdEnds(r, "error")
StartLE(r) ==
  [r EXCEPT !.state = "le", !.le = "starting", !.number = @ + 1, !.owned = TRUE,
            !.timer = FALSE, !.queue = Append(@, "start")]

\* start(); ok: IOBluetooth accepts the inquiry.
Scan(r, ok) ==
  LET a == [r EXCEPT !.state = "none", !.stopped = FALSE, !.starts = @ + 1]
  IN IF "classic" \in r.methods THEN StartClassic(a, ok) ELSE StartLE(a)
DdStartScan(r, methods, ok) ==
  LET a == [r EXCEPT !.methods = methods]
  IN IF a.stopPending THEN [a EXCEPT !.startPending = TRUE] ELSE Scan(a, ok)

\* The end of inquiryFinished() and LEinquiryFinished(): a stop that waited, a start
\* that waited, the Low Energy phase after the classic one, or the end of the search.
DdFinished(r) == DdEnds(r, "finished")
NextPhase(r, leFollows) == IF leFollows THEN StartLE(r) ELSE DdFinished(r)
ScanEnds(r, ok, leFollows) ==
  LET a == [r EXCEPT !.state = "none", !.stopPending = FALSE, !.startPending = FALSE]
  IN IF r.stopPending /\ ~r.startPending THEN DdEnds(a, "canceled")
     ELSE IF r.startPending THEN Scan([a EXCEPT !.ends = @ + 1], ok)
     ELSE NextPhase(a, leFollows)
InquiryFinished(r, ok) == ScanEnds(r, ok, "le" \in r.methods)
LEInquiryFinished(r, ok) == ScanEnds([r EXCEPT !.owned = FALSE], ok, FALSE)
LEInquiryError(r) ==
  DdEnds([r EXCEPT !.owned = FALSE, !.startPending = FALSE, !.stopPending = FALSE,
                   !.state = "none"], "error")
\* LEnotSupported(); on iOS the state of the agent is not reset.
LENotSupported(r, ok) ==
  IF "ios" \in r.scenario.may
    THEN DdEnds([r EXCEPT !.owned = FALSE, !.startPending = FALSE,
                          !.stopPending = FALSE], "error")
  ELSE IF "classic" \in r.methods THEN LEInquiryFinished(r, ok) ELSE LEInquiryError(r)

\* deviceInquiryComplete(); an error does not end the inquiry, its watchdog does.
InquiryComplete(r, error, ok) ==
  IF ~r.classic THEN r
  ELSE IF error THEN [r EXCEPT !.startPending = FALSE, !.stopPending = FALSE]
  ELSE InquiryFinished([r EXCEPT !.watchdog = FALSE, !.classic = FALSE], ok)

\* stop() of the scan on its queue, and stop() of the agent, which waits for it.
LEStop(r) == [r EXCEPT !.le = "cancelled", !.timer = FALSE, !.queue = <<>>]
DdStopScan(r, ok) ==
  LET a == [r EXCEPT !.startPending = FALSE, !.stopPending = TRUE]
  IN IF r.state # "classic" THEN LEInquiryFinished(LEStop(a), TRUE)
     ELSE IF ok THEN [a EXCEPT !.running = FALSE] ELSE r

\* centralManagerDidUpdateState() and timeout(), on the queue.
StateUpdated_AfterEnd(r) ==
  IF r.le \in {"none", "cancelled", "failed"} \/ (r.power = "on" /\ r.le # "starting") THEN r
  ELSE IF r.power = "on" THEN [r EXCEPT !.le = "active", !.timer = TRUE]
  ELSE Emitted([r EXCEPT !.le = "failed", !.timer = FALSE], "error")
StateUpdated(r) ==
  IF r.le \notin {"starting", "active"} THEN r
  ELSE IF r.power = "on"
    THEN IF r.le = "active" THEN r
         ELSE [r EXCEPT !.le = "active", !.timer = "noTimeout" \notin r.scenario.may]
  ELSE IF r.power = "unsupported"
    THEN Emitted([r EXCEPT !.le = "failed", !.timer = FALSE],
                 IF r.le = "active" THEN "error" ELSE "notSupported")
  ELSE IF "ios" \in r.scenario.may /\ r.le = "starting" THEN [r EXCEPT !.timer = TRUE]
  ELSE Emitted([r EXCEPT !.le = "failed", !.timer = FALSE], "error")
LETimeout(r) ==
  IF r.le = "active" THEN Emitted([r EXCEPT !.le = "finished"], "finished")
  ELSE IF r.le = "starting" THEN Emitted([r EXCEPT !.le = "failed"], "error")
  ELSE r

--------------------------------------------------------------------------------
DdOutcomes(flag) == IF DdMay(flag) THEN BOOLEAN ELSE {TRUE}

DdStart ==
  \E methods \in DdMethods(dd), ok \in DdOutcomes("startFails") :
    /\ ~DdActive(dd) /\ dd.starts < dd.scenario.starts
    /\ dd.stopPending => DdMay("restart")
    /\ dd' = DdStartScan(dd, methods, ok)
DdStop ==
  \E ok \in DdOutcomes("stopFails") :
    /\ DdActive(dd) /\ ~dd.startPending
    /\ dd.events # <<>> => DdMay("lateSignal")
    /\ dd' = DdStopScan([dd EXCEPT !.stopped = ok \/ dd.state # "classic"], ok)

\* IOBluetooth reports the end of an inquiry, that it was stopped, or an error.
DdComplete ==
  /\ dd.classic /\ (dd.running => ~DdMay("hangs"))
  /\ \E ok \in DdOutcomes("startFails") :
       dd' = InquiryComplete([dd EXCEPT !.running = FALSE], FALSE, ok)
DdClassicError ==
  /\ dd.running /\ ~dd.stopPending /\ DdMay("classicError")
  /\ dd' = [InquiryComplete(dd, TRUE, TRUE) EXCEPT !.told = "error"]
DdWatchdog ==
  dd.watchdog /\ dd.running /\ dd' = [dd EXCEPT !.running = FALSE]

DdQueueStarts ==
  dd.queue # <<>> /\ dd' = StateUpdated([dd EXCEPT !.queue = Tail(@)])
DdPower ==
  /\ \/ DdMay("powerOff") /\ dd.power = "on" /\ dd.state # "classic"
        /\ dd' = [dd EXCEPT !.power = "off"]
     \/ DdMay("unsupported") /\ dd.number = 0 /\ dd.power = "on"
        /\ dd' = [dd EXCEPT !.power = "unsupported"]
     \/ DdMay("powerOff") /\ DdMay("ios") /\ dd.power = "off"
        /\ dd' = [dd EXCEPT !.power = "on"]
DdUpdated ==
  dd.queue = <<>> /\ dd' = StateUpdated(dd) /\ dd' # dd
DdTimeout == dd.timer /\ dd' = LETimeout([dd EXCEPT !.timer = FALSE])

DdEvent ==
  /\ dd.events # <<>>
  /\ \E ok \in DdOutcomes("startFails") :
       LET r == [dd EXCEPT !.events = Tail(@)]
           name == Head(dd.events).name
       IN dd' = CASE name = "finished" -> LEInquiryFinished(r, ok)
                  [] name = "error" -> LEInquiryError(r)
                  [] name = "notSupported" -> LENotSupported(r, ok)

DdNext ==
  \/ DdStart \/ DdStop \/ DdComplete \/ DdClassicError \/ DdWatchdog \/ DdQueueStarts
  \/ DdPower \/ DdUpdated \/ DdTimeout \/ DdEvent

\* Both threads run, the timers fire, IOBluetooth reports the end it was asked for.
DdFairness ==
  /\ WF_dd(DdComplete) /\ WF_dd(DdWatchdog) /\ WF_dd(DdQueueStarts)
  /\ WF_dd(DdUpdated) /\ WF_dd(DdTimeout) /\ WF_dd(DdEvent)
DdSpec == DdInit /\ [][DdNext]_dd /\ DdFairness

--------------------------------------------------------------------------------
\* A record of the right shape.
DdTypeOK ==
  /\ dd.state \in {"none", "classic", "le"} /\ dd.methods \subseteq {"classic", "le"}
  /\ dd.le \in {"none", "starting", "active", "finished", "failed", "cancelled"}
  /\ dd.told \in {"nothing", "finished", "canceled", "error"}
  /\ (dd.startPending => dd.stopPending) /\ (dd.stopPending => dd.state = "classic")

\* The agent and its inquiries agree on what runs: the classic inquiry is active in
\* the classic phase only, and a Low Energy phase has a scan that is still going to
\* send its end.
DdPhasesAgree ==
  /\ dd.classic <=> dd.state = "classic"
  /\ dd.state = "le" => dd.owned /\ (\/ dd.le \in {"starting", "active"}
                                     \/ \E i \in DOMAIN dd.events :
                                          dd.events[i].number = dd.number)
  /\ dd.state # "le" => ~dd.owned

\* A signal that reaches the agent comes from the scan it runs.
DdOwnSignal ==
  \A i \in DOMAIN dd.events : dd.state = "le" /\ dd.events[i].number = dd.number

\* Every search has one end, and a search that was stopped is not reported finished.
DdOneEnd == dd.starts = dd.ends + (IF dd.state # "none" THEN 1 ELSE 0)
DdStopCancels == dd.stopped /\ dd.state = "none" => dd.told # "finished"

\* Every search ends, the one whose inquiry IOBluetooth forgets included.
DdSettles == []<>~DdActive(dd)

=============================================================================
