---------------------------- MODULE AndroidDiscovery ----------------------------
(***************************************************************************)
(* Two device discovery agents on Android                                  *)
(* (qbluetoothdevicediscoveryagent_android.cpp, the broadcast receivers of *)
(* android/).  A search is a classic discovery, which the adapter runs     *)
(* once for everybody and ends with a broadcast, then a Low Energy scan of *)
(* the agent's own, which ends with its timer.  An agent that is started   *)
(* while its search is cancelled starts again afterwards ("restart"); a    *)
(* stop() until then is a flag of its own ("stopRestart").                 *)
(***************************************************************************)
EXTENDS Integers, Sequences, SequencesExt, TLC

CONSTANTS AdAgents, AdScenarios

AdFlags == {"startFails", "cancelFails", "scanFails", "powerOff", "noLocation",
            "restart", "stopRestart", "twice", "hasty", "noTimeout"}
ASSUME AdAssumption == \A s \in AdScenarios : s.may \subseteq AdFlags

VARIABLE ad

AdMay(flag) == flag \in ad.scenario.may
Methods == {{"classic"}, {"le"}, {"classic", "le"}}

\* An agent: m_active, pendingCancel, pendingStart, requestedMethods, the timer of
\* its scan; its receiver, which every later broadcast reaches; the discovery it
\* has started or joined; stopped: stop() was called; told: the last end.
\* early: an agent took the end of an earlier discovery for that of its own.
NewAgent == [scan |-> "none", cancel |-> FALSE, start |-> FALSE, methods |-> {},
             timer |-> FALSE, receiver |-> FALSE, disc |-> 0, stopped |-> FALSE,
             starts |-> 0, ends |-> 0, told |-> "nothing"]
\* The adapter: on; discovering, the number of discoveries so far; broadcasts of
\* DISCOVERY_FINISHED to be sent; events: those posted to each agent's thread.
AdInit ==
  \E s \in AdScenarios :
    ad = [scenario |-> s, on |-> TRUE, discovering |-> FALSE, number |-> 0,
          broadcasts |-> <<>>, events |-> <<>>, early |-> FALSE,
          agent |-> [a \in AdAgents |-> NewAgent]]

AdEnds(r, a, how) ==
  [r EXCEPT !.agent[a].ends = @ + 1, !.agent[a].told = how]
Inactive(r, a) == [r EXCEPT !.agent[a].scan = "none"]
IsActive(g) == g.start \/ (~g.cancel /\ g.scan # "none")

\* startDiscovery() of the adapter: a discovery that runs is joined.
StartDiscovery(r, a) ==
  LET n == IF r.discovering THEN r.number ELSE r.number + 1
  IN [r EXCEPT !.discovering = TRUE, !.number = n, !.agent[a].disc = n]
CancelDiscovery(r) ==
  IF ~r.discovering THEN r
  ELSE [r EXCEPT !.discovering = FALSE,
                 !.broadcasts = @ \o (IF "twice" \in r.scenario.may
                                        THEN <<r.number, r.number>> ELSE <<r.number>>)]

\* startLowEnergyScan(), stopLowEnergyScan().
StartLowEnergyScan(r, a, ok) ==
  IF ~ok THEN AdEnds(Inactive(r, a), a, "finished")
  ELSE [r EXCEPT !.agent[a].scan = "le",
                 !.agent[a].timer = "noTimeout" \notin r.scenario.may]
StopLowEnergyScan(r, a) ==
  AdEnds([Inactive(r, a) EXCEPT !.agent[a].timer = FALSE], a,
         IF r.agent[a].timer THEN "canceled" ELSE "finished")

\* start(): ready, none of the errors that are found first; startOk and scanOk,
\* what startDiscovery() and scanForLeDevice() return.
Begin(r, a, ready, startOk, scanOk) ==
  LET methods == r.agent[a].methods
      b == [r EXCEPT !.agent[a].starts = @ + 1]
      c == [b EXCEPT !.agent[a].receiver = TRUE]
  IN IF ~r.on \/ ~ready THEN AdEnds(b, a, "error")
     ELSE IF "classic" \in methods /\ startOk
       THEN StartDiscovery([c EXCEPT !.agent[a].scan = "sdp"], a)
     ELSE IF "le" \in methods THEN StartLowEnergyScan(c, a, scanOk)
     ELSE AdEnds(c, a, "error")
Start(r, a, methods, ready, startOk, scanOk) ==
  LET b == [r EXCEPT !.agent[a].methods = methods]
  IN IF b.agent[a].cancel THEN [b EXCEPT !.agent[a].start = TRUE, !.agent[a].stopped = FALSE]
     ELSE Begin([b EXCEPT !.agent[a].stopped = FALSE], a, ready, startOk, scanOk)

\* stop(), which a cancellation that is under way ignores.
Stop(r, a, ok) ==
  IF r.agent[a].scan = "le" THEN StopLowEnergyScan(r, a)
  ELSE IF r.agent[a].cancel THEN r
  ELSE LET b == [r EXCEPT !.agent[a].cancel = TRUE, !.agent[a].start = FALSE]
       IN IF ok THEN CancelDiscovery(b) ELSE [b EXCEPT !.agent[a].told = "error"]

\* processSdpDiscoveryFinished().
ClassicEnds(r, a, scanOk) ==
  IF ~r.on THEN AdEnds(Inactive(r, a), a, "error")
  ELSE IF "le" \notin r.agent[a].methods THEN AdEnds(Inactive(r, a), a, "finished")
  ELSE StartLowEnergyScan(r, a, scanOk)
SdpDiscoveryFinished(r, a, startOk, scanOk) ==
  LET g == r.agent[a]
      b == [r EXCEPT !.agent[a].cancel = FALSE, !.agent[a].start = FALSE]
  IN IF g.scan # "sdp" THEN r
     ELSE IF g.cancel /\ ~g.start THEN AdEnds(Inactive(b, a), a, "canceled")
     ELSE IF g.start
       THEN Begin([b EXCEPT !.agent[a].ends = @ + 1], a, TRUE, startOk, scanOk)
     ELSE ClassicEnds(r, a, scanOk)

--------------------------------------------------------------------------------
NoneOnItsWay == ad.broadcasts = <<>> /\ ad.events = <<>>
Outcomes(flag) == IF AdMay(flag) THEN BOOLEAN ELSE {TRUE}

AdStart ==
  \E a \in ad.scenario.agents, methods \in Methods, ready \in Outcomes("noLocation"),
     startOk \in Outcomes("startFails"), scanOk \in Outcomes("scanFails") :
    /\ ~IsActive(ad.agent[a]) /\ ad.agent[a].starts < ad.scenario.starts
    /\ ad.agent[a].cancel => AdMay("restart")
    /\ ~ad.agent[a].cancel => NoneOnItsWay \/ AdMay("hasty")
    /\ ad' = Start(ad, a, methods, ready, startOk, scanOk)
AdStop ==
  \E a \in AdAgents, ok \in Outcomes("cancelFails") :
    /\ IsActive(ad.agent[a])
    /\ ad.agent[a].start => AdMay("stopRestart")
    /\ ad' = Stop([ad EXCEPT !.agent[a].stopped = TRUE], a, ok /\ ad.on)
AdTimer ==
  \E a \in AdAgents :
    /\ ad.agent[a].timer
    /\ ad' = StopLowEnergyScan([ad EXCEPT !.agent[a].timer = FALSE], a)
AdEvent ==
  /\ ad.events # <<>>
  /\ \E startOk \in Outcomes("startFails"), scanOk \in Outcomes("scanFails") :
       LET e == Head(ad.events)
           g == ad.agent[e.agent]
           mine == g.scan = "sdp" => g.disc = e.number
       IN ad' = SdpDiscoveryFinished([ad EXCEPT !.events = Tail(@),
                                                !.early = @ \/ ~mine],
                                     e.agent, startOk, scanOk)

\* The adapter: a discovery ends, a broadcast reaches every receiver, the power.
AdDiscoveryEnds ==
  /\ ad.discovering
  /\ ad' = [ad EXCEPT !.discovering = FALSE, !.broadcasts = Append(@, ad.number)]
AdBroadcast ==
  /\ ad.broadcasts # <<>>
  /\ LET heard == {a \in AdAgents : ad.agent[a].receiver}
         new == [a \in heard |-> [agent |-> a, number |-> Head(ad.broadcasts)]]
     IN ad' = [ad EXCEPT !.broadcasts = Tail(@),
                         !.events = @ \o [i \in 1..Len(SetToSeq(heard)) |->
                                            new[SetToSeq(heard)[i]]]]
AdPowerOff ==
  /\ AdMay("powerOff") /\ ad.on
  /\ ad' = [ad EXCEPT !.on = FALSE, !.discovering = FALSE,
                      !.broadcasts = IF ad.discovering THEN Append(@, ad.number) ELSE @]

AdNext ==
  \/ AdStart \/ AdStop \/ AdTimer \/ AdEvent \/ AdDiscoveryEnds \/ AdBroadcast
  \/ AdPowerOff

\* Discoveries end by themselves, broadcasts arrive, timers fire.
AdFairness ==
  WF_ad(AdTimer) /\ WF_ad(AdEvent) /\ WF_ad(AdDiscoveryEnds) /\ WF_ad(AdBroadcast)
AdSpec == AdInit /\ [][AdNext]_ad /\ AdFairness

--------------------------------------------------------------------------------
\* A record of the right shape; only a scan has a timer, only a classic discovery
\* waits for its cancellation.
AdTypeOK ==
  \A a \in AdAgents :
    LET g == ad.agent[a]
    IN /\ g.scan \in {"none", "sdp", "le"} /\ g.methods \subseteq {"classic", "le"}
       /\ g.told \in {"nothing", "finished", "canceled", "error"}
       /\ (g.timer => g.scan = "le")
       /\ (g.cancel => g.scan = "sdp") /\ (g.start => g.cancel)

\* The agents share the broadcasts of the adapter: each takes for the end of its
\* classic search only that of the discovery it takes part in.
AdOwnFinish == ~ad.early

\* An agent is in its classic phase only as long as the adapter discovers or the
\* end of that discovery is on its way to it.
AdPhaseIsReal ==
  \A a \in AdAgents :
    ad.agent[a].scan = "sdp" =>
      \/ ad.discovering
      \/ ad.broadcasts # <<>>
      \/ \E i \in DOMAIN ad.events : ad.events[i].agent = a

\* A search ends with one of finished(), canceled() and errorOccurred(), or gives
\* way to the one that is started while it is being cancelled.
AdOneEnd ==
  \A a \in AdAgents :
    LET g == ad.agent[a]
    IN g.starts = g.ends + (IF g.scan # "none" THEN 1 ELSE 0)

\* A search that was stopped is not reported as finished.
AdStopCancels ==
  \A a \in AdAgents :
    ad.agent[a].stopped /\ ad.agent[a].scan = "none" => ad.agent[a].told # "finished"

\* Every search ends.
AdSettles == \A a \in AdAgents : []<>~IsActive(ad.agent[a])

=============================================================================
