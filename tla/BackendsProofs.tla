---------------------------- MODULE BackendsProofs ----------------------------
(***************************************************************************)
(* Proofs about the back ends of BackendsMC: the servers hear on their own *)
(* descriptor, thread or port; the sockets of BlueZ let go of what         *)
(* belonged to a connection before they are unconnected again; what the    *)
(* programs on one adapter share, its discovery mode and what they are     *)
(* told of it, stays right; and what was advertised to an agent on Windows *)
(* is told.                                                                *)
(*                                                                         *)
(* A behaviour is one of one back end, and the others keep their state:    *)
(* what the actions of a back end preserve holds in all of them.           *)
(***************************************************************************)
EXTENDS BackendsMC, FiniteSetTheorems, SequenceCounts, TLAPS

(***************************************************************************)
(* What the programs on the servers may do.  A server whose security       *)
(* setSecurityFlags() could not raise is not asked to listen again: its    *)
(* notifier watches the descriptor that was closed (bluez).  A service is  *)
(* not registered again for a server that peers connect to (Android), a    *)
(* server is closed before it listens again, and after its service was     *)
(* unregistered (Apple).                                                   *)
(***************************************************************************)
RefusedOnce ==
  \A s \in BvScenarios : "securityFails" \in s.may => s.listens <= 1
NobodyAfterReregistering ==
  \A s \in AvScenarios : "reregister" \in s.may => s.peers = 0
ServersInTurn ==
  /\ Nobody \notin DvServers
  /\ \A s \in DvScenarios : {"relisten", "lateUnregister"} \cap s.may = {}

-------------------------------------------------------------------------------
(* BluezServer: the notifier is made once for every descriptor that listens, *)
(* and deleted before the descriptor is closed.                              *)

BvFields ==
  {"scenario", "state", "sock", "open", "notifier", "backlog", "peers", "taken",
   "listens", "announced"}
BvShape(r) ==
  /\ DOMAIN r = BvFields /\ r.scenario \in BvScenarios
  /\ r.state \in {"Unconnected", "Listening"}
  /\ DOMAIN r.notifier = {"on", "sock"}
  /\ r.notifier.sock \in Nat /\ r.sock \in Nat /\ r.sock # 0
  /\ r.backlog \in Nat /\ r.peers \in Nat /\ r.taken \in Nat /\ r.listens \in Nat

\* Without a connection a notifier is left only when the security could not be
\* raised; then listen() has been called as often as it will be.
BvInv ==
  /\ BvShape(bv)
  /\ bv.state = "Listening" =>
       bv.open /\ bv.notifier.sock = bv.sock /\ bv.listens > 0
  /\ bv.state = "Unconnected" /\ bv.notifier.sock # 0 =>
       bv.listens >= bv.scenario.listens
  /\ BvSilenceAnnounced

LEMMA BvInitInv == BvInit => BvInv
BY BvAssumption DEF BvInit, BvInv, BvShape, BvFields, NoNotifier, BvSilenceAnnounced,
   HasPendingConnections

LEMMA BvNextInv ==
  ASSUME RefusedOnce, BvInv, [BvNext]_bv
  PROVE  BvInv'
<1>0. /\ BvShape(bv)
      /\ bv.scenario.listens \in Nat
  BY BvAssumption DEF BvInv, BvShape
<1> USE DEF BvShape, BvFields, BvSilenceAnnounced, HasPendingConnections
<1>1. CASE BvListen
  <2>1. PICK result : bv' = Listen([bv EXCEPT !.listens = @ + 1], result)
    BY <1>1 DEF BvListen
  <2>2. bv.state = "Unconnected" /\ bv.listens < bv.scenario.listens
    BY <1>1 DEF BvListen
  <2>3. bv.notifier.sock = 0
    BY <1>0, <2>2 DEF BvInv
  <2> DEFINE r == [bv EXCEPT !.listens = @ + 1]
             o == Recreated(r)
  <2>4. /\ BvShape(r) /\ r.listens > 0 /\ r.notifier = bv.notifier
        /\ r.state = "Unconnected" /\ r.scenario = bv.scenario
    BY <1>0, <2>2
  <2>5. /\ BvShape(o) /\ o.listens > 0 /\ o.notifier = bv.notifier
        /\ o.state = "Unconnected" /\ o.open
    <3> HIDE DEF r
    <3> QED  BY <2>4 DEF Recreated
  <2>6. bv' = IF result = "error" THEN o
              ELSE [o EXCEPT !.state = "Listening",
                             !.notifier = IF o.notifier.sock = 0
                                          THEN [on |-> TRUE, sock |-> o.sock]
                                          ELSE o.notifier]
    BY <2>1 DEF Listen
  <2> HIDE DEF o
  <2>7. CASE result = "error"
    BY <2>3, <2>5, <2>6, <2>7 DEF BvInv
  <2>8. CASE result # "error"
    BY <2>3, <2>5, <2>6, <2>8 DEF BvInv
  <2> QED
    BY <2>7, <2>8
<1>2. CASE BvClose
  <2>1. bv.state = "Listening" /\ bv' = ServerClose(bv)
    BY <1>2 DEF BvClose
  <2>2. bv' = [bv EXCEPT !.notifier = NoNotifier, !.announced = FALSE,
                         !.state = "Unconnected", !.open = FALSE, !.backlog = 0]
    BY <1>0, <2>1 DEF ServerClose, CloseSocket
  <2> QED
    BY <1>0, <2>2 DEF BvInv, NoNotifier
<1>3. CASE BvSetSecurity
  <2>1. bv.state = "Listening" /\ bv.scenario.listens <= 1
    BY <1>0, <1>3 DEF BvSetSecurity, BvMay, RefusedOnce
  <2>2. bv' = [bv EXCEPT !.state = "Unconnected", !.open = FALSE, !.backlog = 0]
    BY <1>3, <2>1 DEF BvSetSecurity, SetSecurityFails, CloseSocket
  <2>3. bv.listens >= bv.scenario.listens
    BY <1>0, <2>1 DEF BvInv
  <2> QED
    BY <1>0, <2>2, <2>3 DEF BvInv
<1>4. CASE BvNotified
  BY <1>0, <1>4 DEF BvInv, BvNotified, NewConnection
<1>5. CASE BvTake
  <2>1. bv' = NextPendingConnection(bv)
    BY <1>5 DEF BvTake
  <2> DEFINE e == [bv EXCEPT !.notifier.on = TRUE, !.announced = FALSE]
  <2>2. /\ BvShape(e) /\ e.notifier.on /\ e.notifier.sock = bv.notifier.sock
        /\ e.state = bv.state /\ e.open = bv.open /\ e.sock = bv.sock
        /\ e.listens = bv.listens /\ e.scenario = bv.scenario /\ e.backlog = bv.backlog
    BY <1>0
  <2>3. bv' = IF bv.backlog = 0 THEN e
              ELSE [e EXCEPT !.backlog = @ - 1, !.taken = @ + 1]
    BY <2>1 DEF NextPendingConnection
  <2> HIDE DEF e
  <2>4. CASE bv.backlog = 0
    BY <2>2, <2>3, <2>4 DEF BvInv
  <2>5. CASE bv.backlog # 0
    BY <2>2, <2>3, <2>5 DEF BvInv
  <2> QED
    BY <2>4, <2>5
<1>6. CASE BvPeer
  BY <1>0, <1>6 DEF BvInv, BvPeer
<1>7. CASE BvPeerGone
  BY <1>0, <1>7 DEF BvInv, BvPeerGone
<1>8. CASE UNCHANGED bv
  BY <1>8 DEF BvInv
<1> QED
  BY <1>1, <1>2, <1>3, <1>4, <1>5, <1>6, <1>7, <1>8 DEF BvNext

-------------------------------------------------------------------------------
(* AndroidServer: an accepting thread is the last one, of a server that      *)
(* listens and whose slots hear it.                                          *)

AvFields ==
  {"scenario", "listening", "registered", "linked", "threads", "pending", "peers",
   "told", "failed"}
AvShape(r) ==
  /\ DOMAIN r = AvFields /\ r.scenario \in AvScenarios
  /\ r.threads \in Seq({"starting", "accepting", "closing", "dead"})
  /\ r.pending \in Nat /\ r.peers \in Nat

\* Only the last thread lives; while it may still accept, the server listens, and
\* hears it, unless it was registered again.
LastLives(r) == \A i \in 1..Len(r.threads) : i # Len(r.threads) => r.threads[i] = "dead"
Stopped(r) == \A i \in 1..Len(r.threads) : r.threads[i] \in {"closing", "dead"}
Heard(r) == r.listening /\ (r.linked \/ "reregister" \in r.scenario.may)
ThreadsOwned(r) == LastLives(r) /\ (Stopped(r) \/ Heard(r))
QueueTold(r) ==
  /\ "reregister" \in r.scenario.may => r.pending = 0
  /\ r.pending > 0 => r.told
AvGood(r) == AvShape(r) /\ ThreadsOwned(r) /\ QueueTold(r)

LEMMA AvInitInv == AvInit => AvGood(av)
BY DEF AvInit, AvGood, AvShape, AvFields, ThreadsOwned, LastLives, Stopped, QueueTold

LEMMA StopAcceptingStops ==
  ASSUME NEW r, AvShape(r), LastLives(r)
  PROVE  /\ AvShape(StopAccepting(r)) /\ LastLives(StopAccepting(r))
         /\ Stopped(StopAccepting(r))
         /\ StopAccepting(r).pending = r.pending /\ StopAccepting(r).told = r.told
         /\ StopAccepting(r).scenario = r.scenario
         /\ StopAccepting(r).peers = r.peers
<1> DEFINE n == Len(r.threads)
           s == [r EXCEPT !.threads = [r.threads EXCEPT ![n] = "closing"]]
<1>1. /\ n \in Nat /\ DOMAIN r.threads = 1..n
      /\ r.threads \in Seq({"starting", "accepting", "closing", "dead"})
      /\ \A i \in 1..n : r.threads[i] \in {"starting", "accepting", "closing", "dead"}
  BY DEF AvShape
<1>2. CASE StopAccepting(r) = r
  <2>1. n = 0 \/ r.threads[n] \in {"closing", "dead"}
    BY <1>1, <1>2 DEF StopAccepting, IsRunning, AvShape, AvFields
  <2> QED
    BY <1>1, <1>2, <2>1 DEF LastLives, Stopped
<1>3. CASE StopAccepting(r) # r
  <2>1. n > 0 /\ StopAccepting(r) = s
    BY <1>1, <1>3 DEF StopAccepting, IsRunning
  <2> DEFINE t == [r.threads EXCEPT ![n] = "closing"]
  <2>2. /\ t \in Seq({"starting", "accepting", "closing", "dead"})
        /\ Len(t) = n /\ t[n] = "closing" /\ \A i \in 1..n : i # n => t[i] = r.threads[i]
    BY <1>1, <2>1
  <2>3. /\ s.threads = t /\ s.scenario = r.scenario /\ s.pending = r.pending
        /\ s.told = r.told /\ s.peers = r.peers /\ DOMAIN s = DOMAIN r
    BY DEF AvShape, AvFields
  <2> HIDE DEF s, t, n
  <2>4. AvShape(s)
    BY <2>2, <2>3 DEF AvShape
  <2>5. Stopped(s) /\ LastLives(s)
    BY <2>2, <2>3 DEF LastLives, Stopped, n
  <2> QED
    BY <2>1, <2>3, <2>4, <2>5
<1> QED
  BY <1>2, <1>3

\* A thread that starts is the last; it is heard if the server listens.
LEMMA RegisterServiceStarts ==
  ASSUME NEW r, AvShape(r), LastLives(r), Heard(r)
  PROVE  /\ AvShape(RegisterService(r)) /\ LastLives(RegisterService(r))
         /\ Heard(RegisterService(r))
         /\ RegisterService(r).pending = r.pending /\ RegisterService(r).told = r.told
         /\ RegisterService(r).scenario = r.scenario
<1> DEFINE Kinds == {"starting", "accepting", "closing", "dead"}
           n == Len(r.threads)
           a == Append(r.threads, "starting")
           s == [r EXCEPT !.threads = a, !.failed = FALSE]
           t == IF IsRunning(r) THEN r ELSE s
<1>1. /\ n \in Nat /\ DOMAIN r.threads = 1..n /\ r.threads \in Seq(Kinds)
  BY DEF AvShape
<1>2. /\ a \in Seq(Kinds) /\ Len(a) = n + 1 /\ \A i \in 1..n : a[i] = r.threads[i]
  BY <1>1
<1>3. ~IsRunning(r) => n = 0 \/ r.threads[n] = "dead"
  BY <1>1 DEF IsRunning
<1>4. /\ s.threads = a /\ s.scenario = r.scenario /\ s.pending = r.pending
      /\ s.told = r.told /\ s.peers = r.peers /\ DOMAIN s = DOMAIN r
      /\ s.listening = r.listening /\ s.linked = r.linked
  BY DEF AvShape, AvFields
<1> HIDE DEF a, s
<1>5. AvShape(s) /\ Heard(s)
  BY <1>2, <1>4 DEF AvShape, Heard
<1>6. ~IsRunning(r) => LastLives(s)
  BY <1>1, <1>2, <1>3, <1>4 DEF LastLives
<1>7. /\ AvShape(t) /\ LastLives(t) /\ Heard(t) /\ t.pending = r.pending
      /\ t.told = r.told /\ t.scenario = r.scenario
  BY <1>4, <1>5, <1>6
<1>8. RegisterService(r) = [t EXCEPT !.registered = TRUE]
  BY DEF RegisterService, InitiateActiveListening, s, a
<1> HIDE DEF t
<1> QED
  BY <1>7, <1>8 DEF AvShape, AvFields, LastLives, Heard

LEMMA AvNextInv ==
  ASSUME NobodyAfterReregistering, AvGood(av), [AvNext]_av
  PROVE  AvGood(av)'
<1> DEFINE Kinds == {"starting", "accepting", "closing", "dead"}
           n == Len(av.threads)
<1>0. /\ AvShape(av) /\ LastLives(av) /\ QueueTold(av)
      /\ Stopped(av) \/ Heard(av)
      /\ n \in Nat /\ DOMAIN av.threads = 1..n /\ av.threads \in Seq(Kinds)
  BY DEF AvGood, AvShape, ThreadsOwned
<1>1. CASE AvListen
  <2> DEFINE r == ServerListen(av)
  <2>1. AvShape(r) /\ LastLives(r) /\ Heard(r)
    BY <1>0 DEF ServerListen, AvShape, AvFields, LastLives, Heard
  <2>2. r.scenario = av.scenario /\ r.pending = av.pending /\ r.told = av.told
    BY <1>0 DEF ServerListen, AvShape, AvFields
  <2>3. av' = RegisterService(r)
    BY <1>1 DEF AvListen
  <2> HIDE DEF r
  <2>4. /\ AvShape(av') /\ LastLives(av') /\ Heard(av') /\ av'.pending = av.pending
        /\ av'.told = av.told /\ av'.scenario = av.scenario
    BY <2>1, <2>2, <2>3, RegisterServiceStarts
  <2> QED
    BY <1>0, <2>4 DEF AvGood, ThreadsOwned, QueueTold
<1>2. CASE AvReregister
  <2>1. Heard(av)
    BY <1>2 DEF AvReregister, AvMay, Heard
  <2>2. /\ AvShape(av') /\ LastLives(av') /\ Heard(av') /\ av'.pending = av.pending
        /\ av'.told = av.told /\ av'.scenario = av.scenario
    BY <1>0, <1>2, <2>1, RegisterServiceStarts DEF AvReregister
  <2> QED
    BY <1>0, <2>2 DEF AvGood, ThreadsOwned, QueueTold
<1>3. CASE AvUnregister
  <2> DEFINE r == [av EXCEPT !.linked = FALSE]
             s == StopAccepting(r)
  <2>1. AvShape(r) /\ LastLives(r) /\ r.scenario = av.scenario
           /\ r.pending = av.pending /\ r.told = av.told
    BY <1>0 DEF AvShape, AvFields, LastLives
  <2>2. /\ AvShape(s) /\ LastLives(s) /\ Stopped(s) /\ s.pending = av.pending
        /\ s.told = av.told /\ s.scenario = av.scenario
    <3> HIDE DEF r
    <3> QED  BY <2>1, StopAcceptingStops
  <2>3. av' = [s EXCEPT !.registered = FALSE]
    BY <1>3 DEF AvUnregister, UnregisterService, Silence
  <2> HIDE DEF s
  <2>4. /\ AvShape(av') /\ LastLives(av') /\ Stopped(av') /\ av'.pending = av.pending
        /\ av'.told = av.told /\ av'.scenario = av.scenario
    BY <2>2, <2>3 DEF AvShape, AvFields, LastLives, Stopped
  <2> QED
    BY <1>0, <2>4 DEF AvGood, ThreadsOwned, QueueTold
<1>4. CASE AvClose
  <2> DEFINE c == [av EXCEPT !.listening = FALSE]
             r == [c EXCEPT !.linked = FALSE]
             s == StopAccepting(r)
             t == IF IsRunning(av) THEN s ELSE c
  <2>1. /\ AvShape(c) /\ LastLives(c) /\ c.scenario = av.scenario
        /\ c.pending = av.pending /\ c.told = av.told /\ c.threads = av.threads
    BY <1>0 DEF AvShape, AvFields, LastLives
  <2>2. AvShape(r) /\ LastLives(r) /\ r.scenario = av.scenario
           /\ r.pending = av.pending /\ r.told = av.told
    <3> HIDE DEF c
    <3> QED  BY <2>1 DEF AvShape, AvFields, LastLives
  <2>3. /\ AvShape(s) /\ LastLives(s) /\ Stopped(s) /\ s.pending = av.pending
        /\ s.told = av.told /\ s.scenario = av.scenario
    <3> HIDE DEF r
    <3> QED  BY <2>2, StopAcceptingStops
  <2>4. ~IsRunning(av) => Stopped(c)
    <3>1. ~IsRunning(av) => n = 0 \/ av.threads[n] = "dead"
      BY <1>0 DEF IsRunning
    <3> HIDE DEF c
    <3> QED  BY <1>0, <2>1, <3>1 DEF Stopped, LastLives
  <2>5. /\ AvShape(t) /\ LastLives(t) /\ Stopped(t) /\ t.pending = av.pending
        /\ t.told = av.told /\ t.scenario = av.scenario
    <3> HIDE DEF c, s
    <3> QED  BY <2>1, <2>3, <2>4
  <2>6. av' = [t EXCEPT !.registered = FALSE]
    BY <1>4 DEF AvClose, AvServerClose, Silence
  <2> HIDE DEF t
  <2>7. /\ AvShape(av') /\ LastLives(av') /\ Stopped(av') /\ av'.pending = av.pending
        /\ av'.told = av.told /\ av'.scenario = av.scenario
    BY <2>5, <2>6 DEF AvShape, AvFields, LastLives, Stopped
  <2> QED
    BY <1>0, <2>7 DEF AvGood, ThreadsOwned, QueueTold
<1>5. CASE AvTake
  <2>1. av.pending > 0 /\ av.told
           /\ av' = [av EXCEPT !.pending = @ - 1, !.told = av.pending > 1]
    BY <1>5 DEF AvTake
  <2>2. /\ AvShape(av') /\ LastLives(av') /\ av'.scenario = av.scenario
        /\ Stopped(av') \/ Heard(av')
    BY <1>0, <2>1 DEF AvShape, AvFields, LastLives, Stopped, Heard
  <2>3. QueueTold(av')
    <3>1. /\ av'.scenario = av.scenario /\ av'.pending = av.pending - 1
          /\ av'.told = (av.pending > 1)
      BY <1>0, <2>1 DEF AvShape, AvFields
    <3>2. av'.pending > 0 => av.pending > 1
      BY <1>0, <3>1 DEF AvShape
    <3>3. av'.pending > 0 => av'.told
      BY <3>1, <3>2, Zenon
    <3>4. "reregister" \notin av'.scenario.may
      BY <1>0, <2>1, <3>1 DEF QueueTold, AvShape
    <3> QED
      BY <3>3, <3>4 DEF QueueTold
  <2> QED
    BY <2>2, <2>3 DEF AvGood, ThreadsOwned
<1>6. CASE AvJava
  <2>1. PICK i \in DOMAIN av.threads :
          \/ av.threads[i] = "starting" /\ av' = [av EXCEPT !.threads[i] = "accepting"]
          \/ av.threads[i] \in {"starting", "closing"} /\ av' = JavaThreadError(av, i)
    BY <1>6 DEF AvJava
  <2>2. PICK k \in {"accepting", "dead"} :
          /\ av.threads[i] = "starting" \/ (k = "dead" /\ av.threads[i] = "closing")
          /\ av'.threads = [av.threads EXCEPT ![i] = k]
          /\ DOMAIN av' = AvFields
          /\ av'.scenario = av.scenario /\ av'.pending = av.pending /\ av'.told = av.told
          /\ av'.peers = av.peers
          /\ av'.listening = av.listening /\ av'.linked = av.linked
    <3>1. CASE av.threads[i] = "starting" /\ av' = [av EXCEPT !.threads[i] = "accepting"]
      <4>1. /\ av'.threads = [av.threads EXCEPT ![i] = "accepting"] /\ DOMAIN av' = AvFields
            /\ av'.scenario = av.scenario /\ av'.pending = av.pending
            /\ av'.told = av.told /\ av'.peers = av.peers
            /\ av'.listening = av.listening /\ av'.linked = av.linked
        BY <1>0, <3>1 DEF AvShape, AvFields
      <4> QED
        BY <3>1, <4>1
    <3>2. CASE /\ av.threads[i] \in {"starting", "closing"}
               /\ av' = [av EXCEPT !.threads[i] = "dead", !.failed = @ \/ av.linked]
      <4>1. /\ av'.threads = [av.threads EXCEPT ![i] = "dead"] /\ DOMAIN av' = AvFields
            /\ av'.scenario = av.scenario /\ av'.pending = av.pending
            /\ av'.told = av.told /\ av'.peers = av.peers
            /\ av'.listening = av.listening /\ av'.linked = av.linked
        BY <1>0, <3>2 DEF AvShape, AvFields
      <4> QED
        BY <3>2, <4>1
    <3> QED
      BY <2>1, <3>1, <3>2 DEF JavaThreadError
  <2> DEFINE t == [av.threads EXCEPT ![i] = k]
  <2>3. t \in Seq(Kinds) /\ Len(t) = n /\ t[i] = k /\ \A j \in 1..n : j # i => t[j] = av.threads[j]
    BY <1>0
  <2> HIDE DEF t
  <2>4. av'.threads = t
    BY <2>2 DEF t
  <2>5. i = n
    BY <1>0, <2>2 DEF LastLives
  <2>6. AvShape(av') /\ QueueTold(av')
    BY <1>0, <2>2, <2>3, <2>4 DEF AvShape, QueueTold
  <2>7. LastLives(av')
    BY <1>0, <2>3, <2>4, <2>5 DEF LastLives
  <2>8. Stopped(av') \/ Heard(av')
    <3>1. CASE Heard(av)
      BY <2>2, <3>1 DEF Heard
    <3>2. CASE Stopped(av)
      BY <1>0, <2>2, <2>3, <2>4, <2>5, <3>2 DEF Stopped
    <3> QED
      BY <1>0, <3>1, <3>2
  <2> QED
    BY <2>6, <2>7, <2>8 DEF AvGood, ThreadsOwned
<1>7. CASE AvPeer
  <2> DEFINE r == [av EXCEPT !.peers = @ + 1]
  <2>1. PICK i \in DOMAIN av.threads :
          av.threads[i] = "accepting" /\ av' = JavaNewSocket(r)
    BY <1>7 DEF AvPeer
  <2>2. Heard(av)
    BY <1>0, <2>1 DEF Stopped
  <2>3. av.peers < av.scenario.peers /\ av.scenario.peers \in Nat
    BY <1>0, <1>7, AvAssumption DEF AvPeer, AvShape
  <2>4. "reregister" \notin av.scenario.may /\ av.linked
    BY <1>0, <2>2, <2>3 DEF NobodyAfterReregistering, AvShape, Heard
  <2>5. /\ AvShape(r) /\ r.threads = av.threads /\ r.scenario = av.scenario
        /\ r.listening = av.listening /\ r.linked = av.linked
        /\ r.pending = av.pending /\ r.told = av.told
    BY <1>0 DEF AvShape, AvFields
  <2> HIDE DEF r
  <2>6. CASE r.pending < r.scenario.maxPending
    <3>1. av' = [r EXCEPT !.pending = @ + 1, !.told = @ \/ r.linked]
      BY <2>1, <2>6 DEF JavaNewSocket
    <3>2. /\ AvShape(av') /\ av'.threads = av.threads /\ av'.scenario = av.scenario
          /\ av'.listening = av.listening /\ av'.linked = av.linked
      BY <2>5, <3>1 DEF AvShape, AvFields
    <3>3. av'.told
      BY <2>4, <2>5, <3>1 DEF AvShape, AvFields
    <3> QED
      BY <1>0, <2>2, <2>4, <3>2, <3>3 DEF AvGood, ThreadsOwned, LastLives, Heard, QueueTold
  <2>7. CASE ~(r.pending < r.scenario.maxPending)
    <3>1. av' = r
      BY <2>1, <2>7 DEF JavaNewSocket
    <3> QED
      BY <1>0, <2>2, <2>5, <3>1 DEF AvGood, ThreadsOwned, LastLives, Heard, QueueTold
  <2> QED
    BY <2>6, <2>7
<1>8. CASE UNCHANGED av
  BY <1>8 DEF AvGood, AvShape, ThreadsOwned, LastLives, Stopped, Heard, QueueTold
<1> QED
  BY <1>1, <1>2, <1>3, <1>4, <1>5, <1>6, <1>7, <1>8 DEF AvNext

\* The invariant has what is promised of the server.
LEMMA AvPromise == AvGood(av) => AvAnnounced /\ AvOneListener
BY DEF AvGood, AvShape, ThreadsOwned, LastLives, Stopped, Heard, QueueTold, AvAnnounced,
   AvOneListener
-------------------------------------------------------------------------------
(* DarwinServer: a server's port is claimed for it, and its service is       *)
(* registered for that port or not at all.                                   *)

LEMMA FindFreeChannelFinds ==
  ASSUME NEW r, Free(r) # {}
  PROVE  FindFreeChannel(r) \in Free(r)
<1>1. Free(r) \subseteq Nat
  BY DvAssumption DEF Free, Ports
<1>2. \E p \in Free(r) : \A q \in Free(r) : p <= q
  BY <1>1, LeastNumber
<1> QED
  BY <1>2 DEF FindFreeChannel

DvFields == {"scenario", "registry", "server", "listens", "peers", "errors"}
DvSound(s) ==
  /\ DOMAIN s = {"port", "listener", "service", "pending"}
  /\ s.port \in 0..DvPorts /\ s.listener \in {"none", "idle", "live"}
  /\ s.service \in 0..DvPorts /\ s.pending \in Nat
  /\ s.service \in {0, s.port}
  /\ s.listener # "none" => s.port # 0
  /\ s.listener = "live" => s.service # 0
DvGood ==
  /\ DOMAIN dv = DvFields /\ dv.scenario \in DvScenarios
  /\ DOMAIN dv.registry = Ports /\ DOMAIN dv.server = DvServers
  /\ \A v \in DvServers : DvSound(dv.server[v])
  /\ \A p \in Ports : dv.registry[p] \in DvServers \cup {Nobody}
  /\ DvRegistryAgrees

LEMMA DvInitInv == ServersInTurn /\ DvInit => DvGood
<1> SUFFICES ASSUME ServersInTurn, DvInit PROVE DvGood
  OBVIOUS
<1>1. PICK s \in DvScenarios :
        dv = [scenario |-> s, registry |-> [p \in Ports |-> Nobody],
              server |-> [v \in DvServers |-> DvServer], listens |-> 0, peers |-> 0,
              errors |-> 0]
  BY DEF DvInit
<1>2. /\ DOMAIN dv = DvFields /\ dv.scenario \in DvScenarios
      /\ dv.registry = [p \in Ports |-> Nobody]
      /\ dv.server = [v \in DvServers |-> DvServer]
  BY <1>1 DEF DvFields
<1>3. DvSound(DvServer)
  BY DvAssumption DEF DvSound, DvServer
<1>4. DvRegistryAgrees
  BY <1>2 DEF DvRegistryAgrees, DvServer, Ports, ServersInTurn
<1> QED
  BY <1>2, <1>3, <1>4 DEF DvGood

\* What a step does to the server it is about, and to the registry: it leaves the
\* port alone, gives it back, or claims a free one.
DvMoves(v) ==
  /\ DOMAIN dv' = DvFields /\ dv'.scenario = dv.scenario
  /\ DOMAIN dv'.server = DvServers /\ DOMAIN dv'.registry = Ports
  /\ \A u \in DvServers : u # v => dv'.server[u] = dv.server[u]
  /\ DvSound(dv'.server[v])
  /\ LET old == dv.server[v].port
         new == dv'.server[v].port
     IN  \/ /\ new = old /\ \A p \in Ports : dv'.registry[p] = dv.registry[p]
         \/ /\ old # 0 /\ new = 0 /\ dv'.registry[old] = Nobody
            /\ \A p \in Ports : p # old => dv'.registry[p] = dv.registry[p]
         \/ /\ old = 0 /\ new # 0
            /\ dv.registry[new] = Nobody /\ dv'.registry[new] = v
            /\ \A p \in Ports : p # new => dv'.registry[p] = dv.registry[p]

LEMMA DvMovesKeeps ==
  ASSUME ServersInTurn, DvGood, NEW v \in DvServers, DvMoves(v)
  PROVE  DvGood'
<1> DEFINE old == dv.server[v].port
           new == dv'.server[v].port
<1>0. /\ DOMAIN dv' = DvFields /\ dv'.scenario \in DvScenarios
      /\ DOMAIN dv'.registry = Ports /\ DOMAIN dv'.server = DvServers
  BY DEF DvGood, DvMoves
<1>1. \A u \in DvServers : DvSound(dv'.server[u])
  BY DEF DvGood, DvMoves
<1>2. old \in 0..DvPorts /\ new \in 0..DvPorts /\ DvPorts \in Nat
  BY <1>1, DvAssumption DEF DvGood, DvSound
<1>3. Nobody \notin DvServers
  BY DEF ServersInTurn
<1>4. \A p \in Ports : dv'.registry[p] \in DvServers \cup {Nobody}
  BY <1>2 DEF DvGood, DvMoves, Ports
<1>5. \A p \in Ports, u \in DvServers : dv'.registry[p] = u <=> dv'.server[u].port = p
  <2> SUFFICES ASSUME NEW p \in Ports, NEW u \in DvServers
               PROVE  dv'.registry[p] = u <=> dv'.server[u].port = p
    OBVIOUS
  <2>1. /\ dv.registry[p] = u <=> dv.server[u].port = p
        /\ dv.registry[p] = v <=> old = p
        /\ p # 0
    BY DvAssumption DEF DvGood, DvRegistryAgrees, Ports
  <2>2. u # v => dv'.server[u] = dv.server[u]
    BY DEF DvMoves
  <2>3. CASE new = old /\ \A q \in Ports : dv'.registry[q] = dv.registry[q]
    BY <2>1, <2>2, <2>3
  <2>4. CASE /\ old # 0 /\ new = 0 /\ dv'.registry[old] = Nobody
             /\ \A q \in Ports : q # old => dv'.registry[q] = dv.registry[q]
    BY <1>3, <2>1, <2>2, <2>4
  <2>5. CASE /\ old = 0 /\ new # 0
             /\ dv.registry[new] = Nobody /\ dv'.registry[new] = v
             /\ \A q \in Ports : q # new => dv'.registry[q] = dv.registry[q]
    BY <1>3, <2>1, <2>2, <2>5
  <2> QED
    BY <2>3, <2>4, <2>5 DEF DvMoves
<1> QED
  BY <1>0, <1>1, <1>4, <1>5 DEF DvGood, DvRegistryAgrees

\* Where the port is the server's own, the registry finds the server itself.
LEMMA FoundIsOwner ==
  ASSUME ServersInTurn, DvGood, NEW v \in DvServers, dv.server[v].port # 0
  PROVE  dv.server[v].port \in Ports /\ Found(dv, dv.server[v].port) = v
         /\ v # Nobody
BY DvAssumption DEF DvGood, DvSound, DvRegistryAgrees, Found, Ports, ServersInTurn

LEMMA DvListenMoves ==
  ASSUME ServersInTurn, DvGood, NEW v \in DvServers, DvListen(v)
  PROVE  DvMoves(v) \/ DvGood'
<1> DEFINE r == [dv EXCEPT !.listens = @ + 1]
<1>1. PICK port \in {0} \cup Ports : dv' = ListenOn(r, v, port)
  BY DEF DvListen
<1>2. /\ DOMAIN r = DvFields /\ r.scenario = dv.scenario /\ r.registry = dv.registry
      /\ r.server = dv.server
  BY DEF DvGood, DvFields
<1>3. dv.server[v].listener = "none" /\ dv.server[v].port = 0
  BY DEF DvListen, DvMay, ServersInTurn, DvGood
<1>4. PICK chosen : chosen = (IF port = 0 THEN FindFreeChannel(r) ELSE port)
  OBVIOUS
<1>5. dv' = IF chosen = 0 \/ r.registry[chosen] # Nobody THEN [r EXCEPT !.errors = 1]
            ELSE [r EXCEPT !.server[v].port = chosen, !.registry[chosen] = v,
                           !.server[v].listener = "idle"]
  BY <1>1, <1>4 DEF ListenOn
<1>6. chosen = 0 \/ chosen \in Ports
  BY <1>4, FindFreeChannelFinds DEF FindFreeChannel, Free
<1> HIDE DEF r
<1>7. CASE chosen = 0 \/ r.registry[chosen] # Nobody
  BY <1>2, <1>5, <1>7 DEF DvGood, DvFields, DvRegistryAgrees
<1>8. CASE chosen # 0 /\ r.registry[chosen] = Nobody
  <2> DEFINE s == [dv.server[v] EXCEPT !.port = chosen, !.listener = "idle"]
  <2>1. /\ dv'.server = [dv.server EXCEPT ![v] = s]
        /\ dv'.registry = [dv.registry EXCEPT ![chosen] = v]
        /\ DOMAIN dv' = DvFields /\ dv'.scenario = dv.scenario
    BY <1>2, <1>5, <1>8 DEF DvGood, DvFields
  <2>2. DvSound(dv.server[v]) /\ dv.server[v].service = 0
    BY <1>3 DEF DvGood, DvSound
  <2>3. DvSound(s) /\ s.port = chosen
    BY <1>6, <1>8, <2>2 DEF DvSound, Ports
  <2> HIDE DEF s
  <2>4. /\ dv'.server[v] = s /\ \A u \in DvServers : u # v => dv'.server[u] = dv.server[u]
        /\ DOMAIN dv'.server = DvServers
    BY <2>1 DEF DvGood
  <2>5. /\ dv'.registry[chosen] = v /\ DOMAIN dv'.registry = Ports
        /\ \A p \in Ports : p # chosen => dv'.registry[p] = dv.registry[p]
    BY <1>6, <1>8, <2>1 DEF DvGood
  <2> QED
    BY <1>2, <1>3, <1>8, <2>1, <2>3, <2>4, <2>5 DEF DvMoves
<1> QED
  BY <1>7, <1>8

LEMMA DvRegisterMoves ==
  ASSUME ServersInTurn, DvGood, NEW v \in DvServers, DvRegister(v)
  PROVE  DvMoves(v) /\ dv'.server[v].listener # "idle"
         /\ dv'.server[v].port = dv.server[v].port
<1>1. PICK ok \in BOOLEAN : dv' = RegisterDarwinService(dv, v, ok)
  BY DEF DvRegister
<1>2. PICK port : port = dv.server[v].port
  OBVIOUS
<1>3. /\ dv.server[v].listener = "idle" /\ dv.server[v].service = 0
      /\ DvSound(dv.server[v]) /\ port # 0
  BY <1>2 DEF DvRegister, DvGood, DvSound
<1>4. Found(dv, port) = v /\ v # Nobody
  BY <1>2, <1>3, FoundIsOwner
<1>5. PICK kind \in {"live", "none"} : kind = (IF ok THEN "live" ELSE "none")
  OBVIOUS
<1> DEFINE s == [dv.server[v] EXCEPT !.service = port, !.listener = kind]
<1>6. dv' = [dv EXCEPT !.server[v].service = port, !.server[v].listener = kind]
  BY <1>1, <1>2, <1>4, <1>5 DEF RegisterDarwinService
<1>7. /\ dv'.server = [dv.server EXCEPT ![v] = s] /\ dv'.registry = dv.registry
      /\ DOMAIN dv' = DvFields /\ dv'.scenario = dv.scenario
  BY <1>6 DEF DvGood, DvFields
<1>8. DvSound(s) /\ s.port = port /\ s.listener # "idle"
  BY <1>2, <1>3, <1>5 DEF DvSound
<1> HIDE DEF s
<1>9. /\ dv'.server[v] = s /\ \A u \in DvServers : u # v => dv'.server[u] = dv.server[u]
      /\ DOMAIN dv'.server = DvServers
  BY <1>7 DEF DvGood
<1> QED
  BY <1>2, <1>7, <1>8, <1>9 DEF DvMoves, DvGood

LEMMA DvUnregisterMoves ==
  ASSUME ServersInTurn, DvGood, NEW v \in DvServers, DvUnregister(v)
  PROVE  DvMoves(v) /\ dv'.server[v].service = 0
<1>1. PICK port : port = dv.server[v].port
  OBVIOUS
<1>2. DvSound(dv.server[v]) /\ port # 0 /\ dv.server[v].service = port
  BY <1>1 DEF DvUnregister, DvGood, DvSound
<1>3. Found(dv, dv.server[v].service) = v /\ v # Nobody
  BY <1>1, <1>2, FoundIsOwner
<1> DEFINE s == [dv.server[v] EXCEPT !.service = 0, !.listener = "none"]
<1>4. dv' = [dv EXCEPT !.server[v].service = 0, !.server[v].listener = "none"]
  BY <1>3 DEF DvUnregister, UnregisterDarwinService
<1>5. /\ dv'.server = [dv.server EXCEPT ![v] = s] /\ dv'.registry = dv.registry
      /\ DOMAIN dv' = DvFields /\ dv'.scenario = dv.scenario
  BY <1>4 DEF DvGood, DvFields
<1>6. DvSound(s) /\ s.port = port /\ s.service = 0
  BY <1>1, <1>2, DvAssumption DEF DvSound
<1> HIDE DEF s
<1>7. /\ dv'.server[v] = s /\ \A u \in DvServers : u # v => dv'.server[u] = dv.server[u]
      /\ DOMAIN dv'.server = DvServers
  BY <1>5 DEF DvGood
<1> QED
  BY <1>1, <1>5, <1>6, <1>7 DEF DvMoves, DvGood

LEMMA DvCloseMoves ==
  ASSUME ServersInTurn, DvGood, NEW v \in DvServers, DvClose(v)
  PROVE  DvMoves(v) /\ dv'.server[v].port = 0
<1>1. PICK port : port = dv.server[v].port
  OBVIOUS
<1>2. /\ DvSound(dv.server[v]) /\ port # 0 /\ port \in Ports
      /\ dv.server[v].service = 0
  BY <1>1, FoundIsOwner DEF DvClose, DvGood, DvMay, ServersInTurn
<1> DEFINE s == [dv.server[v] EXCEPT !.listener = "none", !.port = 0]
           stopped == [dv EXCEPT !.server[v].listener = "none"]
<1>3. /\ stopped.server[v].port = port /\ stopped.registry = dv.registry
      /\ stopped.server = [dv.server EXCEPT ![v] = [dv.server[v] EXCEPT !.listener = "none"]]
      /\ DOMAIN stopped = DvFields /\ stopped.scenario = dv.scenario
  BY <1>1, <1>2 DEF DvGood, DvFields, DvSound
<1>4. dv' = [[stopped EXCEPT !.registry[port] = Nobody] EXCEPT !.server[v].port = 0]
  <2>1. UnregisterServer(stopped, v) = [stopped EXCEPT !.registry[port] = Nobody]
    BY <1>2, <1>3 DEF UnregisterServer
  <2> QED
    BY <2>1 DEF DvClose, DvServerClose
<1> HIDE DEF stopped
<1>5. /\ dv'.server = [stopped.server EXCEPT ![v] = [stopped.server[v] EXCEPT !.port = 0]]
      /\ dv'.registry = [dv.registry EXCEPT ![port] = Nobody]
      /\ DOMAIN dv' = DvFields /\ dv'.scenario = dv.scenario
  BY <1>3, <1>4 DEF DvFields
<1>6. stopped.server[v] = [dv.server[v] EXCEPT !.listener = "none"]
  BY <1>3 DEF DvGood
<1>7. DvSound(s) /\ s.port = 0
  BY <1>2, DvAssumption DEF DvSound
<1> HIDE DEF s
<1>8. /\ dv'.server[v] = s /\ \A u \in DvServers : u # v => dv'.server[u] = dv.server[u]
      /\ DOMAIN dv'.server = DvServers
  BY <1>3, <1>5, <1>6 DEF DvGood, s
<1>9. /\ dv'.registry[port] = Nobody /\ DOMAIN dv'.registry = Ports
      /\ \A p \in Ports : p # port => dv'.registry[p] = dv.registry[p]
  BY <1>2, <1>5 DEF DvGood
<1> QED
  BY <1>1, <1>2, <1>5, <1>7, <1>8, <1>9 DEF DvMoves

\* openNotifyRFCOMM() and nextPendingConnection() change what waits, only.
LEMMA DvPendingMoves ==
  ASSUME DvGood, NEW v \in DvServers, DvPeer(v) \/ DvTake(v)
  PROVE  DvMoves(v) /\ dv'.server[v].listener = dv.server[v].listener
<1>1. DvSound(dv.server[v])
  BY DEF DvGood
<1>2. PICK k \in Nat : k = dv.server[v].pending
  BY <1>1 DEF DvSound
<1>3. PICK m \in Nat :
        dv' = [dv EXCEPT !.peers = dv'.peers, !.server[v].pending = m]
  <2>1. CASE DvPeer(v)
    <3>1. dv' = [dv EXCEPT !.peers = @ + 1, !.server[v].pending = k + 1]
      BY <1>2, <2>1 DEF DvPeer
    <3>2. dv' = [dv EXCEPT !.peers = dv'.peers, !.server[v].pending = k + 1]
      BY <3>1 DEF DvGood, DvFields
    <3>3. k + 1 \in Nat
      OBVIOUS
    <3> QED
      BY <3>2, <3>3
  <2>2. CASE DvTake(v)
    <3>1. dv' = [dv EXCEPT !.server[v].pending = k - 1] /\ k > 0
      BY <1>2, <2>2 DEF DvTake
    <3>2. dv' = [dv EXCEPT !.peers = dv'.peers, !.server[v].pending = k - 1]
      BY <3>1 DEF DvGood, DvFields
    <3>3. k - 1 \in Nat
      BY <3>1
    <3> QED
      BY <3>2, <3>3
  <2> QED
    BY <2>1, <2>2
<1> DEFINE s == [dv.server[v] EXCEPT !.pending = m]
<1>4. /\ dv'.server = [dv.server EXCEPT ![v] = s] /\ dv'.registry = dv.registry
      /\ DOMAIN dv' = DvFields /\ dv'.scenario = dv.scenario
  BY <1>3 DEF DvGood, DvFields
<1>5. /\ DvSound(s) /\ s.port = dv.server[v].port
      /\ s.listener = dv.server[v].listener
  BY <1>1 DEF DvSound
<1> HIDE DEF s
<1>6. /\ dv'.server[v] = s /\ \A u \in DvServers : u # v => dv'.server[u] = dv.server[u]
      /\ DOMAIN dv'.server = DvServers
  BY <1>4 DEF DvGood
<1> QED
  BY <1>4, <1>5, <1>6 DEF DvMoves, DvGood

LEMMA DvNextInv ==
  ASSUME ServersInTurn, DvGood, [DvNext]_dv
  PROVE  DvGood'
<1>1. CASE UNCHANGED dv
  BY <1>1 DEF DvGood, DvRegistryAgrees
<1>2. CASE DvNext
  <2>1. PICK v \in DvServers :
          DvListen(v) \/ DvRegister(v) \/ DvUnregister(v) \/ DvClose(v) \/ DvPeer(v)
            \/ DvTake(v)
    BY <1>2 DEF DvNext
  <2>2. DvMoves(v) \/ DvGood'
    BY <2>1, DvListenMoves, DvRegisterMoves, DvUnregisterMoves, DvCloseMoves,
       DvPendingMoves
  <2> QED
    BY <2>2, DvMovesKeeps
<1> QED
  BY <1>1, <1>2

-------------------------------------------------------------------------------
(* BluezSocket: what waits for a connection, and the notifiers, go with it.  *)

BsFields ==
  {"scenario", "connecting", "rn", "wn", "tx", "rx", "posted", "events", "link",
   "inbox", "sent", "peer", "nullUsed",
   "state", "agent", "told", "errors", "session", "written", "got"}

\* The two notifiers exist as long as the descriptor; bytes wait only in a socket
\* that is connected or closing, and a queued call has bytes to write, which no
\* write notifier of the batch takes before it.
BsBatches == {<<>>, <<"rn">>, <<"wn">>, <<"rn", "wn">>, <<"wn", "rn">>}
BsCore(r) ==
  /\ DOMAIN r = BsFields /\ ~r.nullUsed
  /\ r.rn = "none" <=> r.wn = "none"
  /\ r.link = "closed" <=> r.rn = "none"
  /\ r.state \in {"Connecting", "Connected", "Closing"} => r.rn # "none"
  /\ r.events # <<>> => r.rn # "none"
  /\ r.tx # <<>> => r.state \in {"Connected", "Closing"}
  /\ r.posted \in Nat /\ r.posted <= 1
  /\ r.events \in BsBatches
  /\ r.posted > 0 => r.tx # <<>> /\ r.events \in {<<>>, <<"rn">>}
BsGood(r) == BsCore(r) /\ (r.agent => r.state = "ServiceLookup")

\* The call that write() has queued runs before the notifiers go: abort() is called
\* when no bytes wait, and no slot of readyRead() writes, whose bytes the write
\* notifier of the same batch may send before the queued call.
QueuedWritesRun == \A s \in BsScenarios : s.may \cap {"abortBusy", "replyInSlot"} = {}

LEMMA BsInitInv == BsInit => BsGood(bz) /\ bz.scenario \in BsScenarios
<1> SUFFICES ASSUME BsInit
             PROVE  BsGood(bz) /\ bz.scenario \in BsScenarios
  OBVIOUS
<1>1. PICK s \in BsScenarios :
    bz = SocketBase([scenario |-> s, connecting |-> FALSE, rn |-> "none", wn |-> "none",
                     tx |-> <<>>, rx |-> <<>>, posted |-> 0, events |-> <<>>,
                     link |-> "closed", inbox |-> <<>>, sent |-> 0, peer |-> <<>>,
                     nullUsed |-> FALSE])
  BY DEF BsInit
<1> DEFINE own == [scenario |-> s, connecting |-> FALSE, rn |-> "none", wn |-> "none",
                   tx |-> <<>>, rx |-> <<>>, posted |-> 0, events |-> <<>>,
                   link |-> "closed", inbox |-> <<>>, sent |-> 0, peer |-> <<>>,
                   nullUsed |-> FALSE]
           base == [state |-> "Unconnected", agent |-> FALSE, told |-> "nothing",
                    errors |-> 0, session |-> 0, written |-> <<>>, got |-> <<>>]
<1>2. bz = [f \in DOMAIN own \cup DOMAIN base |->
              IF f \in DOMAIN own THEN own[f] ELSE base[f]]
  BY <1>1 DEF SocketBase
<1>3. /\ DOMAIN own = {"scenario", "connecting", "rn", "wn", "tx", "rx", "posted", "events",
                       "link", "inbox", "sent", "peer", "nullUsed"}
      /\ DOMAIN base = {"state", "agent", "told", "errors", "session", "written", "got"}
      /\ own["scenario"] = s /\ own["rn"] = "none" /\ own["wn"] = "none"
      /\ own["tx"] = <<>> /\ own["posted"] = 0 /\ own["events"] = <<>>
      /\ own["link"] = "closed" /\ own["nullUsed"] = FALSE
      /\ base["state"] = "Unconnected" /\ base["agent"] = FALSE
  OBVIOUS
<1> HIDE DEF own, base
<1>4. /\ DOMAIN bz = BsFields
      /\ bz.scenario = s /\ bz.rn = "none" /\ bz.wn = "none" /\ bz.tx = <<>>
      /\ bz.posted = 0 /\ bz.events = <<>> /\ bz.link = "closed"
      /\ bz.nullUsed = FALSE /\ bz.state = "Unconnected" /\ bz.agent = FALSE
  BY <1>2, <1>3 DEF BsFields
<1> QED
  BY <1>4 DEF BsGood, BsCore, BsBatches

\* setEnabled() of notifiers that exist.
LEMMA EnableGood ==
  ASSUME NEW r, BsCore(r), r.rn # "none", NEW n \in {"rn", "wn"}, NEW on \in BOOLEAN
  PROVE  /\ BsCore(Enable(r, n, on)) /\ Enable(r, n, on).rn # "none"
         /\ Enable(r, n, on).tx = r.tx /\ Enable(r, n, on).state = r.state
         /\ Enable(r, n, on).posted = r.posted /\ Enable(r, n, on).agent = r.agent
         /\ Enable(r, n, on).scenario = r.scenario
<1>1. PICK value \in {"on", "off"} : value = (IF on THEN "on" ELSE "off")
  OBVIOUS
<1>2. PICK events : events = (IF on THEN r.events
                              ELSE IF r.events = <<n>> THEN <<>> ELSE r.events)
  OBVIOUS
<1>3. r[n] # "none"
  BY DEF BsCore
<1>4. Enable(r, n, on) = [r EXCEPT ![n] = value, !.events = events]
  BY <1>1, <1>2, <1>3 DEF Enable
<1>5. events \in {<<>>, r.events}
  BY <1>2
<1>8. /\ events \in BsBatches
      /\ r.posted > 0 => events \in {<<>>, <<"rn">>}
  BY <1>5 DEF BsCore, BsBatches
<1>6. CASE n = "rn"
  BY <1>4, <1>6, <1>8 DEF BsCore, BsFields
<1>7. CASE n = "wn"
  BY <1>4, <1>7, <1>8 DEF BsCore, BsFields
<1> QED
  BY <1>6, <1>7

\* The record with another state; with another count of errors.
LEMMA SetSocketStateSets ==
  ASSUME NEW r, DOMAIN r = BsFields, NEW new
  PROVE  /\ DOMAIN SetSocketState(r, new) = BsFields
         /\ SetSocketState(r, new).state = new
         /\ \A f \in BsFields \ {"state", "told"} : SetSocketState(r, new)[f] = r[f]
BY DEF SetSocketState, BsFields
LEMMA SetSocketErrorSets ==
  ASSUME NEW r, DOMAIN r = BsFields
  PROVE  /\ DOMAIN SetSocketError(r) = BsFields
         /\ \A f \in BsFields \ {"errors"} : SetSocketError(r)[f] = r[f]
BY DEF SetSocketError, BsFields

LEMMA BackendAbortGood ==
  ASSUME NEW r, DOMAIN r = BsFields, ~r.nullUsed, r.tx = <<>>, r.posted = 0
  PROVE  /\ BsCore(BackendAbort(r)) /\ BackendAbort(r).state = "Unconnected"
         /\ BackendAbort(r).tx = <<>> /\ BackendAbort(r).agent = r.agent
         /\ BackendAbort(r).posted = 0 /\ BackendAbort(r).scenario = r.scenario
<1> DEFINE a == [r EXCEPT !.rn = "none", !.wn = "none", !.events = <<>>,
                          !.link = "closed", !.inbox = <<>>]
           b == SetSocketState(a, "Unconnected")
<1>1. /\ DOMAIN a = BsFields /\ ~a["nullUsed"] /\ a["rn"] = "none" /\ a["wn"] = "none"
      /\ a["events"] = <<>> /\ a["link"] = "closed" /\ a["tx"] = <<>>
      /\ a["posted"] = 0 /\ a["agent"] = r.agent /\ a["scenario"] = r.scenario
  BY DEF BsFields
<1> HIDE DEF a
<1>2. /\ DOMAIN b = BsFields /\ b.state = "Unconnected"
      /\ \A f \in BsFields \ {"state", "told"} : b[f] = a[f]
  BY <1>1, SetSocketStateSets
<1> HIDE DEF b
<1>3. /\ b["nullUsed"] = a["nullUsed"] /\ b["rn"] = a["rn"] /\ b["wn"] = a["wn"]
      /\ b["events"] = a["events"] /\ b["link"] = a["link"] /\ b["tx"] = a["tx"]
      /\ b["posted"] = a["posted"] /\ b["agent"] = a["agent"]
      /\ b["scenario"] = a["scenario"]
  BY <1>2 DEF BsFields
<1>4. BackendAbort(r) = b
  BY DEF BackendAbort, b, a
<1> QED
  BY <1>1, <1>2, <1>3, <1>4 DEF BsCore, BsBatches

LEMMA BsCloseGood ==
  ASSUME NEW r, BsGood(r)
  PROVE  /\ BsGood(BsClose(r)) /\ BsClose(r).tx = r.tx
         /\ BsClose(r).posted = r.posted /\ BsClose(r).scenario = r.scenario
         /\ BsClose(r).state \in {"Unconnected", "Closing"}
<1>1. CASE r.state = "Unconnected"
  BY <1>1 DEF BsClose, SocketClose
<1>2. CASE r.state # "Unconnected"
  <2> DEFINE a == [r EXCEPT !.agent = FALSE]
             c == SetSocketState(a, "Closing")
  <2>1. /\ DOMAIN a = BsFields /\ a["agent"] = FALSE
        /\ \A f \in BsFields \ {"agent"} : a[f] = r[f]
    BY DEF BsGood, BsCore, BsFields
  <2> HIDE DEF a
  <2>2. /\ DOMAIN c = BsFields /\ c.state = "Closing"
        /\ \A f \in BsFields \ {"state", "told"} : c[f] = a[f]
    BY <2>1, SetSocketStateSets
  <2> HIDE DEF c
  <2>3. /\ c["nullUsed"] = r["nullUsed"] /\ c["rn"] = r["rn"] /\ c["wn"] = r["wn"]
        /\ c["events"] = r["events"] /\ c["link"] = r["link"] /\ c["tx"] = r["tx"]
        /\ c["posted"] = r["posted"] /\ c["agent"] = FALSE
        /\ c["scenario"] = r["scenario"]
    BY <2>1, <2>2 DEF BsFields
  <2>4. BsClose(r) = BackendClose(c)
    BY <1>2 DEF BsClose, SocketClose, EnterClosing, c, a
  <2>5. CASE c.tx = <<>>
    <3>1. r.posted = 0
      BY <2>3, <2>5 DEF BsGood, BsCore
    <3>2. BsClose(r) = BackendAbort(c)
      BY <2>4, <2>5 DEF BackendClose
    <3> QED
      BY <2>2, <2>3, <2>5, <3>1, <3>2, BackendAbortGood DEF BsGood, BsCore
  <2>6. CASE c.tx # <<>>
    <3>1. r.rn # "none"
      BY <2>3, <2>6 DEF BsGood, BsCore
    <3>2. BsCore(c)
      BY <2>2, <2>3, <2>6, <3>1 DEF BsGood, BsCore
    <3>3. BsClose(r) = Enable(c, "wn", TRUE)
      BY <2>4, <2>6 DEF BackendClose
    <3> DEFINE e == Enable(c, "wn", TRUE)
    <3>4. /\ BsCore(e) /\ e.tx = c.tx /\ e.state = c.state /\ e.posted = c.posted
          /\ e.agent = c.agent /\ e.scenario = c.scenario
      BY <2>3, <3>1, <3>2, EnableGood
    <3> HIDE DEF e
    <3> QED
      BY <2>2, <2>3, <3>3, <3>4 DEF BsGood, e
  <2> QED
    BY <2>5, <2>6
<1> QED
  BY <1>1, <1>2

\* What _q_writeNotify() does after a write, in a socket whose notifiers exist as
\* long as it has bytes left.
LEMMA AfterWriteGood ==
  ASSUME NEW r, BsGood(r)
  PROVE  BsGood(AfterWrite(r)) /\ AfterWrite(r).scenario = r.scenario
<1>1. CASE r.tx # <<>>
  <2> DEFINE e == Enable(r, "wn", TRUE)
  <2>1. BsCore(r) /\ r.rn # "none" /\ ~r.agent
    BY <1>1 DEF BsGood, BsCore
  <2>2. BsCore(e) /\ e.agent = r.agent /\ e.scenario = r.scenario
    BY <2>1, EnableGood
  <2>3. AfterWrite(r) = e
    BY <1>1 DEF AfterWrite
  <2> HIDE DEF e
  <2> QED
    BY <2>1, <2>2, <2>3 DEF BsGood
<1>2. CASE r.tx = <<>> /\ r.state = "Closing"
  <2> DEFINE e == Enable(r, "wn", FALSE)
  <2>4. BsCore(r) /\ r.rn # "none" /\ r.posted = 0
    BY <1>2 DEF BsGood, BsCore
  <2>1. /\ BsCore(e) /\ e.tx = <<>> /\ e.posted = 0 /\ e.agent = r.agent
        /\ e.scenario = r.scenario
    BY <1>2, <2>4, EnableGood
  <2>2. AfterWrite(r) = BackendAbort(e)
    BY <1>2, <2>1 DEF AfterWrite, BackendClose
  <2> HIDE DEF e
  <2>3. ~r.agent
    BY <1>2 DEF BsGood
  <2> QED
    BY <2>1, <2>2, <2>3, BackendAbortGood DEF BsGood, BsCore
<1>3. CASE r.tx = <<>> /\ r.state # "Closing"
  BY <1>3 DEF AfterWrite
<1> QED
  BY <1>1, <1>2, <1>3

LEMMA EnableKeepsGood ==
  ASSUME NEW r, BsGood(r), r.rn # "none", NEW n \in {"rn", "wn"}, NEW on \in BOOLEAN
  PROVE  LET e == Enable(r, n, on)
         IN  /\ BsGood(e) /\ e.rn # "none" /\ e.tx = r.tx /\ e.posted = r.posted
             /\ e.state = r.state /\ e.agent = r.agent /\ e.scenario = r.scenario
<1> DEFINE e == Enable(r, n, on)
<1>1. /\ BsCore(e) /\ e.rn # "none" /\ e.tx = r.tx /\ e.posted = r.posted
      /\ e.state = r.state /\ e.agent = r.agent /\ e.scenario = r.scenario
  BY EnableGood DEF BsGood
<1> HIDE DEF e
<1>2. BsGood(e)
  BY <1>1 DEF BsGood
<1> QED
  BY <1>1, <1>2 DEF e

LEMMA AppendedSome ==
  ASSUME NEW s, NEW b
  PROVE  Append(s, b) # <<>>
BY Z3

LEMMA WriteDataGood ==
  ASSUME NEW r, BsGood(r), r.state = "Connected", r.events \in {<<>>, <<"rn">>}
  PROVE  BsGood(WriteData(r)) /\ WriteData(r).scenario = r.scenario
<1> DEFINE a == Enable(r, "wn", TRUE)
           e == IF r.tx = <<>> THEN [a EXCEPT !.posted = @ + 1] ELSE r
           b == NextByte(r.written)
<1>1. r.rn # "none" /\ ~r.agent
  BY DEF BsGood, BsCore
<1>2. /\ BsGood(a) /\ a.rn # "none" /\ a.tx = r.tx /\ a.posted = r.posted
      /\ a.state = "Connected" /\ a.agent = r.agent /\ a.scenario = r.scenario
  BY <1>1, EnableKeepsGood
<1>3. a.events = r.events
  BY <1>1 DEF Enable, BsGood, BsCore, BsFields
<1>4. /\ DOMAIN e = BsFields /\ ~e.nullUsed /\ e.rn # "none" /\ e.wn # "none"
      /\ e.link # "closed" /\ e.events = r.events /\ e.state = "Connected" /\ ~e.agent
      /\ e.posted \in Nat /\ e.posted <= 1 /\ e.scenario = r.scenario
  <2>1. CASE r.tx = <<>>
    <3>1. r.posted = 0
      BY <2>1 DEF BsGood, BsCore
    <3>2. e = [a EXCEPT !.posted = @ + 1]
      BY <2>1
    <3> HIDE DEF a, e
    <3> QED
      BY <1>1, <1>2, <1>3, <3>1, <3>2 DEF BsGood, BsCore, BsFields
  <2>2. CASE r.tx # <<>>
    <3>1. e = r
      BY <2>2
    <3> HIDE DEF a, e
    <3> QED
      BY <1>1, <3>1 DEF BsGood, BsCore
  <2> QED
    BY <2>1, <2>2
<1> HIDE DEF e, a
<1>5. WriteData(r) = [e EXCEPT !.tx = Append(e.tx, b), !.written = Append(e.written, b)]
  BY DEF WriteData, e, a
<1>6. Append(e.tx, b) # <<>>
  BY AppendedSome
<1> HIDE DEF b
<1> QED
  BY <1>4, <1>5, <1>6 DEF BsGood, BsCore, BsFields, BsBatches

LEMMA InSlotGood ==
  ASSUME NEW r, BsGood(r), NEW reaction,
         reaction = "write" => r.events \in {<<>>, <<"rn">>}
  PROVE  /\ BsGood(InSlot(r, reaction))
         /\ InSlot(r, reaction).scenario = r.scenario
BY BsCloseGood, WriteDataGood DEF InSlot, CanWrite

\* _q_writeNotify() with bytes to write: some of them are left, or none.
LEMMA WriteBufferGood ==
  ASSUME NEW r, BsGood(r), r.posted = 0, r.events \in {<<>>, <<"rn">>}, r.tx # <<>>,
         NEW n, NEW reaction
  PROVE  /\ BsGood(WriteBuffer(r, n, reaction))
         /\ WriteBuffer(r, n, reaction).scenario = r.scenario
<1>1. /\ r.state \in {"Connected", "Closing"} /\ r.rn # "none" /\ ~r.agent
  BY DEF BsGood, BsCore
<1>2. ASSUME NEW bytes
      PROVE  LET t == [r EXCEPT !.tx = bytes]
             IN  /\ BsGood(t) /\ t.posted = 0 /\ t.scenario = r.scenario
                 /\ t.events = r.events
  BY <1>1 DEF BsGood, BsCore, BsFields
<1>3. ASSUME NEW t, BsGood(t), t.posted = 0, t.scenario = r.scenario, NEW bytes, NEW m
      PROVE  LET s == Sent(t, bytes, m)
             IN  /\ BsGood(s) /\ s.posted = 0 /\ s.scenario = r.scenario
                 /\ s.events = t.events
  BY <1>3 DEF Sent, BsGood, BsCore, BsFields
<1>4. ASSUME NEW t, BsGood(t), t.posted = 0, t.scenario = r.scenario
      PROVE  LET s == SetSocketError(t)
             IN  BsGood(s) /\ s.posted = 0 /\ s.scenario = r.scenario
  BY <1>4 DEF SetSocketError, BsGood, BsCore, BsFields
<1> DEFINE size == IF BsChunk < Len(r.tx) THEN BsChunk ELSE Len(r.tx)
           buf == SubSeq(r.tx, 1, size)
           rest == SubSeq(r.tx, size + 1, Len(r.tx))
           kept == SubSeq(buf, n + 1, size) \o rest
<1>5. CASE n = -1
  <2> DEFINE t == [r EXCEPT !.tx = rest]
  <2>1. WriteBuffer(r, n, reaction) = AfterWrite(SetSocketError(t))
    BY <1>5 DEF WriteBuffer
  <2>2. BsGood(t) /\ t.posted = 0 /\ t.scenario = r.scenario
    BY <1>2
  <2> HIDE DEF t
  <2> QED
    BY <1>4, <2>1, <2>2, AfterWriteGood
<1>6. CASE n # -1
  <2> DEFINE t == [r EXCEPT !.tx = kept]
             w == IF n > 0 THEN reaction ELSE "none"
             s == Sent(t, buf, n)
             i == InSlot(s, w)
  <2>1. WriteBuffer(r, n, reaction) = AfterWrite(i)
    BY <1>6 DEF WriteBuffer
  <2>2. /\ BsGood(t) /\ t.posted = 0 /\ t.scenario = r.scenario
        /\ t.events = r.events
    BY <1>2
  <2> HIDE DEF t, w, buf
  <2>3. BsGood(s) /\ s.events = r.events /\ s.scenario = r.scenario
    BY <1>3, <2>2
  <2> HIDE DEF s
  <2>4. BsGood(i) /\ i.scenario = r.scenario
    BY <2>3, InSlotGood
  <2> HIDE DEF i
  <2> QED
    BY <2>1, <2>4, AfterWriteGood
<1> QED
  BY <1>5, <1>6

\* Fields the invariant does not speak of, and the count of errors.
LEMMA OtherFieldsGood ==
  ASSUME NEW r, BsGood(r), NEW s, DOMAIN s = DOMAIN r,
         \A f \in BsFields \ {"errors", "rx", "inbox", "peer", "sent", "got", "written",
                              "connecting", "session", "told"} : s[f] = r[f]
  PROVE  /\ BsGood(s) /\ s.tx = r.tx /\ s.posted = r.posted /\ s.state = r.state
         /\ s.rn = r.rn /\ s.agent = r.agent /\ s.scenario = r.scenario
         /\ s.link = r.link
<1>1. /\ s["nullUsed"] = r["nullUsed"] /\ s["rn"] = r["rn"] /\ s["wn"] = r["wn"]
      /\ s["events"] = r["events"] /\ s["link"] = r["link"] /\ s["tx"] = r["tx"]
      /\ s["posted"] = r["posted"] /\ s["agent"] = r["agent"] /\ s["state"] = r["state"]
      /\ s["scenario"] = r["scenario"]
  BY DEF BsFields
<1> QED
  BY <1>1 DEF BsGood, BsCore

LEMMA ErrorGood ==
  ASSUME NEW r, BsGood(r)
  PROVE  LET s == SetSocketError(r)
         IN  /\ BsGood(s) /\ s.tx = r.tx /\ s.posted = r.posted /\ s.state = r.state
             /\ s.rn = r.rn /\ s.agent = r.agent /\ s.scenario = r.scenario
             /\ s.link = r.link
<1>1. DOMAIN SetSocketError(r) = DOMAIN r
      /\ \A f \in BsFields \ {"errors"} : SetSocketError(r)[f] = r[f]
  BY SetSocketErrorSets DEF BsGood, BsCore
<1> HIDE DEF SetSocketError
<1> QED
  BY <1>1, OtherFieldsGood

LEMMA FinishConnectGood ==
  ASSUME NEW r, BsGood(r), r.posted = 0, r.state = "Connecting"
  PROVE  BsGood(FinishConnect(r)) /\ FinishConnect(r).scenario = r.scenario
<1>1. r.rn # "none" /\ r.tx = <<>> /\ ~r.agent
  BY DEF BsGood, BsCore
<1>2. CASE r.link = "refused"
  <2> DEFINE s == [r EXCEPT !.link = "failed"]
  <2>1. BsGood(s) /\ s.scenario = r.scenario
    BY <1>1 DEF BsGood, BsCore, BsFields
  <2> HIDE DEF s
  <2>2. FinishConnect(r) = SetSocketError(s)
    BY <1>2 DEF FinishConnect, s
  <2> QED
    BY <2>1, <2>2, ErrorGood
<1>3. CASE r.link # "refused"
  <2> DEFINE s == SetSocketState(r, "Connected")
             e == Enable(s, "wn", FALSE)
             t == [e EXCEPT !.connecting = FALSE]
  <2>1. /\ DOMAIN s = BsFields /\ s.state = "Connected"
        /\ \A f \in BsFields \ {"state", "told"} : s[f] = r[f]
    BY SetSocketStateSets DEF BsGood, BsCore
  <2>2. /\ s["nullUsed"] = r["nullUsed"] /\ s["rn"] = r["rn"] /\ s["wn"] = r["wn"]
        /\ s["events"] = r["events"] /\ s["link"] = r["link"] /\ s["tx"] = r["tx"]
        /\ s["posted"] = r["posted"] /\ s["agent"] = r["agent"]
        /\ s["scenario"] = r["scenario"]
    BY <2>1 DEF BsFields
  <2> HIDE DEF s
  <2>3. BsGood(s) /\ s.rn # "none" /\ s.posted = 0 /\ s.scenario = r.scenario
    BY <1>1, <2>1, <2>2 DEF BsGood, BsCore
  <2>4. BsGood(e) /\ e.scenario = r.scenario
    BY <2>3, EnableKeepsGood
  <2> HIDE DEF e
  <2>5. /\ DOMAIN t = DOMAIN e /\ \A f \in BsFields \ {"connecting"} : t[f] = e[f]
    BY <2>4 DEF BsGood, BsCore, BsFields
  <2> HIDE DEF t
  <2>6. BsGood(t) /\ t.scenario = r.scenario
    BY <2>4, <2>5, OtherFieldsGood
  <2> QED
    BY <1>3, <2>6 DEF FinishConnect, s, e, t
<1> QED
  BY <1>2, <1>3

LEMMA WriteNotifyGood ==
  ASSUME NEW r, BsGood(r), r.posted = 0, r.rn # "none", r.events \in {<<>>, <<"rn">>},
         NEW reactions, NEW q \in WriteNotify(r, reactions)
  PROVE  BsGood(q) /\ q.scenario = r.scenario
<1>1. CASE r.connecting /\ r.state = "Connecting"
  BY <1>1, FinishConnectGood DEF WriteNotify
<1>2. CASE ~(r.connecting /\ r.state = "Connecting") /\ r.tx = <<>>
  <2>1. q = Enable(r, "wn", FALSE)
    <3>1. CASE r.state # "Connecting"
      BY <1>2, <3>1 DEF WriteNotify
    <3>2. CASE ~r.connecting
      BY <1>2, <3>2 DEF WriteNotify
    <3> QED
      BY <1>2, <3>1, <3>2
  <2> QED
    BY <2>1, EnableKeepsGood
<1>3. CASE ~(r.connecting /\ r.state = "Connecting") /\ r.tx # <<>>
  <2>1. \E n, w : q = WriteBuffer(r, n, w)
    BY <1>3 DEF WriteNotify
  <2>2. PICK n, w : q = WriteBuffer(r, n, w)
    BY <2>1
  <2> QED
    BY <1>3, <2>2, WriteBufferGood
<1> QED
  BY <1>1, <1>2, <1>3

\* ::read() of n bytes.
ReadPart(r, n) == [r EXCEPT !.rx = @ \o SubSeq(r.inbox, 1, n),
                            !.inbox = SubSeq(@, n + 1, Len(@))]

LEMMA ReadNotifyReads ==
  ASSUME NEW r, r.inbox # <<>>, NEW reactions
  PROVE  ReadNotify(r, reactions)
           = {InSlot(ReadPart(r, n), w) : n \in 1..Len(r.inbox), w \in reactions}
BY DEF ReadNotify, ReadPart

LEMMA ReadNotifyGood ==
  ASSUME NEW r, BsGood(r), r.rn # "none", NEW reactions, "write" \notin reactions,
         NEW q \in ReadNotify(r, reactions)
  PROVE  BsGood(q) /\ q.scenario = r.scenario
<1>1. CASE r.inbox = <<>>
  <2> DEFINE a == Enable(r, "rn", FALSE)
             b == Enable(a, "wn", FALSE)
             c == SetSocketError(b)
  <2>1. BsGood(a) /\ a.rn # "none" /\ a.scenario = r.scenario
    BY EnableKeepsGood
  <2> HIDE DEF a
  <2>2. BsGood(b) /\ b.scenario = r.scenario
    BY <2>1, EnableKeepsGood
  <2> HIDE DEF b
  <2>3. BsGood(c) /\ c.scenario = r.scenario
    BY <2>2, ErrorGood
  <2> HIDE DEF c
  <2>4. q = BsClose(c)
    BY <1>1 DEF ReadNotify, ReadFails, a, b, c
  <2> QED
    BY <2>3, <2>4, BsCloseGood
<1>2. CASE r.inbox # <<>>
  <2>1. PICK n \in 1..Len(r.inbox), w \in reactions : q = InSlot(ReadPart(r, n), w)
    BY <1>2, ReadNotifyReads
  <2> DEFINE s == ReadPart(r, n)
  <2>2. DOMAIN s = DOMAIN r /\ \A f \in BsFields \ {"rx", "inbox"} : s[f] = r[f]
    BY DEF BsGood, BsCore, BsFields, ReadPart
  <2> HIDE DEF s
  <2>3. BsGood(s) /\ s.scenario = r.scenario
    BY <2>2, OtherFieldsGood
  <2>4. q = InSlot(s, w)
    BY <2>1 DEF s
  <2> QED
    BY <2>3, <2>4, InSlotGood
<1> QED
  BY <1>1, <1>2

\* connectToServiceHelper(), which makes the notifiers before it uses them.
LEMMA ConnectToServiceHelperGood ==
  ASSUME NEW r, BsCore(r), r.state \in {"Unconnected", "ServiceLookup"}, NEW result
  PROVE  LET c == ConnectToServiceHelper(r, result)
         IN  /\ BsCore(c) /\ c.agent = r.agent /\ c.scenario = r.scenario
<1> DEFINE n == EnsureNativeSocket(r)
           a == Enable(n, "wn", TRUE)
           e == Enable(a, "rn", TRUE)
<1>1. /\ BsCore(n) /\ n.rn # "none" /\ n.state = r.state /\ n.tx = <<>> /\ n.posted = 0
      /\ n.agent = r.agent /\ n.scenario = r.scenario
  BY DEF EnsureNativeSocket, BsCore, BsFields
<1> HIDE DEF n
<1>2. /\ BsCore(a) /\ a.rn # "none" /\ a.state = r.state /\ a.tx = <<>> /\ a.posted = 0
      /\ a.agent = r.agent /\ a.scenario = r.scenario
  BY <1>1, EnableGood
<1> HIDE DEF a
<1>3. /\ BsCore(e) /\ e.rn # "none" /\ e.state = r.state /\ e.tx = <<>> /\ e.posted = 0
      /\ e.agent = r.agent /\ e.scenario = r.scenario
  BY <1>2, EnableGood
<1> HIDE DEF e
<1>4. CASE result = "error"
  <2> DEFINE c == SetSocketError(e)
  <2>1. DOMAIN c = BsFields /\ \A f \in BsFields \ {"errors"} : c[f] = e[f]
    BY <1>3, SetSocketErrorSets DEF BsCore
  <2> HIDE DEF c
  <2>2. /\ c["nullUsed"] = e["nullUsed"] /\ c["rn"] = e["rn"] /\ c["wn"] = e["wn"]
        /\ c["events"] = e["events"] /\ c["link"] = e["link"] /\ c["tx"] = e["tx"]
        /\ c["posted"] = e["posted"] /\ c["agent"] = e["agent"]
        /\ c["state"] = e["state"] /\ c["scenario"] = e["scenario"]
    BY <2>1 DEF BsFields
  <2>3. BsCore(c)
    BY <1>3, <2>1, <2>2 DEF BsCore
  <2> QED
    BY <1>3, <1>4, <2>2, <2>3 DEF ConnectToServiceHelper, n, a, e, c
<1>5. CASE result # "error"
  <2> DEFINE s == [e EXCEPT !.connecting = TRUE, !.link = "connecting"]
             c == SetSocketState(s, "Connecting")
  <2>1. /\ DOMAIN s = BsFields /\ s["link"] = "connecting"
        /\ \A f \in BsFields \ {"connecting", "link"} : s[f] = e[f]
    BY <1>3 DEF BsCore, BsFields
  <2> HIDE DEF s
  <2>2. /\ DOMAIN c = BsFields /\ c.state = "Connecting"
        /\ \A f \in BsFields \ {"state", "told"} : c[f] = s[f]
    BY <2>1, SetSocketStateSets
  <2> HIDE DEF c
  <2>3. /\ c["nullUsed"] = e["nullUsed"] /\ c["rn"] = e["rn"] /\ c["wn"] = e["wn"]
        /\ c["events"] = e["events"] /\ c["link"] = "connecting" /\ c["tx"] = e["tx"]
        /\ c["posted"] = e["posted"] /\ c["agent"] = e["agent"]
        /\ c["scenario"] = e["scenario"]
    BY <2>1, <2>2 DEF BsFields
  <2>4. BsCore(c)
    BY <1>3, <2>2, <2>3 DEF BsCore
  <2> QED
    BY <1>3, <1>5, <2>3, <2>4 DEF ConnectToServiceHelper, n, a, e, s, c
<1> QED
  BY <1>4, <1>5

BsInv == BsGood(bz) /\ bz.scenario \in BsScenarios

\* connectToService(), at once or after a lookup.
LEMMA BsConnectInv ==
  ASSUME BsInv, BsConnect \/ BsServiceDiscovered
  PROVE  BsInv'
<1>1. CASE BsConnect
  <2> DEFINE r == NewSession(bz)
  <2>1. bz.state = "Unconnected" /\ ~bz.agent
    BY <1>1 DEF BsConnect, BsInv, BsGood
  <2>2. DOMAIN r = DOMAIN bz /\ \A f \in BsFields \ {"session"} : r[f] = bz[f]
    BY DEF NewSession, BsInv, BsGood, BsCore, BsFields
  <2> HIDE DEF r
  <2>3. /\ BsGood(r) /\ r.state = "Unconnected" /\ r.tx = bz.tx /\ r.posted = bz.posted
        /\ ~r.agent /\ r.scenario = bz.scenario
    BY <2>1, <2>2, OtherFieldsGood DEF BsInv
  <2>4. CASE \E result : bz' = ConnectToServiceHelper(r, result)
    <3>1. PICK result : bz' = ConnectToServiceHelper(r, result)
      BY <2>4
    <3>2. BsCore(bz') /\ bz'.agent = r.agent /\ bz'.scenario = r.scenario
      BY <2>3, <3>1, ConnectToServiceHelperGood DEF BsGood
    <3>3. ~bz'.agent
      BY <2>3, <3>2
    <3> QED
      BY <2>3, <3>2, <3>3 DEF BsInv, BsGood
  <2>5. CASE bz' = DoDeviceDiscovery(r)
    <3> DEFINE s == SetSocketState(r, "ServiceLookup")
    <3>1. /\ DOMAIN s = BsFields /\ s.state = "ServiceLookup"
          /\ \A f \in BsFields \ {"state", "told"} : s[f] = r[f]
      BY <2>3, SetSocketStateSets DEF BsGood, BsCore
    <3> HIDE DEF s
    <3>2. bz' = [s EXCEPT !.agent = TRUE]
      BY <2>5 DEF DoDeviceDiscovery, s
    <3>3. /\ DOMAIN bz' = BsFields /\ bz'["state"] = "ServiceLookup"
          /\ \A f \in BsFields \ {"state", "told", "agent"} : bz'[f] = r[f]
      BY <3>1, <3>2 DEF BsFields
    <3>4. /\ bz'["nullUsed"] = r["nullUsed"] /\ bz'["rn"] = r["rn"]
          /\ bz'["wn"] = r["wn"] /\ bz'["events"] = r["events"]
          /\ bz'["link"] = r["link"] /\ bz'["tx"] = r["tx"]
          /\ bz'["posted"] = r["posted"] /\ bz'["scenario"] = r["scenario"]
      BY <3>3 DEF BsFields
    <3> QED
      BY <2>3, <3>3, <3>4 DEF BsInv, BsGood, BsCore
  <2> QED
    BY <1>1, <2>4, <2>5 DEF BsConnect, r
<1>2. CASE BsServiceDiscovered
  <2>1. PICK result : bz' = [ConnectToServiceHelper(bz, result) EXCEPT !.agent = FALSE]
    BY <1>2 DEF BsServiceDiscovered, ServiceDiscovered
  <2> DEFINE c == ConnectToServiceHelper(bz, result)
  <2>2. bz.state = "ServiceLookup"
    BY <1>2 DEF BsServiceDiscovered, BsInv, BsGood
  <2>3. BsCore(c) /\ c.scenario = bz.scenario
    BY <2>2, ConnectToServiceHelperGood DEF BsInv, BsGood
  <2> HIDE DEF c
  <2>4. bz' = [c EXCEPT !.agent = FALSE]
    BY <2>1 DEF c
  <2>5. BsCore(bz') /\ bz'.scenario = bz.scenario /\ ~bz'.agent
    BY <2>3, <2>4 DEF BsCore, BsFields
  <2> QED
    BY <2>5 DEF BsInv, BsGood
<1> QED
  BY <1>1, <1>2

LEMMA BsDiscoveryFinishedInv ==
  ASSUME BsInv, BsDiscoveryFinished
  PROVE  BsInv'
<1> DEFINE e == SetSocketError(bz)
           s == SetSocketState(e, "Unconnected")
<1>1. bz.agent /\ bz.state = "ServiceLookup" /\ bz.tx = <<>>
  BY DEF BsDiscoveryFinished, BsInv, BsGood, BsCore
<1>2. BsGood(e) /\ e.tx = <<>> /\ e.scenario = bz.scenario
  BY <1>1, ErrorGood DEF BsInv
<1> HIDE DEF e
<1>3. /\ DOMAIN s = BsFields /\ s.state = "Unconnected"
      /\ \A f \in BsFields \ {"state", "told"} : s[f] = e[f]
  BY <1>2, SetSocketStateSets DEF BsGood, BsCore
<1> HIDE DEF s
<1>4. bz' = [s EXCEPT !.agent = FALSE]
  BY <1>1 DEF BsDiscoveryFinished, DiscoveryFinished, s, e
<1>5. /\ DOMAIN bz' = BsFields /\ bz'["state"] = "Unconnected" /\ bz'["agent"] = FALSE
      /\ \A f \in BsFields \ {"state", "told", "agent"} : bz'[f] = e[f]
  BY <1>3, <1>4 DEF BsFields
<1>6. /\ bz'["nullUsed"] = e["nullUsed"] /\ bz'["rn"] = e["rn"]
      /\ bz'["wn"] = e["wn"] /\ bz'["events"] = e["events"]
      /\ bz'["link"] = e["link"] /\ bz'["tx"] = e["tx"]
      /\ bz'["posted"] = e["posted"] /\ bz'["scenario"] = e["scenario"]
  BY <1>5 DEF BsFields
<1> QED
  BY <1>2, <1>5, <1>6 DEF BsInv, BsGood, BsCore

LEMMA BsWriteInv ==
  ASSUME BsInv, BsWrite
  PROVE  BsInv'
<1>1. /\ bz.state = "Connected" /\ bz.rn # "none" /\ bz.events = <<>> /\ ~bz.agent
  BY DEF BsWrite, CanWrite, Idle, BsInv, BsGood, BsCore
<1>2. CASE \E n : bz' = WriteUnbuffered(bz, n)
  <2>1. PICK n : bz' = WriteUnbuffered(bz, n)
    BY <1>2
  <2>2. CASE n = -1
    BY <2>1, <2>2, ErrorGood DEF WriteUnbuffered, BsInv
  <2>3. CASE n # -1
    <3> DEFINE s == Sent(bz, <<NextByte(bz.written)>>, n)
    <3>1. DOMAIN s = BsFields /\ \A f \in BsFields \ {"peer"} : s[f] = bz[f]
      BY DEF Sent, BsInv, BsGood, BsCore, BsFields
    <3> HIDE DEF s
    <3>2. \E w : bz' = [s EXCEPT !.written = w]
      BY <2>1, <2>3 DEF WriteUnbuffered, s
    <3>3. /\ DOMAIN bz' = DOMAIN bz
          /\ \A f \in BsFields \ {"peer", "written"} : bz'[f] = bz[f]
      BY <3>1, <3>2 DEF BsInv, BsGood, BsCore, BsFields
    <3> QED
      BY <3>3, OtherFieldsGood DEF BsInv
  <2> QED
    BY <2>2, <2>3
<1>3. CASE bz' = WriteData(bz)
  BY <1>1, <1>3, WriteDataGood DEF BsInv
<1> QED
  BY <1>2, <1>3 DEF BsWrite

LEMMA BsPollInv ==
  ASSUME BsInv, BsPoll
  PROVE  BsInv'
<1>1. PICK events \in {<<"rn">>, <<"wn">>, <<"rn", "wn">>, <<"wn", "rn">>} :
        /\ ToSet(events) = {n \in {"rn", "wn"} : Ready(n)}
        /\ bz' = [bz EXCEPT !.events = events]
  BY DEF BsPoll
<1>2. bz.posted = 0
  BY DEF BsPoll
<1>3. "rn" \in ToSet(events) \/ "wn" \in ToSet(events)
  BY DEF ToSet
<1>4. bz.rn # "none"
  BY <1>1, <1>3 DEF Ready, BsInv, BsGood, BsCore
<1> QED
  BY <1>1, <1>2, <1>4 DEF BsInv, BsGood, BsCore, BsFields, BsBatches

LEMMA BatchTail ==
  ASSUME NEW events \in BsBatches, events # <<>>
  PROVE  /\ Tail(events) \in BsBatches
         /\ events = <<"rn">> => Tail(events) = <<>>
         /\ Head(events) # "rn" => Tail(events) \in {<<>>, <<"rn">>}
         /\ Head(events) # "rn" => events # <<"rn">>
<1>1. /\ Tail(<<"rn">>) = <<>> /\ Head(<<"rn">>) = "rn"
      /\ Tail(<<"wn">>) = <<>> /\ Head(<<"wn">>) = "wn"
      /\ Tail(<<"rn", "wn">>) = <<"wn">> /\ Head(<<"rn", "wn">>) = "rn"
      /\ Tail(<<"wn", "rn">>) = <<"rn">> /\ Head(<<"wn", "rn">>) = "wn"
  OBVIOUS
<1>2. \/ events = <<"rn">> \/ events = <<"wn">>
      \/ events = <<"rn", "wn">> \/ events = <<"wn", "rn">>
  BY DEF BsBatches
<1> QED
  BY <1>1, <1>2 DEF BsBatches

LEMMA BsNextInv ==
  ASSUME QueuedWritesRun, BsInv, [BsNext]_bz
  PROVE  BsInv'
<1>1. CASE BsConnect \/ BsServiceDiscovered \/ BsDiscoveryFinished \/ BsWrite \/ BsPoll
  BY <1>1, BsConnectInv, BsDiscoveryFinishedInv, BsWriteInv, BsPollInv
<1>2. CASE BsRead
  <2>1. bz' = [bz EXCEPT !.got = @ \o bz.rx, !.rx = <<>>]
    BY <1>2 DEF BsRead
  <2>2. DOMAIN bz' = DOMAIN bz /\ \A f \in BsFields \ {"got", "rx"} : bz'[f] = bz[f]
    BY <2>1 DEF BsInv, BsGood, BsCore, BsFields
  <2> QED
    BY <2>2, OtherFieldsGood DEF BsInv
<1>3. CASE BsCloses
  BY <1>3, BsCloseGood DEF BsCloses, BsInv
<1>4. CASE BsAbort
  <2>1. bz.tx = <<>> /\ bz.posted = 0 /\ bz.state # "Unconnected"
    BY <1>4 DEF BsAbort, BsMay, QueuedWritesRun, BsInv, BsGood, BsCore
  <2> DEFINE a == [bz EXCEPT !.agent = FALSE]
             c == SetSocketState(a, "Closing")
  <2>2. /\ DOMAIN a = BsFields /\ a["agent"] = FALSE
        /\ \A f \in BsFields \ {"agent"} : a[f] = bz[f]
    BY DEF BsInv, BsGood, BsCore, BsFields
  <2> HIDE DEF a
  <2>3. DOMAIN c = BsFields /\ \A f \in BsFields \ {"state", "told"} : c[f] = a[f]
    BY <2>2, SetSocketStateSets
  <2> HIDE DEF c
  <2>4. /\ c["nullUsed"] = bz["nullUsed"] /\ c["tx"] = bz["tx"]
        /\ c["posted"] = bz["posted"] /\ c["agent"] = FALSE
        /\ c["scenario"] = bz["scenario"]
    BY <2>2, <2>3 DEF BsFields
  <2>5. bz' = BackendAbort(c)
    BY <1>4, <2>1 DEF BsAbort, SocketClose, EnterClosing, c, a
  <2>6. /\ BsCore(bz') /\ bz'.agent = FALSE /\ bz'.scenario = bz.scenario
    BY <2>1, <2>3, <2>4, <2>5, BackendAbortGood DEF BsInv, BsGood, BsCore
  <2> QED
    BY <2>6 DEF BsInv, BsGood
<1>5. CASE BsNotified
  <2> DEFINE r == [bz EXCEPT !.events = Tail(@)]
  <2>1. bz.events # <<>> /\ bz.rn # "none" /\ bz.events \in BsBatches
    BY <1>5 DEF BsNotified, BsInv, BsGood, BsCore
  <2>2. /\ Tail(bz.events) \in BsBatches
        /\ bz.events = <<"rn">> => Tail(bz.events) = <<>>
        /\ Head(bz.events) # "rn" => Tail(bz.events) \in {<<>>, <<"rn">>}
        /\ Head(bz.events) # "rn" => bz.events # <<"rn">>
    BY <2>1, BatchTail
  <2>3. BsGood(r) /\ r.rn # "none" /\ r.scenario = bz.scenario /\ r.posted = bz.posted
        /\ r.events = Tail(bz.events)
    BY <2>1, <2>2 DEF BsInv, BsGood, BsCore, BsFields
  <2>4. IF Head(bz.events) = "rn" THEN bz' \in ReadNotify(r, ReadReactions)
                                  ELSE bz' \in WriteNotify(r, WriteReactions)
    BY <1>5 DEF BsNotified
  <2> HIDE DEF r
  <2>5. CASE Head(bz.events) = "rn"
    <3>1. "write" \notin ReadReactions
      BY DEF ReadReactions, Reactions, BsMay, QueuedWritesRun, BsInv
    <3> QED
      BY <2>3, <2>4, <2>5, <3>1, ReadNotifyGood DEF BsInv
  <2>6. CASE Head(bz.events) # "rn"
    <3>1. bz.posted = 0
      BY <2>1, <2>2, <2>6 DEF BsInv, BsGood, BsCore
    <3> QED
      BY <2>2, <2>3, <2>4, <2>6, <3>1, WriteNotifyGood DEF BsInv
  <2> QED
    BY <2>5, <2>6
<1>6. CASE BsPosted
  <2> DEFINE r == [bz EXCEPT !.posted = @ - 1]
  <2>1. bz.posted = 1 /\ bz.tx # <<>> /\ bz.rn # "none" /\ bz.events = <<>>
    BY <1>6 DEF BsPosted, Idle, BsInv, BsGood, BsCore
  <2>2. /\ BsGood(r) /\ r.posted = 0 /\ r.rn # "none" /\ r.scenario = bz.scenario
        /\ r.events = <<>>
    BY <2>1 DEF BsInv, BsGood, BsCore, BsFields, BsBatches
  <2>3. bz' \in WriteNotify(r, WriteReactions)
    BY <1>6 DEF BsPosted
  <2> HIDE DEF r
  <2> QED
    BY <2>2, <2>3, WriteNotifyGood DEF BsInv
<1>7. CASE BsConnected \/ BsRefused \/ BsPeerCloses
  <2>1. \E l \in {"up", "refused", "lost"} : bz' = [bz EXCEPT !.link = l]
    BY <1>7 DEF BsConnected, BsRefused, BsPeerCloses
  <2>2. bz.link # "closed"
    BY <1>7 DEF BsConnected, BsRefused, BsPeerCloses
  <2> QED
    BY <2>1, <2>2 DEF BsInv, BsGood, BsCore, BsFields
<1>8. CASE BsPeerSends
  <2>1. bz' = [bz EXCEPT !.inbox = Append(@, bz.sent + 1), !.sent = @ + 1]
    BY <1>8 DEF BsPeerSends
  <2>2. DOMAIN bz' = DOMAIN bz /\ \A f \in BsFields \ {"inbox", "sent"} : bz'[f] = bz[f]
    BY <2>1 DEF BsInv, BsGood, BsCore, BsFields
  <2> QED
    BY <2>2, OtherFieldsGood DEF BsInv
<1>9. CASE UNCHANGED bz
  BY <1>9 DEF BsInv, BsGood, BsCore
<1> QED
  BY <1>1, <1>2, <1>3, <1>4, <1>5, <1>6, <1>7, <1>8, <1>9 DEF BsNext

LEMMA BsPromise == BsInv => BsNotifiersLive /\ BsNothingLeft
BY DEF BsInv, BsGood, BsCore, BsNotifiersLive, BsNothingLeft

-------------------------------------------------------------------------------
(* DBusSocket: the profile is registered as long as a connection or an       *)
(* attempt may use it, and the QLocalSocket belongs to the last attempt.     *)

DsFields ==
  {"scenario", "context", "path", "local", "tx", "calls", "offered", "peer", "nullUsed",
   "state", "agent", "told", "errors", "session", "written", "got"}

\* An attempt waits for the answer to the one before it, gets its profile, and a
\* connection BlueZ has handed over is not refused afterwards.
OneAttempt ==
  \A s \in DsScenarios :
    {"eager", "lateError", "registerFails", "badDescriptor"} \cap s.may = {}

DsCore(r) ==
  /\ DOMAIN r = DsFields /\ ~r.nullUsed /\ r.scenario \in DsScenarios
  /\ r.path <=> r.context
  /\ r.local # "none" => r.path /\ r.offered = r.session
  /\ r.calls \subseteq {r.session}
DsGood(r) ==
  /\ DsCore(r)
  /\ r.local = "none" => r.state \in {"Unconnected", "Connecting"}
  /\ r.state = "Unconnected" => ~r.path /\ r.local = "none"

LEMMA DsInitInv == DsInit => DsGood(ds)
<1> SUFFICES ASSUME DsInit PROVE DsGood(ds)
  OBVIOUS
<1>1. PICK s \in DsScenarios :
    ds = SocketBase([scenario |-> s, context |-> FALSE, path |-> FALSE, local |-> "none",
                     tx |-> <<>>, calls |-> {}, offered |-> 0,
                     peer |-> <<>>, nullUsed |-> FALSE])
  BY DEF DsInit
<1> DEFINE own == [scenario |-> s, context |-> FALSE, path |-> FALSE, local |-> "none",
                   tx |-> <<>>, calls |-> {}, offered |-> 0,
                   peer |-> <<>>, nullUsed |-> FALSE]
           base == [state |-> "Unconnected", agent |-> FALSE, told |-> "nothing",
                    errors |-> 0, session |-> 0, written |-> <<>>, got |-> <<>>]
<1>2. ds = [f \in DOMAIN own \cup DOMAIN base |->
              IF f \in DOMAIN own THEN own[f] ELSE base[f]]
  BY <1>1 DEF SocketBase
<1>3. /\ DOMAIN own = {"scenario", "context", "path", "local", "tx", "calls", "offered",
                       "peer", "nullUsed"}
      /\ DOMAIN base = {"state", "agent", "told", "errors", "session", "written", "got"}
      /\ own["scenario"] = s /\ own["context"] = FALSE /\ own["path"] = FALSE
      /\ own["local"] = "none" /\ own["calls"] = {} /\ own["nullUsed"] = FALSE
      /\ base["state"] = "Unconnected"
  OBVIOUS
<1> HIDE DEF own, base
<1>4. /\ DOMAIN ds = DsFields
      /\ ds.scenario = s /\ ds.context = FALSE /\ ds.path = FALSE /\ ds.local = "none"
      /\ ds.calls = {} /\ ds.nullUsed = FALSE /\ ds.state = "Unconnected"
  BY <1>2, <1>3 DEF DsFields
<1> QED
  BY <1>4 DEF DsGood, DsCore

\* The invariant speaks of no other fields than these.
DsSame(s, r) ==
  /\ DOMAIN s = DsFields /\ s.nullUsed = r.nullUsed /\ s.scenario = r.scenario
  /\ s.path = r.path /\ s.context = r.context /\ s.local = r.local
  /\ s.offered = r.offered /\ s.session = r.session /\ s.calls = r.calls
LEMMA DsSameCore ==
  ASSUME NEW r, NEW s, DsCore(r), DsSame(s, r)
  PROVE  DsCore(s)
BY DEF DsCore, DsSame

LEMMA DsStateSets ==
  ASSUME NEW r, DsCore(r), NEW new
  PROVE  LET s == SetSocketState(r, new)
         IN  DsCore(s) /\ DsSame(s, r) /\ s.state = new /\ s.tx = r.tx
<1> DEFINE s == SetSocketState(r, new)
<1>1. DsSame(s, r) /\ s.state = new /\ s.tx = r.tx
  BY DEF DsSame, SetSocketState, DsCore, DsFields
<1> HIDE DEF s
<1>2. DsCore(s)
  BY <1>1, DsSameCore
<1> QED
  BY <1>1, <1>2 DEF s
LEMMA DsErrorKeeps ==
  ASSUME NEW r, DsGood(r)
  PROVE  DsGood(SetSocketError(r))
<1> DEFINE s == SetSocketError(r)
<1>1. DsSame(s, r) /\ s.state = r.state
  BY DEF DsSame, SetSocketError, DsGood, DsCore, DsFields
<1> HIDE DEF s
<1>2. DsCore(s)
  BY <1>1, DsSameCore DEF DsGood
<1>3. DsGood(s)
  BY <1>1, <1>2 DEF DsGood, DsSame
<1> QED
  BY <1>3 DEF s

\* socketStateChanged(UnconnectedState) lets go of everything.
LEMMA LocalUnconnectedGood ==
  ASSUME NEW r, DsCore(r)
  PROVE  DsGood(LocalUnconnected(r))
<1> DEFINE c == ClearClosed(r)
<1>1. DsCore(c) /\ ~c.path /\ c.local = "none"
  <2>1. CASE r.path
    <3>1. /\ DOMAIN c = DsFields /\ c.nullUsed = r.nullUsed /\ c.scenario = r.scenario
          /\ c.path = FALSE /\ c.context = FALSE /\ c.local = "none"
          /\ c.calls = r.calls /\ c.session = r.session
      BY <2>1 DEF ClearClosed, Unregister, DsCore, DsFields
    <3> HIDE DEF c
    <3> QED
      BY <3>1 DEF DsCore
  <2>2. CASE ~r.path
    BY <2>2 DEF ClearClosed, DsCore
  <2> QED
    BY <2>1, <2>2
<1> HIDE DEF c
<1> DEFINE u == SetSocketState(c, "Unconnected")
<1>2. DsCore(u) /\ DsSame(u, c) /\ u.state = "Unconnected"
  BY <1>1, DsStateSets
<1> HIDE DEF u
<1>3. DsGood(u)
  BY <1>1, <1>2 DEF DsGood, DsSame
<1> QED
  BY <1>3 DEF LocalUnconnected, u, c

\* abort() of a socket with a QLocalSocket, and of one without.
LEMMA LocalCloseGood ==
  ASSUME NEW r, DsCore(r), r.local # "none"
  PROVE  DsGood(LocalClose(r))
<1>1. CASE r.tx # <<>>
  <2> DEFINE c == [r EXCEPT !.local = "closing"]
             s == SetSocketState(c, "Closing")
  <2>1. /\ DOMAIN c = DsFields /\ c.nullUsed = r.nullUsed /\ c.scenario = r.scenario
        /\ c.path = r.path /\ c.context = r.context /\ c.local = "closing"
        /\ c.calls = r.calls /\ c.session = r.session /\ c.offered = r.offered
    BY DEF DsCore, DsFields
  <2> HIDE DEF c
  <2>2. DsCore(c)
    BY <2>1 DEF DsCore
  <2>3. DsCore(s) /\ DsSame(s, c) /\ s.state = "Closing"
    BY <2>2, DsStateSets
  <2> HIDE DEF s
  <2>4. DsGood(s)
    BY <2>1, <2>3 DEF DsGood, DsSame
  <2> QED
    BY <1>1, <2>4 DEF LocalClose, s, c
<1>2. CASE r.tx = <<>>
  <2>1. DsCore(SetSocketState(r, "Closing"))
    BY DsStateSets
  <2> QED
    BY <1>2, <2>1, LocalUnconnectedGood DEF LocalClose
<1> QED
  BY <1>1, <1>2
LEMMA ClearSocketGood ==
  ASSUME NEW r, DsCore(r), r.local = "none"
  PROVE  LET c == ClearSocket(r)
         IN  DsCore(c) /\ ~c.path /\ c.local = "none" /\ c.state = r.state
<1>1. CASE r.path
  <2> DEFINE c == ClearSocket(r)
  <2>1. /\ DOMAIN c = DsFields /\ c.nullUsed = r.nullUsed /\ c.scenario = r.scenario
        /\ c.path = FALSE /\ c.context = FALSE /\ c.local = "none"
        /\ c.calls = r.calls /\ c.session = r.session /\ c.state = r.state
    BY <1>1 DEF ClearSocket, Unregister, DsCore, DsFields
  <2> HIDE DEF c
  <2>2. DsCore(c)
    BY <2>1 DEF DsCore
  <2> QED
    BY <2>1, <2>2 DEF c
<1>2. CASE ~r.path
  BY <1>2 DEF ClearSocket
<1> QED
  BY <1>1, <1>2
LEMMA DsAbortGood ==
  ASSUME NEW r, DsCore(r)
  PROVE  DsGood(DsAbort(r))
<1>1. CASE r.local # "none"
  BY <1>1, LocalCloseGood DEF DsAbort
<1>2. CASE r.local = "none"
  <2> DEFINE c == ClearSocket(r)
             u == SetSocketState(c, "Unconnected")
  <2>1. DsCore(c) /\ ~c.path /\ c.local = "none"
    BY <1>2, ClearSocketGood
  <2> HIDE DEF c
  <2>2. DsCore(u) /\ DsSame(u, c) /\ u.state = "Unconnected"
    BY <2>1, DsStateSets
  <2> HIDE DEF u
  <2>3. DsGood(u)
    BY <2>1, <2>2 DEF DsGood, DsSame
  <2> QED
    BY <1>2, <2>3 DEF DsAbort, u, c
<1> QED
  BY <1>1, <1>2

LEMMA DsConnectInv ==
  ASSUME OneAttempt, DsGood(ds), DsConnect
  PROVE  DsGood(ds')
<1>1. /\ ds.state = "Unconnected" /\ ~ds.path /\ ~ds.context /\ ds.local = "none"
      /\ ds.calls = {}
  BY DEF OneAttempt, DsConnect, DsMay, DsGood, DsCore
<1>2. PICK outcome \in {"ok", "notFound"} : ds' = ConnectProfile(ds, outcome)
  BY DEF OneAttempt, DsConnect, DsGood, DsCore
<1> DEFINE registered == [ds EXCEPT !.context = TRUE, !.path = TRUE]
<1>3. /\ DOMAIN registered = DsFields /\ ~registered.nullUsed
      /\ registered.scenario \in DsScenarios /\ registered.path = TRUE
      /\ registered.context = TRUE /\ registered.local = "none"
      /\ registered.calls = {} /\ registered.session = ds.session
      /\ registered.state = "Unconnected"
  BY <1>1 DEF DsGood, DsCore, DsFields
<1>4. DsCore(registered)
  BY <1>3 DEF DsCore
<1>5. CASE outcome = "ok"
  <2> DEFINE n == [NewSession(registered) EXCEPT !.calls = @ \cup {ds.session + 1}]
             s == SetSocketState(n, "Connecting")
  <2> HIDE DEF registered
  <2>1. /\ DOMAIN n = DsFields /\ ~n.nullUsed /\ n.scenario \in DsScenarios
        /\ n.path = TRUE /\ n.context = TRUE /\ n.local = "none"
        /\ n.calls = {ds.session + 1} /\ n.session = ds.session + 1
    BY <1>3 DEF NewSession, DsFields
  <2> HIDE DEF n
  <2>2. DsCore(n)
    BY <2>1 DEF DsCore
  <2>3. DsCore(s) /\ DsSame(s, n) /\ s.state = "Connecting"
    BY <2>2, DsStateSets
  <2> HIDE DEF s
  <2>4. DsGood(s)
    BY <2>3 DEF DsGood
  <2> QED
    BY <1>1, <1>2, <1>5, <2>4 DEF ConnectProfile, s, n, registered
<1>6. CASE outcome = "notFound"
  <2> DEFINE c == ClearSocket(registered)
  <2> HIDE DEF registered
  <2>1. DsCore(c) /\ ~c.path /\ c.local = "none" /\ c.state = registered.state
    BY <1>3, <1>4, ClearSocketGood
  <2> HIDE DEF c
  <2>2. DsGood(c)
    BY <1>3, <2>1 DEF DsGood
  <2> QED
    BY <1>1, <1>2, <1>6, <2>2, DsErrorKeeps DEF ConnectProfile, c, registered
<1> QED
  BY <1>2, <1>5, <1>6

LEMMA DsCloseInv ==
  ASSUME DsGood(ds), DsClose
  PROVE  DsGood(ds')
<1> DEFINE a == [ds EXCEPT !.agent = FALSE]
           c == SetSocketState(a, "Closing")
<1>1. DsSame(a, ds)
  BY DEF DsSame, DsGood, DsCore, DsFields
<1> HIDE DEF a
<1>2. DsCore(c)
  BY <1>1, DsSameCore, DsStateSets DEF DsGood
<1> HIDE DEF c
<1>3. ds' = DsAbort(c)
  BY DEF DsClose, SocketClose, EnterClosing, c, a
<1> QED
  BY <1>2, <1>3, DsAbortGood

LEMMA DsNewConnectionInv ==
  ASSUME OneAttempt, DsGood(ds), DsNewConnection
  PROVE  DsGood(ds')
<1>1. /\ ds.path /\ ds.context
      /\ ds' = [RemoteConnected(ds, TRUE) EXCEPT !.offered = ds.session]
  BY DEF OneAttempt, DsNewConnection, DsMay, DsGood, DsCore
<1> DEFINE u == [ds EXCEPT !.local = "up"]
           s == SetSocketState(u, "Connected")
<1>2. ds' = [s EXCEPT !.offered = ds.session]
  BY <1>1 DEF RemoteConnected
<1>3. /\ DOMAIN s = DsFields /\ s.nullUsed = ds.nullUsed /\ s.scenario = ds.scenario
      /\ s.path = ds.path /\ s.context = ds.context /\ s.local = "up"
      /\ s.session = ds.session /\ s.calls = ds.calls /\ s.state = "Connected"
  BY DEF SetSocketState, DsGood, DsCore, DsFields
<1> HIDE DEF s, u
<1>4. /\ DOMAIN ds' = DsFields /\ ds'.nullUsed = ds.nullUsed
      /\ ds'.scenario = ds.scenario /\ ds'.path = ds.path /\ ds'.context = ds.context
      /\ ds'.local = "up" /\ ds'.session = ds.session /\ ds'.calls = ds.calls
      /\ ds'.state = "Connected" /\ ds'.offered = ds.session
  BY <1>2, <1>3 DEF DsFields
<1> QED
  BY <1>1, <1>4 DEF DsGood, DsCore

LEMMA DsReplyInv ==
  ASSUME OneAttempt, DsGood(ds), DsReply
  PROVE  DsGood(ds')
<1>1. PICK k \in ds.calls :
    LET r == [ds EXCEPT !.calls = @ \ {k}]
    IN  ds' = r \/ (ds.offered # k /\ ds' = ReplyError(r))
  BY DEF OneAttempt, DsReply, DsMay, DsGood, DsCore
<1> DEFINE r == [ds EXCEPT !.calls = @ \ {k}]
<1>2. /\ DOMAIN r = DsFields /\ r.nullUsed = ds.nullUsed /\ r.scenario = ds.scenario
      /\ r.path = ds.path /\ r.context = ds.context /\ r.local = ds.local
      /\ r.session = ds.session /\ r.calls = ds.calls \ {k} /\ r.state = ds.state
      /\ r.offered = ds.offered
  BY DEF DsGood, DsCore, DsFields
<1>3. ds' = r \/ (ds.offered # k /\ ds' = ReplyError(r))
  BY <1>1
<1> HIDE DEF r
<1>4. DsGood(r)
  BY <1>2 DEF DsGood, DsCore
<1>5. CASE ds.offered # k /\ ds' = ReplyError(r)
  <2>1. r.local = "none"
    BY <1>2, <1>5 DEF DsGood, DsCore
  <2> DEFINE c == ClearSocket(r)
  <2>2. DsCore(c) /\ ~c.path /\ c.local = "none" /\ c.state = r.state
    BY <1>4, <2>1, ClearSocketGood DEF DsGood
  <2> HIDE DEF c
  <2>3. DsGood(c)
    BY <1>4, <2>1, <2>2 DEF DsGood
  <2> QED
    BY <1>5, <2>3, DsErrorKeeps DEF ReplyError, c
<1> QED
  BY <1>3, <1>4, <1>5

\* The QLocalSocket writes on, and ends once it has nothing left.
LEMMA DsFlushInv ==
  ASSUME DsGood(ds), DsFlush
  PROVE  DsGood(ds')
<1> DEFINE r == [ds EXCEPT !.peer = Append(@, Head(ds.tx)), !.tx = Tail(@)]
<1>1. DsSame(r, ds) /\ r.state = ds.state
  BY DEF DsSame, DsGood, DsCore, DsFields
<1>2. ds' = r \/ ds' = LocalUnconnected(r)
  BY DEF DsFlush
<1> HIDE DEF r
<1>3. DsCore(r)
  BY <1>1, DsSameCore DEF DsGood
<1>4. DsGood(r)
  BY <1>1, <1>3 DEF DsGood, DsSame
<1> QED
  BY <1>2, <1>3, <1>4, LocalUnconnectedGood

LEMMA DsNextInv ==
  ASSUME OneAttempt, DsGood(ds), [DsNext]_ds
  PROVE  DsGood(ds')
<1>1. CASE DsConnect
  BY <1>1, DsConnectInv
<1>2. CASE DsWrite
  <2>1. DsSame(ds', ds) /\ ds'.state = ds.state
    BY <1>2 DEF DsWrite, DsSame, DsGood, DsCore, DsFields
  <2>2. DsCore(ds')
    BY <2>1, DsSameCore DEF DsGood
  <2> QED
    BY <2>1, <2>2 DEF DsGood, DsSame
<1>3. CASE DsClose
  BY <1>3, DsCloseInv
<1>4. CASE DsNewConnection
  BY <1>4, DsNewConnectionInv
<1>5. CASE DsReply
  BY <1>5, DsReplyInv
<1>6. CASE DsFlush
  BY <1>6, DsFlushInv
<1>7. CASE DsPeerCloses
  <2> DEFINE t == [ds EXCEPT !.tx = <<>>]
             c == SetSocketState(t, "Closing")
  <2>1. DsSame(t, ds)
    BY DEF DsSame, DsGood, DsCore, DsFields
  <2> HIDE DEF t
  <2>2. DsCore(c)
    BY <2>1, DsSameCore, DsStateSets DEF DsGood
  <2> HIDE DEF c
  <2>3. ds' = LocalUnconnected(c)
    BY <1>7 DEF DsPeerCloses, c, t
  <2> QED
    BY <2>2, <2>3, LocalUnconnectedGood
<1>8. CASE UNCHANGED ds
  BY <1>8
<1> QED
  BY <1>1, <1>2, <1>3, <1>4, <1>5, <1>6, <1>7, <1>8 DEF DsNext

LEMMA DsPromise == DsGood(ds) => DsLocalLive /\ DsReusable
BY DEF DsGood, DsCore, DsLocalLive, DsReusable

-------------------------------------------------------------------------------
(* BluezDiscovery: what the manager counts is what runs, and the mode is on  *)
(* for it.                                                                   *)

(***************************************************************************)
(* Requests for the pairing a device has already do not come while another *)
(* request looks for its device, nor after one was cancelled and, with the *)
(* reply to that one still to come, another was begun: such a request      *)
(* stops the search of the other without giving its interest back.  To     *)
(* start again in a slot is to start quickly.                              *)
(***************************************************************************)
NothingLeaked ==
  \A s \in BdScenarios :
    "samePairing" \notin s.may /\ ("cancel" \in s.may => s.asks \in 0..3)
RestartsAreHasty ==
  \A s \in BdScenarios : "restartInSlot" \in s.may => "hasty" \in s.may
\* The adapter is not removed while a pairing looks for its device, and has power
\* as long as somebody needs its discovery.
PulledWhenIdle ==
  \A s \in BdScenarios : {"removedPairing", "powerOffBusy"} \cap s.may = {}

BdFields ==
  {"scenario", "refs", "was", "session", "other", "flag", "offSignal", "present",
   "powered", "active", "timer", "frames", "found", "starts", "ends", "added", "valid",
   "pairTimer", "address", "pairing", "target", "calls", "asked", "waiting", "told",
   "status"}

\* The mode of the adapter: another program's use shows in the flag.  With time
\* between the uses, and without other programs that stop, the manager remembers
\* truly whether it has switched the mode on, and the mode stays on for it.
Quick(r) == {"hasty", "otherStops", "supersede"} \cap r.scenario.may # {}
BdMode(r) ==
  /\ DOMAIN r = BdFields /\ r.scenario \in BdScenarios /\ r.refs \in Nat
  /\ r.other => r.flag
  /\ r.refs > 0 => r.session \/ r.other \/ r.flag \/ r.offSignal
  /\ ~Quick(r) /\ r.refs = 0 => ~r.session
  /\ ~Quick(r) /\ r.refs > 0 =>
       (r.was <=> ~r.session) /\ (r.was => r.other) /\ ~r.offSignal
BdUses(r) ==
  /\ r.refs = (IF r.active THEN 1 ELSE 0) + (IF r.pairTimer THEN 1 ELSE 0)
  /\ r.valid <=> r.present
  /\ ~r.valid => ~r.pairTimer /\ ~r.active
  /\ ~r.powered => ~r.pairTimer /\ ~r.active
  /\ r.timer => r.active

\* The n-th request or a later one, after one that may have been cancelled.
Overtaken(r, n) == "cancel" \in r.scenario.may /\ r.asked >= n

\* Replies are those of the request that waits, unless one was cancelled.
BdRequests(r) ==
  /\ r.asked \in Nat
  /\ r.calls # {} \/ r.pairTimer => r.asked >= 1
  /\ r.calls # {} /\ ~r.waiting => Overtaken(r, 2) \/ ~r.valid
  /\ r.calls # {} /\ r.pairTimer => Overtaken(r, 3)
  /\ (\A c, e \in r.calls : c = e) \/ Overtaken(r, 3)
  /\ r.pairTimer => r.waiting \/ Overtaken(r, 3)
BdGood(r) == BdMode(r) /\ BdUses(r) /\ BdRequests(r)

\* The fields that these speak of.
SameMode(s, r) ==
  /\ DOMAIN s = BdFields /\ s.scenario = r.scenario /\ s.refs = r.refs
  /\ s.was = r.was /\ s.session = r.session /\ s.other = r.other
  /\ s.flag = r.flag /\ s.offSignal = r.offSignal
SameAgent(s, r) ==
  /\ s.present = r.present /\ s.valid = r.valid /\ s.powered = r.powered
  /\ s.active = r.active /\ s.timer = r.timer
SameRequests(s, r) ==
  /\ s.scenario = r.scenario /\ s.valid = r.valid /\ s.pairTimer = r.pairTimer
  /\ s.calls = r.calls /\ s.asked = r.asked /\ s.waiting = r.waiting
LEMMA SameBd ==
  ASSUME NEW r, NEW s
  PROVE  /\ BdMode(r) /\ SameMode(s, r) => BdMode(s)
         /\ BdRequests(r) /\ SameRequests(s, r) => BdRequests(s)
         /\ BdGood(r) /\ SameMode(s, r) /\ SameAgent(s, r) /\ SameRequests(s, r)
              => BdGood(s)
<1>1. BdMode(r) /\ SameMode(s, r) => BdMode(s)
  BY DEF BdMode, SameMode, Quick
<1>2. BdRequests(r) /\ SameRequests(s, r) => BdRequests(s)
  BY DEF BdRequests, SameRequests, Overtaken
<1>3. BdUses(r) /\ SameMode(s, r) /\ SameAgent(s, r) /\ SameRequests(s, r) => BdUses(s)
  BY DEF BdUses, SameMode, SameAgent, SameRequests
<1> QED
  BY <1>1, <1>2, <1>3 DEF BdGood

LEMMA BdInitInv == BdInit => BdGood(bd)
<1> SUFFICES ASSUME BdInit PROVE BdGood(bd)
  OBVIOUS
<1>1. PICK s \in BdScenarios :
    bd = [scenario |-> s, refs |-> 0, was |-> FALSE, session |-> FALSE,
          other |-> "otherOn" \in s.may, flag |-> "otherOn" \in s.may,
          offSignal |-> FALSE, present |-> TRUE, powered |-> TRUE,
          active |-> FALSE, timer |-> FALSE, frames |-> <<>>,
          found |-> {}, starts |-> 0, ends |-> 0, added |-> {},
          valid |-> TRUE, pairTimer |-> FALSE, address |-> "none",
          pairing |-> "none", target |-> "none", calls |-> {}, asked |-> 0,
          waiting |-> FALSE, told |-> <<>>,
          status |-> [d \in BdDevices |-> IF d \in s.known THEN "Unpaired" ELSE "absent"]]
  BY DEF BdInit
<1>2. /\ DOMAIN bd = BdFields /\ bd.scenario = s /\ bd.refs = 0
      /\ bd.session = FALSE /\ bd.other = ("otherOn" \in s.may)
      /\ bd.flag = ("otherOn" \in s.may)
      /\ bd.present = TRUE /\ bd.active = FALSE /\ bd.timer = FALSE /\ bd.valid = TRUE
      /\ bd.powered = TRUE
      /\ bd.pairTimer = FALSE /\ bd.calls = {} /\ bd.asked = 0
  BY <1>1 DEF BdFields
<1>3. BdMode(bd)
  BY <1>2 DEF BdMode
<1>4. BdUses(bd)
  BY <1>2 DEF BdUses
<1>5. BdRequests(bd)
  BY <1>2 DEF BdRequests
<1> QED
  BY <1>3, <1>4, <1>5 DEF BdGood

\* An interest is registered when the mode has settled, or quickly.
SettledOrQuick(r) ==
  Quick(r) \/ ((r.flag <=> r.session \/ r.other) /\ ~r.offSignal)
LEMMA RegisterKeeps ==
  ASSUME NEW r, BdMode(r), r.refs = 0 => SettledOrQuick(r), r.powered
  PROVE  LET q == RegisterInterest(r)
         IN  /\ BdMode(q) /\ q.refs = r.refs + 1 /\ SameAgent(q, r)
             /\ SameRequests(q, r)
<1> DEFINE q == RegisterInterest(r)
<1>1. /\ DOMAIN q = BdFields /\ q.scenario = r.scenario /\ q.other = r.other
      /\ q.flag = r.flag /\ q.offSignal = r.offSignal /\ q.refs = r.refs + 1
      /\ SameAgent(q, r) /\ SameRequests(q, r)
  <2>1. CASE r.refs > 0
    BY <2>1 DEF RegisterInterest, BdMode, BdFields, SameAgent, SameRequests
  <2>2. CASE r.refs = 0
    <3> DEFINE x == [r EXCEPT !.refs = 1, !.was = r.flag,
                              !.session = @ \/ (~r.flag /\ r.powered)]
    <3>1. q = x
      BY <2>2 DEF RegisterInterest
    <3> DEFINE on == r.session \/ (~r.flag /\ r.powered)
               y == [r EXCEPT !.refs = 1, !.was = r.flag, !.session = on]
    <3>2. x = y
      BY Zenon DEF BdMode, BdFields
    <3>3. q = y
      BY <3>1, <3>2
    <3> DEFINE flag == r.flag
    <3> HIDE DEF q, on, x, flag
    <3>4. q = [r EXCEPT !.refs = 1, !.was = flag, !.session = on]
      BY <3>3 DEF flag
    <3>5. DOMAIN q = BdFields /\ q.refs = 1 /\ r.refs + 1 = 1
      BY <2>2, <3>4 DEF BdMode, BdFields
    <3>6. /\ q.scenario = r.scenario /\ q.other = r.other
          /\ q.flag = r.flag /\ q.offSignal = r.offSignal
      BY <3>4 DEF BdMode, BdFields
    <3>7. SameAgent(q, r) /\ SameRequests(q, r)
      BY <3>4 DEF BdMode, BdFields, SameAgent, SameRequests
    <3> QED
      BY <3>5, <3>6, <3>7
  <2> QED
    BY <2>1, <2>2 DEF BdMode
<1>2. CASE r.refs > 0
  <2>1. q.was = r.was /\ q.session = r.session
    BY <1>2 DEF RegisterInterest, BdMode, BdFields
  <2> HIDE DEF q
  <2>2. BdMode(q)
    BY <1>1, <1>2, <2>1 DEF BdMode, Quick
  <2> QED
    BY <1>1, <2>2 DEF q
<1>3. CASE r.refs = 0
  <2>1. (q.session <=> r.session \/ ~r.flag) /\ q.was = r.flag
    <3>1. q = [r EXCEPT !.refs = 1, !.was = r.flag, !.session = @ \/ (~r.flag /\ r.powered)]
      BY <1>3 DEF RegisterInterest
    <3> HIDE DEF q
    <3>2. q.session <=> r.session \/ ~r.flag
      BY <3>1 DEF BdMode, BdFields
    <3>3. q.was = r.flag
      BY <3>1 DEF BdMode, BdFields
    <3> QED
      BY <3>2, <3>3
  <2> HIDE DEF q
  <2>2. BdMode(q)
    BY <1>1, <1>3, <2>1 DEF BdMode, Quick, SettledOrQuick
  <2> QED
    BY <1>1, <2>2 DEF q
<1> QED
  BY <1>2, <1>3 DEF BdMode

LEMMA UnregisterKeeps ==
  ASSUME NEW r, BdMode(r), r.refs > 0
  PROVE  LET q == UnregisterInterest(r)
         IN  /\ BdMode(q) /\ q.refs = r.refs - 1 /\ SameAgent(q, r)
             /\ SameRequests(q, r)
<1> DEFINE q == UnregisterInterest(r)
<1>1. /\ DOMAIN q = BdFields /\ q.scenario = r.scenario /\ q.other = r.other
      /\ q.flag = r.flag /\ q.offSignal = r.offSignal /\ q.refs = r.refs - 1
      /\ q.was = r.was /\ SameAgent(q, r) /\ SameRequests(q, r)
  BY DEF UnregisterInterest, BdMode, BdFields, SameAgent, SameRequests
<1>2. CASE r.refs # 1
  <2>1. q.session = r.session
    BY <1>2 DEF UnregisterInterest, BdMode, BdFields
  <2> HIDE DEF q
  <2>2. BdMode(q)
    BY <1>1, <1>2, <2>1 DEF BdMode, Quick
  <2> QED
    BY <1>1, <2>2 DEF q
<1>3. CASE r.refs = 1
  <2>1. q.session <=> r.session /\ r.was
    BY <1>3 DEF UnregisterInterest, BdMode, BdFields
  <2> HIDE DEF q
  <2>2. BdMode(q)
    BY <1>1, <1>3, <2>1 DEF BdMode, Quick
  <2> QED
    BY <1>1, <2>2 DEF q
<1> QED
  BY <1>2, <1>3

\* stop(), and the end of a search by its timer.
LEMMA AgentFinishedGood ==
  ASSUME NEW r, BdGood(r), r.active
  PROVE  LET q == AgentFinished(r)
         IN  BdGood(q) /\ SameRequests(q, r) /\ ~q.active /\ ~q.timer
             /\ q.present = r.present
<1> DEFINE a == [r EXCEPT !.timer = FALSE, !.active = FALSE]
           u == UnregisterInterest(a)
           e == [u EXCEPT !.ends = @ + 1]
<1>1. /\ SameMode(a, r) /\ SameRequests(a, r) /\ a.active = FALSE /\ a.timer = FALSE
      /\ a.present = r.present /\ a.powered = r.powered
  BY DEF BdGood, BdMode, BdFields, SameMode, SameRequests
<1> HIDE DEF a
<1>2. BdMode(a) /\ a.refs > 0
  BY <1>1, SameBd DEF BdGood, BdUses, SameMode
<1>3. /\ BdMode(u) /\ u.refs = a.refs - 1 /\ SameAgent(u, a) /\ SameRequests(u, a)
  BY <1>2, UnregisterKeeps
<1> HIDE DEF u
<1>4. SameMode(e, u) /\ SameAgent(e, u) /\ SameRequests(e, u)
  BY <1>3 DEF BdMode, BdFields, SameMode, SameAgent, SameRequests
<1>5. AgentFinished(r) = e
  BY DEF AgentFinished, AgentEnds, e, u, a
<1> HIDE DEF e
<1>6. /\ e.active = FALSE /\ e.timer = FALSE /\ e.present = r.present
      /\ e.powered = r.powered
      /\ e.refs = r.refs - 1 /\ SameRequests(e, r)
  BY <1>1, <1>3, <1>4 DEF SameMode, SameAgent, SameRequests
<1>7. BdMode(e)
  BY <1>3, <1>4, SameBd
<1>8. BdRequests(e)
  BY <1>6, SameBd DEF BdGood
<1>9. BdUses(e)
  BY <1>6 DEF BdGood, BdUses, BdMode, SameRequests
<1> QED
  BY <1>5, <1>6, <1>7, <1>8, <1>9 DEF BdGood
LEMMA AgentStopGood ==
  ASSUME NEW r, BdGood(r)
  PROVE  LET q == AgentStop(r)
         IN  BdGood(q) /\ SameRequests(q, r) /\ ~q.active /\ q.present = r.present
<1>1. CASE r.active
  BY <1>1, AgentFinishedGood DEF AgentStop
<1>2. CASE ~r.active
  BY <1>2 DEF AgentStop, SameRequests
<1> QED
  BY <1>1, <1>2

LEMMA AgentStartGood ==
  ASSUME NEW r, BdGood(r), ~r.active, SettledOrQuick(r), NEW ok
  PROVE  BdGood(AgentStart(r, ok)) /\ SameRequests(AgentStart(r, ok), r)
<1> DEFINE a == [r EXCEPT !.found = {}, !.starts = @ + 1]
<1>1. SameMode(a, r) /\ SameAgent(a, r) /\ SameRequests(a, r)
  BY DEF BdGood, BdMode, BdFields, SameMode, SameAgent, SameRequests
<1>2. CASE ~a.present \/ ~a.powered \/ ~ok
  <2> DEFINE e == [a EXCEPT !.ends = @ + 1]
  <2> HIDE DEF a
  <2>1. SameMode(e, a) /\ SameAgent(e, a) /\ SameRequests(e, a)
    BY <1>1 DEF SameMode, BdFields, SameAgent, SameRequests
  <2>2. AgentStart(r, ok) = e
    BY <1>2 DEF AgentStart, AgentEnds, a
  <2> HIDE DEF e
  <2>3. SameMode(e, r) /\ SameAgent(e, r) /\ SameRequests(e, r)
    BY <1>1, <2>1 DEF SameMode, SameAgent, SameRequests
  <2> QED
    BY <2>2, <2>3, SameBd
<1>3. CASE a.present /\ a.powered /\ ok
  <2> DEFINE b == [a EXCEPT !.active = TRUE]
             g == RegisterInterest(b)
             s == [g EXCEPT !.frames = <<Known(a)>> \o @]
  <2>1. AgentStart(r, ok) = s
    BY <1>3 DEF AgentStart
  <2> HIDE DEF a
  <2>2. /\ SameMode(b, r) /\ SameRequests(b, r) /\ b.active = TRUE
        /\ b.timer = r.timer /\ b.present = r.present
        /\ b.powered = r.powered
    BY <1>1 DEF SameMode, BdFields, SameAgent, SameRequests
  <2> HIDE DEF b
  <2>3. BdMode(b) /\ SettledOrQuick(b) /\ b.powered
    BY <1>1, <1>3, <2>2, SameBd DEF SameAgent, BdGood, SameMode, SettledOrQuick, Quick
  <2>4. BdMode(g) /\ g.refs = b.refs + 1 /\ SameAgent(g, b) /\ SameRequests(g, b)
    BY <2>3, RegisterKeeps
  <2> HIDE DEF g
  <2>5. SameMode(s, g) /\ SameAgent(s, g) /\ SameRequests(s, g)
    BY <2>4 DEF BdMode, BdFields, SameMode, SameAgent, SameRequests
  <2> HIDE DEF s
  <2>6. /\ SameRequests(s, r) /\ s.active = TRUE /\ s.timer = r.timer
        /\ s.present = r.present /\ s.powered = r.powered /\ s.refs = r.refs + 1
    BY <2>2, <2>4, <2>5 DEF SameMode, SameAgent, SameRequests
  <2>7. BdMode(s) /\ BdRequests(s)
    BY <2>4, <2>5, <2>6, SameBd DEF BdGood
  <2>8. r.present /\ r.powered
    BY <1>1, <1>3 DEF SameAgent
  <2>9. BdUses(s)
    BY <2>6, <2>8 DEF BdGood, BdUses, SameRequests
  <2> QED
    BY <2>1, <2>6, <2>7, <2>9 DEF BdGood
<1> QED
  BY <1>2, <1>3

\* deviceFound(), with what the application does in the slot.
LEMMA DeviceFoundGood ==
  ASSUME RestartsAreHasty, NEW r, BdGood(r), NEW d, NEW q \in DeviceFound(r, d)
  PROVE  BdGood(q) /\ SameRequests(q, r)
<1>1. CASE ~Reports(r, d)
  BY <1>1 DEF DeviceFound, SameRequests
<1>2. CASE Reports(r, d)
  <2> DEFINE a == [r EXCEPT !.found = @ \cup {d}]
  <2>1. SameMode(a, r) /\ SameAgent(a, r) /\ SameRequests(a, r)
    BY DEF BdGood, BdMode, BdFields, SameMode, SameAgent, SameRequests
  <2>2. q \in SlotReactions(a)
    BY <1>2 DEF DeviceFound
  <2> HIDE DEF a
  <2>3. BdGood(a)
    BY <2>1, SameBd
  <2>4. \/ q = a
        \/ q = AgentStop(a)
        \/ "restartInSlot" \in a.scenario.may /\ q = AgentStart(AgentStop(a), TRUE)
    BY <2>2 DEF SlotReactions
  <2> DEFINE z == AgentStop(a)
  <2>5. BdGood(z) /\ SameRequests(z, a) /\ ~z.active
    BY <2>3, AgentStopGood
  <2>6. CASE q = a
    BY <2>1, <2>3, <2>6
  <2>7. CASE q = z
    BY <2>1, <2>5, <2>7 DEF SameRequests
  <2>8. CASE "restartInSlot" \in a.scenario.may /\ q = AgentStart(z, TRUE)
    <3> HIDE DEF z
    <3>1. Quick(z)
      BY <2>3, <2>5, <2>8 DEF RestartsAreHasty, BdGood, BdMode, Quick, SameRequests
    <3>2. BdGood(q) /\ SameRequests(q, z)
      BY <2>5, <2>8, <3>1, AgentStartGood DEF SettledOrQuick
    <3> QED
      BY <2>1, <2>5, <3>2 DEF SameRequests
  <2> QED
    BY <2>4, <2>6, <2>7, <2>8
<1> QED
  BY <1>1, <1>2

LEMMA StopPairingDiscoveryGood ==
  ASSUME NEW r, BdGood(r)
  PROVE  LET q == StopPairingDiscovery(r)
         IN  /\ BdGood(q) /\ SameAgent(q, r) /\ ~q.pairTimer /\ q.scenario = r.scenario
             /\ q.calls = r.calls /\ q.asked = r.asked /\ q.waiting = r.waiting
             /\ q.status = r.status
             /\ ~r.pairTimer => q = r
<1>1. CASE ~r.pairTimer
  BY <1>1 DEF StopPairingDiscovery, SameAgent
<1>2. CASE r.pairTimer
  <2> DEFINE a == [r EXCEPT !.pairTimer = FALSE]
             u == UnregisterInterest(a)
  <2>1. /\ SameMode(a, r) /\ SameAgent(a, r) /\ a.pairTimer = FALSE
        /\ a.calls = r.calls /\ a.asked = r.asked /\ a.waiting = r.waiting
        /\ a.status = r.status
    BY DEF BdGood, BdMode, BdFields, SameMode, SameAgent
  <2> HIDE DEF a
  <2>2. BdMode(a) /\ a.refs > 0
    BY <1>2, <2>1, SameBd DEF BdGood, BdUses, SameMode
  <2>3. BdMode(u) /\ u.refs = a.refs - 1 /\ SameAgent(u, a) /\ SameRequests(u, a)
    BY <2>2, UnregisterKeeps
  <2>4. StopPairingDiscovery(r) = u
    BY <1>2 DEF StopPairingDiscovery, u, a
  <2>8. u.status = a.status
    BY <2>2 DEF UnregisterInterest, BdMode, BdFields
  <2> HIDE DEF u
  <2>5. /\ SameAgent(u, r) /\ u.pairTimer = FALSE /\ u.scenario = r.scenario
        /\ u.calls = r.calls /\ u.asked = r.asked /\ u.waiting = r.waiting
        /\ u.refs = r.refs - 1
    BY <2>1, <2>3 DEF SameMode, SameAgent, SameRequests
  <2>6. BdUses(u)
    BY <1>2, <2>5 DEF BdGood, BdUses, BdMode, SameAgent
  <2>7. BdRequests(u)
    BY <2>5 DEF BdGood, BdRequests, Overtaken, SameAgent
  <2> QED
    BY <1>2, <2>1, <2>3, <2>4, <2>5, <2>6, <2>7, <2>8 DEF BdGood
<1> QED
  BY <1>1, <1>2

\* The requests change, the mode and the search do not.
LEMMA OtherRequestsGood ==
  ASSUME NEW r, BdGood(r), NEW s, SameMode(s, r), SameAgent(s, r),
         s.pairTimer = r.pairTimer, BdRequests(s)
  PROVE  BdGood(s)
<1>1. BdUses(s)
  BY DEF BdGood, BdUses, SameMode, SameAgent
<1> QED
  BY <1>1, SameBd DEF BdGood

LEMMA CallGood ==
  ASSUME NEW r, BdGood(r), ~r.pairTimer, r.asked >= 1, r.waiting \/ Overtaken(r, 3),
         r.calls # {} => Overtaken(r, 3), NEW op, NEW d
  PROVE  BdGood(Call(r, op, d))
<1> DEFINE c == [op |-> op, dev |-> d, state |-> "sent", id |-> r.asked]
           s == Call(r, op, d)
<1>1. /\ SameMode(s, r) /\ SameAgent(s, r) /\ s.pairTimer = r.pairTimer
      /\ s.asked = r.asked /\ s.waiting = r.waiting /\ s.calls = r.calls \cup {c}
  BY DEF Call, BdGood, BdMode, BdFields, SameMode, SameAgent
<1> HIDE DEF s, c
<1>2. Overtaken(r, 3) => Overtaken(s, 3) /\ Overtaken(s, 2)
  BY <1>1 DEF Overtaken, SameMode, BdGood, BdRequests
<1>3. BdRequests(s)
  BY <1>1, <1>2 DEF BdGood, BdRequests
<1> QED
  BY <1>1, <1>3, OtherRequestsGood DEF s

\* An answer to the application.
LEMMA AnswerGood ==
  ASSUME NEW r, BdGood(r), NEW s, SameMode(s, r), SameAgent(s, r),
         s.pairTimer = r.pairTimer, s.calls = r.calls, s.asked = r.asked,
         s.waiting = FALSE, r.calls # {} \/ r.pairTimer => Overtaken(r, 3)
  PROVE  BdGood(s)
<1>1. Overtaken(r, 3) => Overtaken(s, 3) /\ Overtaken(s, 2)
  BY DEF Overtaken, SameMode, BdGood, BdRequests
<1>2. BdRequests(s)
  BY <1>1 DEF BdGood, BdRequests
<1> QED
  BY <1>2, OtherRequestsGood

LEMMA ProcessPairingGood ==
  ASSUME NEW r, BdGood(r), r.asked >= 1, r.waiting \/ Overtaken(r, 3),
         r.calls # {} => Overtaken(r, 3), NEW d, NEW p
  PROVE  BdGood(ProcessPairing(r, d, p))
<1> DEFINE a == StopPairingDiscovery(r)
<1>1. /\ BdGood(a) /\ SameAgent(a, r) /\ ~a.pairTimer /\ a.scenario = r.scenario
      /\ a.calls = r.calls /\ a.asked = r.asked /\ a.waiting = r.waiting
  BY StopPairingDiscoveryGood
<1> DEFINE out == ProcessPairing(r, d, p)
           t == [a EXCEPT !.target = "none"]
           u == [a EXCEPT !.target = d, !.pairing = p]
           v == [a EXCEPT !.target = "none", !.pairing = p, !.status[d] = p]
           w == [v EXCEPT !.waiting = FALSE, !.told = <<d, p, v.asked>>]
<1>2. out = Call(t, "remove", d) \/ out = Call(u, "pair", d) \/ out = w
  BY DEF ProcessPairing, PairingAnswer
<1> HIDE DEF a, out
<1>3. /\ SameMode(t, a) /\ SameAgent(t, a) /\ SameRequests(t, a)
      /\ SameMode(u, a) /\ SameAgent(u, a) /\ SameRequests(u, a)
  <2>1. SameMode(t, a) /\ SameAgent(t, a) /\ SameRequests(t, a)
    BY <1>1 DEF BdGood, BdMode, BdFields, SameMode, SameAgent, SameRequests
  <2>2. SameMode(u, a) /\ SameAgent(u, a) /\ SameRequests(u, a)
    BY <1>1 DEF BdGood, BdMode, BdFields, SameMode, SameAgent, SameRequests
  <2> QED
    BY <2>1, <2>2
<1>4. /\ SameMode(w, a) /\ SameAgent(w, a) /\ w.pairTimer = a.pairTimer
      /\ w.calls = a.calls /\ w.asked = a.asked /\ w.waiting = FALSE
  BY <1>1 DEF BdGood, BdMode, BdFields, SameMode, SameAgent
<1> HIDE DEF t, u, w
<1>5. Overtaken(r, 3) => Overtaken(a, 3)
  BY <1>1 DEF Overtaken
<1>6. CASE out = w
  BY <1>1, <1>4, <1>5, <1>6, AnswerGood DEF out
<1>7. ASSUME NEW x \in {t, u}, NEW op, out = Call(x, op, d)
      PROVE  BdGood(out)
  <2>1. SameMode(x, a) /\ SameAgent(x, a) /\ SameRequests(x, a)
    BY <1>3
  <2>2. /\ ~x.pairTimer /\ x.asked >= 1 /\ (x.waiting \/ Overtaken(x, 3))
        /\ x.calls # {} => Overtaken(x, 3)
    BY <1>1, <1>5, <2>1 DEF SameRequests, Overtaken
  <2>3. BdGood(x)
    BY <1>1, <2>1, SameBd
  <2> QED
    BY <1>7, <2>2, <2>3, CallGood
<1> QED
  BY <1>2, <1>6, <1>7 DEF out

\* requestPairing(), by an application that waits as BdRequestPairing says.
LEMMA BdRequestPairingInv ==
  ASSUME NothingLeaked, PulledWhenIdle, BdGood(bd), BdRequestPairing
  PROVE  BdGood(bd')
<1>1. PICK d \in BdDevices, p \in {"Unpaired", "Paired", "AuthorizedPaired"} :
    /\ bd.waiting =>
         IF StatusOf(bd, d) # p THEN bd.pairTimer /\ BdMay("supersede")
         ELSE IF bd.pairTimer THEN BdMay("samePairing")
         ELSE bd.target = d /\ BdMay("cancel")
    /\ StatusOf(bd, d) # p /\ d \notin Known(bd) => bd.powered \/ BdMay("powerOffBusy")
    /\ bd' = RequestPairing([bd EXCEPT !.asked = @ + 1, !.waiting = TRUE], d, p)
  BY DEF BdRequestPairing
<1> DEFINE b == [bd EXCEPT !.asked = @ + 1, !.waiting = TRUE]
<1>2. /\ SameMode(b, bd) /\ SameAgent(b, bd) /\ b.pairTimer = bd.pairTimer
      /\ b.calls = bd.calls /\ b.asked = bd.asked + 1 /\ b.waiting = TRUE
      /\ b.status = bd.status /\ b.target = bd.target
  BY DEF BdGood, BdMode, BdFields, SameMode, SameAgent
<1> HIDE DEF b
<1>3. BdRequests(b)
  BY <1>2 DEF BdGood, BdRequests, Overtaken, SameMode
<1>4. BdGood(b)
  BY <1>2, <1>3, OtherRequestsGood
<1>5. /\ b.asked >= 1 /\ b.valid
      /\ bd.asked < bd.scenario.asks /\ SettledOrQuick(bd) /\ bd.asked \in Nat
      /\ bd.scenario \in BdScenarios
  <2>1. /\ bd.valid /\ bd.asked < bd.scenario.asks /\ bd.asked \in Nat
        /\ bd.scenario \in BdScenarios
    BY DEF BdRequestPairing, BdGood, BdRequests, BdMode
  <2>2. SettledOrQuick(bd)
    BY DEF BdRequestPairing, Settled, BdMay, SettledOrQuick, Quick
  <2> QED
    BY <1>2, <2>1, <2>2 DEF SameAgent
<1>6. ~Overtaken(bd, 3)
  BY <1>5 DEF NothingLeaked, Overtaken
<1>7. bd.pairTimer => bd.waiting
  BY <1>6 DEF BdGood, BdRequests
<1>8. CASE StatusOf(bd, d) = p
  <2>1. ~bd.pairTimer /\ (bd.waiting => BdMay("cancel"))
    BY <1>1, <1>5, <1>7, <1>8 DEF NothingLeaked, BdMay
  <2> DEFINE f(c) == IF c.op = "pair" /\ c.dev = b.target /\ c.state = "sent"
                       THEN [c EXCEPT !.state = "canceled"] ELSE c
             mapped == {f(c) : c \in b.calls}
             s == [[b EXCEPT !.pairTimer = FALSE, !.calls = mapped, !.target = "none"]
                     EXCEPT !.waiting = FALSE, !.told = <<d, p, b.asked>>]
  <2>2. StatusOf(b, d) = p
    BY <1>2, <1>8 DEF StatusOf
  <2>3. bd' = s
    <3>1. bd' = AlreadySo(b, d, p)
      BY <1>1, <2>2 DEF RequestPairing, b
    <3>2. AlreadySo(b, d, p) = s
      BY <1>2 DEF AlreadySo, PairingAnswer, SameMode, BdFields
    <3> QED
      BY <3>1, <3>2
  <2>4. /\ SameMode(s, b) /\ SameAgent(s, b) /\ s.pairTimer = FALSE
        /\ s.calls = mapped /\ s.asked = b.asked /\ s.waiting = FALSE
    BY <1>2 DEF SameMode, BdFields, SameAgent
  <2> HIDE DEF s
  <2>5. /\ mapped # {} => bd.calls # {}
        /\ (\A c, e \in bd.calls : c = e) => \A c, e \in mapped : c = e
    BY <1>2
  <2> HIDE DEF mapped
  <2>6. bd.calls # {} => Overtaken(s, 2)
    BY <1>2, <2>1, <2>4 DEF BdGood, BdRequests, Overtaken, SameMode, SameAgent, BdMay,
       BdRequestPairing
  <2>7. BdRequests(s)
    BY <1>2, <1>6, <2>4, <2>5, <2>6 DEF BdGood, BdRequests, SameMode
  <2>8. SameMode(s, bd) /\ SameAgent(s, bd) /\ s.pairTimer = FALSE
    BY <1>2, <2>4 DEF SameMode, SameAgent
  <2>9. BdUses(s)
    BY <2>1, <2>8 DEF BdGood, BdUses, SameMode, SameAgent
  <2>10. BdMode(s)
    BY <2>8, SameBd DEF BdGood
  <2> QED
    BY <2>3, <2>7, <2>9, <2>10 DEF BdGood
<1>9. CASE StatusOf(bd, d) # p
  <2>1. bd.pairTimer => Quick(bd)
    BY <1>1, <1>7, <1>9 DEF BdMay, Quick
  <2>2. b.calls # {} => Overtaken(b, 3)
    BY <1>1, <1>2, <1>9 DEF BdGood, BdRequests, Overtaken, SameMode, BdRequestPairing
  <2> DEFINE z == StopPairingDiscovery(b)
             a == [z EXCEPT !.target = "none"]
  <2>3. /\ BdGood(z) /\ ~z.pairTimer /\ z.calls = b.calls /\ z.asked = b.asked
        /\ z.waiting = b.waiting /\ z.status = b.status /\ z.scenario = b.scenario /\ SameAgent(z, b)
        /\ ~b.pairTimer => z = b
    BY <1>4, StopPairingDiscoveryGood
  <2> HIDE DEF z
  <2>4. SameMode(a, z) /\ SameAgent(a, z) /\ SameRequests(a, z) /\ a.status = z.status
    BY <2>3 DEF BdGood, BdMode, BdFields, SameMode, SameAgent, SameRequests
  <2>5. bd' = IF d \in Known(a) THEN ProcessPairing(a, d, p)
              ELSE [RegisterInterest(a) EXCEPT !.address = d, !.pairing = p,
                                               !.pairTimer = TRUE]
    BY <1>1, <1>2, <1>9 DEF RequestPairing, StatusOf, b, z
  <2> HIDE DEF a
  <2>6. /\ BdGood(a) /\ a.asked >= 1 /\ a.waiting = TRUE /\ a.calls = b.calls
        /\ a.pairTimer = z.pairTimer /\ a.valid = b.valid
        /\ a.calls # {} => Overtaken(a, 3)
    BY <1>2, <1>5, <2>2, <2>3, <2>4, SameBd DEF SameRequests, SameMode, SameAgent, Overtaken
  <2>7. CASE d \in Known(a)
    BY <2>5, <2>6, <2>7, ProcessPairingGood
  <2>8. CASE d \notin Known(a)
    <3>0. bd.powered /\ a.powered
      <4>1. d \notin Known(bd)
        BY <1>2, <2>3, <2>4, <2>8 DEF Known
      <4> QED
        BY <1>1, <1>2, <1>5, <1>9, <2>3, <2>4, <4>1 DEF PulledWhenIdle, BdMay, SameAgent
    <3>1. SettledOrQuick(a)
      <4>1. CASE bd.pairTimer
        BY <1>2, <2>1, <2>3, <2>4, <4>1 DEF SettledOrQuick, Quick, SameMode
      <4>2. CASE ~bd.pairTimer
        BY <1>2, <1>5, <2>3, <2>4, <4>2 DEF SettledOrQuick, Quick, SameMode
      <4> QED
        BY <4>1, <4>2
    <3> DEFINE g == RegisterInterest(a)
               s == [g EXCEPT !.address = d, !.pairing = p, !.pairTimer = TRUE]
    <3>2. BdMode(g) /\ g.refs = a.refs + 1 /\ SameAgent(g, a) /\ SameRequests(g, a)
      BY <2>6, <3>0, <3>1, RegisterKeeps DEF BdGood
    <3> HIDE DEF g
    <3>3. /\ SameMode(s, g) /\ SameAgent(s, g) /\ s.pairTimer = TRUE
          /\ s.calls = g.calls /\ s.asked = g.asked /\ s.waiting = g.waiting
      BY <3>2 DEF BdMode, BdFields, SameMode, SameAgent
    <3>4. bd' = s
      BY <2>5, <2>8 DEF g
    <3> HIDE DEF s
    <3>5. /\ s.scenario = a.scenario /\ s.refs = a.refs + 1 /\ s.calls = a.calls
          /\ s.asked = a.asked /\ s.waiting = TRUE /\ SameAgent(s, a)
      BY <2>6, <3>2, <3>3 DEF SameMode, SameAgent, SameRequests
    <3>6. BdMode(s)
      BY <3>2, <3>3, SameBd
    <3>7. BdUses(s)
      BY <1>5, <2>3, <2>6, <3>0, <3>3, <3>5 DEF BdGood, BdUses, BdMode, SameAgent
    <3>8. BdRequests(s)
      BY <2>6, <3>3, <3>5 DEF BdGood, BdRequests, Overtaken
    <3> QED
      BY <3>4, <3>6, <3>7, <3>8 DEF BdGood
  <2> QED
    BY <2>7, <2>8
<1> QED
  BY <1>8, <1>9

\* Steps of the event loop for the agent, for the pairing, and of BlueZ.
LEMMA BdAgentInv ==
  ASSUME RestartsAreHasty, BdGood(bd), BdStart \/ BdStop \/ BdLoop \/ BdTimeout
  PROVE  BdGood(bd')
<1>1. CASE BdStart
  <2>1. SettledOrQuick(bd) /\ ~bd.active
    BY <1>1 DEF BdStart, Settled, BdMay, SettledOrQuick, Quick
  <2> QED
    BY <1>1, <2>1, AgentStartGood DEF BdStart
<1>2. CASE BdStop
  BY <1>2, AgentStopGood DEF BdStop
<1>3. CASE BdLoop
  <2> DEFINE out == [bd EXCEPT !.frames = Tail(@)]
             t == [out EXCEPT !.timer = "noTimeout" \notin out.scenario.may]
  <2>1. SameMode(out, bd) /\ SameAgent(out, bd) /\ SameRequests(out, bd)
    BY DEF BdGood, BdMode, BdFields, SameMode, SameAgent, SameRequests
  <2>2. CASE bd' = out
    BY <2>1, <2>2, SameBd
  <2>3. CASE bd.active /\ bd' = StartTimer(out)
    <3>1. /\ SameMode(t, bd) /\ SameRequests(t, bd) /\ t.present = bd.present
          /\ t.active = bd.active /\ t.powered = bd.powered
      BY DEF BdGood, BdMode, BdFields, SameMode, SameRequests
    <3>2. bd' = t
      BY <2>3 DEF StartTimer
    <3> HIDE DEF t
    <3>3. BdUses(t)
      BY <2>3, <3>1 DEF BdGood, BdUses, SameMode, SameRequests
    <3> QED
      BY <3>1, <3>2, <3>3, SameBd DEF BdGood
  <2>4. ASSUME NEW d \in Head(bd.frames),
               bd' \in DeviceFound([bd EXCEPT !.frames[1] = Head(bd.frames) \ {d}], d)
        PROVE  BdGood(bd')
    <3> DEFINE r == [bd EXCEPT !.frames[1] = Head(bd.frames) \ {d}]
    <3>1. SameMode(r, bd) /\ SameAgent(r, bd) /\ SameRequests(r, bd)
      BY DEF BdGood, BdMode, BdFields, SameMode, SameAgent, SameRequests
    <3> HIDE DEF r
    <3>2. BdGood(r)
      BY <3>1, SameBd
    <3> QED
      BY <2>4, <3>2, DeviceFoundGood DEF r
  <2>5. \/ bd' = out
        \/ bd.active /\ bd' = StartTimer(out)
        \/ \E d \in Head(bd.frames) :
             bd' \in DeviceFound([bd EXCEPT !.frames[1] = Head(bd.frames) \ {d}], d)
    BY <1>3 DEF BdLoop
  <2> QED
    BY <2>2, <2>3, <2>4, <2>5
<1>4. CASE BdTimeout
  <2>1. bd.active
    BY <1>4 DEF BdTimeout, BdGood, BdUses
  <2> QED
    BY <1>4, <2>1, AgentFinishedGood DEF BdTimeout
<1> QED
  BY <1>1, <1>2, <1>3, <1>4

LEMMA BdAddedInv ==
  ASSUME RestartsAreHasty, BdGood(bd), BdAdded
  PROVE  BdGood(bd')
<1>0. PICK d \in bd.added : \E r \in DeviceFound([bd EXCEPT !.added = @ \ {d}], d) :
    bd' = r \/ (r.pairTimer /\ bd' = ProcessPairing(r, d, r.pairing))
  BY DEF BdAdded
<1> DEFINE a == [bd EXCEPT !.added = @ \ {d}]
<1>1. PICK r \in DeviceFound(a, d) :
    bd' = r \/ (r.pairTimer /\ bd' = ProcessPairing(r, d, r.pairing))
  BY <1>0
<1>2. SameMode(a, bd) /\ SameAgent(a, bd) /\ SameRequests(a, bd)
  BY DEF BdGood, BdMode, BdFields, SameMode, SameAgent, SameRequests
<1> HIDE DEF a
<1>3. BdGood(a)
  BY <1>2, SameBd
<1>4. BdGood(r)
  BY <1>1, <1>3, DeviceFoundGood
<1>5. r.pairTimer =>
        /\ r.asked >= 1
        /\ r.waiting \/ Overtaken(r, 3)
        /\ r.calls # {} => Overtaken(r, 3)
  BY <1>4 DEF BdGood, BdRequests
<1> QED
  BY <1>1, <1>4, <1>5, ProcessPairingGood

\* A reply ends what waits, at most.
LEMMA BdReplyInv ==
  ASSUME BdGood(bd), BdReply
  PROVE  BdGood(bd')
<1>1. PICK c \in bd.calls :
    LET r == [bd EXCEPT !.calls = @ \ {c}]
    IN  bd' = PairingCompleted(r, c) \/ bd' = RemoveCompleted(r, c)
  BY DEF BdReply
<1> DEFINE r == [bd EXCEPT !.calls = @ \ {c}]
<1>2. /\ SameMode(r, bd) /\ SameAgent(r, bd) /\ r.pairTimer = bd.pairTimer
      /\ r.asked = bd.asked /\ r.waiting = bd.waiting /\ r.calls = bd.calls \ {c}
  BY DEF BdGood, BdMode, BdFields, SameMode, SameAgent
<1>3. bd' = PairingCompleted(r, c) \/ bd' = RemoveCompleted(r, c)
  BY <1>1
<1> HIDE DEF r
<1>4. Overtaken(r, 3) <=> Overtaken(bd, 3)
  BY <1>2 DEF Overtaken, SameMode
<1>5. r.calls # {} \/ r.pairTimer => Overtaken(r, 3)
  BY <1>2, <1>4 DEF BdGood, BdRequests
<1>6. BdRequests(r)
  BY <1>2, <1>4, <1>5 DEF BdGood, BdRequests, Overtaken
<1>7. BdGood(r)
  BY <1>2, <1>6, OtherRequestsGood
<1>8. \/ bd' = r
      \/ /\ SameMode(bd', r) /\ SameAgent(bd', r) /\ bd'.pairTimer = r.pairTimer
         /\ bd'.calls = r.calls /\ bd'.asked = r.asked /\ bd'.waiting = FALSE
  <2>1. DOMAIN r = BdFields
    BY <1>7 DEF BdGood, BdMode
  <2>2. CASE bd' = PairingError(r)
    BY <2>1, <2>2 DEF PairingError, BdFields, SameMode, SameAgent
  <2>3. ASSUME NEW d, NEW p, bd' = PairingAnswer(r, d, p)
        PROVE  <1>8
    BY <2>1, <2>3 DEF PairingAnswer, BdFields, SameMode, SameAgent
  <2> DEFINE u == [r EXCEPT !.status[r.target] = r.pairing, !.target = "none"]
  <2>4. CASE bd' = PairingAnswer(u, r.target, r.pairing)
    BY <2>1, <2>4 DEF PairingAnswer, BdFields, SameMode, SameAgent
  <2> QED
    BY <1>3, <2>2, <2>3, <2>4 DEF PairingCompleted, RemoveCompleted
<1> QED
  BY <1>5, <1>7, <1>8, AnswerGood

LEMMA BdPairTimeoutInv ==
  ASSUME BdGood(bd), BdPairTimeout
  PROVE  BdGood(bd')
<1> DEFINE z == StopPairingDiscovery(bd)
<1>1. /\ BdGood(z) /\ SameAgent(z, bd) /\ ~z.pairTimer /\ z.scenario = bd.scenario
      /\ z.calls = bd.calls /\ z.asked = bd.asked
  BY StopPairingDiscoveryGood
<1>2. bd' = PairingError(z)
  BY DEF BdPairTimeout, StopPairingDiscovery
<1> HIDE DEF z
<1>3. /\ SameMode(bd', z) /\ SameAgent(bd', z) /\ bd'.pairTimer = z.pairTimer
      /\ bd'.calls = z.calls /\ bd'.asked = z.asked /\ bd'.waiting = FALSE
  BY <1>1, <1>2 DEF PairingError, BdGood, BdMode, BdFields, SameMode, SameAgent
<1>4. z.calls # {} \/ z.pairTimer => Overtaken(z, 3)
  BY <1>1 DEF BdPairTimeout, BdGood, BdRequests, Overtaken
<1> QED
  BY <1>1, <1>3, <1>4, AnswerGood

\* The mode is switched off, by BlueZ.
LEMMA BdOffInv ==
  ASSUME BdGood(bd), BdOff
  PROVE  BdGood(bd')
<1> DEFINE a == [bd EXCEPT !.offSignal = FALSE]
<1>1. /\ DOMAIN a = BdFields /\ a.scenario = bd.scenario /\ a.refs = bd.refs
      /\ a.was = bd.was /\ a.session = bd.session /\ a.other = bd.other
      /\ a.flag = bd.flag /\ a.offSignal = FALSE
      /\ a.powered = bd.powered /\ SameAgent(a, bd) /\ SameRequests(a, bd)
  BY DEF BdGood, BdMode, BdFields, SameAgent, SameRequests
<1>2. bd' = ModeSwitchedOff(a)
  BY DEF BdOff
<1> HIDE DEF a
<1>3. /\ DOMAIN bd' = BdFields /\ bd'.scenario = bd.scenario /\ bd'.refs = bd.refs
      /\ bd'.was = bd.was /\ bd'.other = bd.other
      /\ bd'.flag = bd.flag /\ bd'.offSignal = FALSE
      /\ bd'.session = (IF bd.refs > 0 /\ bd.powered THEN TRUE ELSE bd.session)
      /\ SameAgent(bd', bd) /\ SameRequests(bd', bd)
  BY <1>1, <1>2 DEF ModeSwitchedOff, BdFields, SameAgent, SameRequests
<1>7. bd.refs > 0 => bd.powered
  BY DEF BdGood, BdUses
<1>4. BdMode(bd')
  BY <1>3, <1>7 DEF BdOff, BdGood, BdMode, Quick
<1>5. BdUses(bd')
  BY <1>3 DEF BdGood, BdUses, SameAgent, SameRequests
<1>6. BdRequests(bd')
  BY <1>3, SameBd DEF BdGood
<1> QED
  BY <1>4, <1>5, <1>6 DEF BdGood

LEMMA BdRemovedInv ==
  ASSUME PulledWhenIdle, BdGood(bd), BdRemoved
  PROVE  BdGood(bd')
<1> DEFINE f(c) == [c EXCEPT !.state = "failed"]
           gone == [bd EXCEPT !.present = FALSE, !.flag = FALSE, !.session = FALSE,
                              !.other = FALSE, !.valid = FALSE,
                              !.target = "none", !.refs = 0,
                              !.status = [d \in BdDevices |-> "absent"],
                              !.calls = {f(c) : c \in bd.calls}]
           end == [[gone EXCEPT !.timer = FALSE, !.active = FALSE] EXCEPT !.ends = @ + 1]
<1>0. ~bd.pairTimer
  BY DEF BdRemoved, BdMay, PulledWhenIdle, BdGood, BdMode
<1>1. bd.active <=> bd.refs > 0
  BY <1>0 DEF BdGood, BdUses
<1>2. (bd' = gone /\ ~bd.active) \/ bd' = end
  <2>1. bd' = IF bd.refs > 0 THEN AgentInterrupted(gone) ELSE gone
    BY DEF BdRemoved
  <2>2. gone.active = bd.active
    BY DEF BdGood, BdMode, BdFields
  <2> QED
    BY <1>1, <2>1, <2>2 DEF AgentInterrupted, AgentEnds
<1> DEFINE Gone(x) ==
             /\ DOMAIN x = BdFields /\ x.scenario = bd.scenario /\ x.refs = 0
             /\ x.session = FALSE /\ x.other = FALSE
             /\ x.present = FALSE /\ x.valid = FALSE /\ x.pairTimer = bd.pairTimer
             /\ x.asked = bd.asked /\ x.calls = {f(c) : c \in bd.calls}
<1>3. Gone(gone) /\ Gone(end)
  <2>1. Gone(gone)
    BY DEF BdGood, BdMode, BdFields
  <2>2. Gone(end)
    BY DEF BdGood, BdMode, BdFields
  <2> QED
    BY <2>1, <2>2
<1>4. /\ gone.active = bd.active /\ gone.timer = bd.timer
      /\ end.active = FALSE /\ end.timer = FALSE
  BY DEF BdGood, BdMode, BdFields
<1>5. /\ {f(c) : c \in bd.calls} # {} => bd.calls # {}
      /\ (\A c, e \in bd.calls : c = e) => \A c, e \in {f(c) : c \in bd.calls} : c = e
  OBVIOUS
<1> HIDE DEF gone, end, f
<1>6. /\ DOMAIN bd' = BdFields /\ bd'.scenario = bd.scenario /\ bd'.refs = 0
      /\ bd'.session = FALSE /\ bd'.other = FALSE /\ bd'.present = FALSE
      /\ bd'.valid = FALSE /\ ~bd'.pairTimer /\ ~bd'.active /\ ~bd'.timer
      /\ bd'.asked = bd.asked /\ bd'.calls = {f(c) : c \in bd.calls}
  BY <1>0, <1>2, <1>3, <1>4 DEF BdGood, BdUses
<1>7. BdMode(bd')
  BY <1>6 DEF BdGood, BdMode
<1>8. BdUses(bd')
  BY <1>6 DEF BdUses
<1>9. BdRequests(bd')
  BY <1>5, <1>6 DEF BdGood, BdRequests, Overtaken
<1> QED
  BY <1>7, <1>8, <1>9 DEF BdGood

LEMMA BdBluezInv ==
  ASSUME PulledWhenIdle, BdGood(bd), BdAppears \/ BdFlag \/ BdBluezActs \/ BdOtherStops \/ BdPowerOff
  PROVE  BdGood(bd')
<1>1. CASE BdAppears
  <2>1. PICK d \in BdDevices \ Known(bd) :
          bd' = [bd EXCEPT !.status[d] = "Unpaired", !.added = @ \cup {d}]
    BY <1>1 DEF BdAppears
  <2>2. DOMAIN bd' = BdFields
    BY <2>1 DEF BdGood, BdMode
  <2>3. SameMode(bd', bd) /\ SameAgent(bd', bd) /\ SameRequests(bd', bd)
    BY <2>1, <2>2 DEF BdGood, BdMode, BdFields, SameMode, SameAgent, SameRequests
  <2> QED
    BY <2>3, SameBd
<1>2. CASE BdFlag
  <2>1. bd' = [bd EXCEPT !.flag = ~@, !.offSignal = bd.flag]
    BY <1>2 DEF BdFlag
  <2>2. /\ DOMAIN bd' = BdFields /\ bd'.scenario = bd.scenario /\ bd'.refs = bd.refs
        /\ bd'.was = bd.was /\ bd'.session = bd.session /\ bd'.other = bd.other
        /\ bd'.offSignal = bd.flag
        /\ SameAgent(bd', bd) /\ SameRequests(bd', bd)
    BY <2>1 DEF BdGood, BdMode, BdFields, SameAgent, SameRequests
  <2>3. bd'.flag <=> ~bd.flag
    BY <2>1 DEF BdGood, BdMode, BdFields
  <2>4. bd.flag => ~bd.session /\ ~bd.other
    BY <1>2, Zenon DEF BdFlag, BdGood, BdMode
  <2>5. BdMode(bd')
    BY <2>2, <2>3, <2>4 DEF BdGood, BdMode, Quick
  <2>6. BdUses(bd')
    BY <2>2 DEF BdGood, BdUses, SameAgent, SameRequests
  <2> QED
    BY <2>2, <2>5, <2>6, SameBd DEF BdGood
<1>3. CASE BdBluezActs
  <2> PICK c \in bd.calls, ok \in BOOLEAN :
      bd' = [bd EXCEPT
        !.calls = (@ \ {c}) \cup {[c EXCEPT !.state = IF ok THEN "ok" ELSE "failed"]},
        !.status[c.dev] = IF ~ok THEN @ ELSE IF c.op = "pair" THEN "Paired" ELSE "absent"]
    BY <1>3 DEF BdBluezActs
  <2> DEFINE e == [c EXCEPT !.state = IF ok THEN "ok" ELSE "failed"]
             status == IF ~ok THEN bd.status[c.dev]
                       ELSE IF c.op = "pair" THEN "Paired" ELSE "absent"
  <2>0. bd' = [bd EXCEPT !.calls = (@ \ {c}) \cup {e}, !.status[c.dev] = status]
    OBVIOUS
  <2> HIDE DEF e, status
  <2>1. /\ SameMode(bd', bd) /\ SameAgent(bd', bd) /\ bd'.pairTimer = bd.pairTimer
        /\ bd'.asked = bd.asked /\ bd'.waiting = bd.waiting
        /\ bd'.calls = (bd.calls \ {c}) \cup {e}
    <3>1. DOMAIN bd' = BdFields
      BY <2>0 DEF BdGood, BdMode
    <3>2. bd'.calls = (bd.calls \ {c}) \cup {e}
      BY <2>0 DEF BdGood, BdMode, BdFields
    <3> QED
      BY <2>0, <3>1, <3>2 DEF BdFields, SameMode, SameAgent
  <2>2. BdRequests(bd')
    BY <2>1 DEF BdGood, BdRequests, Overtaken, SameMode, SameAgent
  <2> QED
    BY <2>1, <2>2, OtherRequestsGood
<1>4. CASE BdOtherStops
  <2>1. /\ DOMAIN bd' = BdFields /\ bd'.scenario = bd.scenario /\ bd'.refs = bd.refs
        /\ bd'.was = bd.was /\ bd'.session = bd.session /\ bd'.other = FALSE
        /\ bd'.flag = bd.flag /\ bd'.offSignal = bd.offSignal
        /\ SameAgent(bd', bd) /\ SameRequests(bd', bd) /\ bd.other
    BY <1>4 DEF BdOtherStops, BdGood, BdMode, BdFields, SameAgent, SameRequests
  <2>2. Quick(bd')
    BY <1>4, <2>1 DEF BdOtherStops, BdMay, Quick
  <2>3. BdMode(bd')
    BY <2>1, <2>2 DEF BdGood, BdMode
  <2>4. BdUses(bd')
    BY <2>1 DEF BdGood, BdUses, SameAgent, SameRequests
  <2> QED
    BY <2>1, <2>3, <2>4, SameBd DEF BdGood
<1>5. CASE BdPowerOff
  <2>1. /\ DOMAIN bd' = BdFields /\ bd'.scenario = bd.scenario /\ bd'.refs = bd.refs
        /\ bd'.was = bd.was /\ bd'.session = FALSE /\ bd'.other = FALSE
        /\ bd'.flag = bd.flag /\ bd'.offSignal = bd.offSignal /\ bd'.powered = FALSE
        /\ bd'.present = bd.present /\ bd'.valid = bd.valid
        /\ bd'.active = bd.active /\ bd'.timer = bd.timer /\ SameRequests(bd', bd)
    BY <1>5 DEF BdPowerOff, BdGood, BdMode, BdFields, SameRequests
  <2>2. bd.refs = 0
    BY <1>5 DEF BdPowerOff, BdMay, PulledWhenIdle, BdGood, BdMode
  <2>3. BdMode(bd')
    BY <2>1, <2>2 DEF BdGood, BdMode, Quick
  <2>4. BdUses(bd')
    BY <2>1, <2>2 DEF BdGood, BdUses, SameRequests
  <2> QED
    BY <2>1, <2>3, <2>4, SameBd DEF BdGood
<1> QED
  BY <1>1, <1>2, <1>3, <1>4, <1>5

LEMMA BdNextInv ==
  ASSUME NothingLeaked, RestartsAreHasty, PulledWhenIdle, BdGood(bd), [BdNext]_bd
  PROVE  BdGood(bd')
<1>1. CASE UNCHANGED bd
  BY <1>1
<1> QED
  BY <1>1, BdAgentInv, BdAddedInv, BdRequestPairingInv, BdPairTimeoutInv, BdReplyInv,
     BdOffInv, BdRemovedInv, BdBluezInv DEF BdNext

LEMMA BdPromise == BdGood(bd) => BdInterestHeld /\ BdSwitchedOff /\ BdServed
BY DEF BdGood, BdMode, BdUses, Quick, BdInterestHeld, BdSwitchedOff, BdScanSwitchedOff,
   BdServed

-------------------------------------------------------------------------------
(* BluezLocalDevice: what the program will know once it has handled the      *)
(* signals that are on their way.                                            *)

\* Devices connect when they are watched, and are not removed before the program
\* has read the address of one that has just connected.
NothingQuick ==
  \A s \in BlScenarios : {"quickConnect", "quickRemoval"} \cap s.may = {}

BlFields ==
  {"scenario", "valid", "powered", "discoverable", "orders", "events", "pendingMode",
   "current", "wanted", "asked", "changes", "real", "monitors", "connected"}
BlSignals ==
  {<<"adapter">>, <<"adapterRemoved", "none">>}
    \cup ({"added", "device"} \X BlDevices \X BOOLEAN) \cup ({"removed"} \X BlDevices)
BlOrders == {"Powered", "Discoverable"} \X BOOLEAN

\* A signal about the device d; the last one in the queue q.
About(e, d) == e[1] \in {"added", "device", "removed"} /\ e[2] = d
LastAbout(q, d, i) ==
  /\ i \in 1..Len(q) /\ About(q[i], d)
  /\ \A j \in 1..Len(q) : j > i => ~About(q[j], d)

\* The device is watched before the i-th signal of the queue is handled exactly if
\* i is in W: it appears and disappears in turn, changes in between, and ends as it
\* is in the state s that BlueZ has of it.
WatchedAt(q, s, monitors, d, W) ==
  /\ 1 \in W <=> d \in monitors
  /\ Len(q) + 1 \in W <=> s # "absent"
  /\ \A i \in 1..Len(q) :
       /\ ~About(q[i], d) => (i + 1 \in W <=> i \in W)
       /\ About(q[i], d) => (i \in W <=> q[i][1] # "added")
       /\ About(q[i], d) => (i + 1 \in W <=> q[i][1] # "removed")

\* The last signal about a device tells what it is; without one the program knows.
Picture(q, s, monitors, connected, d) ==
  /\ \E W \in SUBSET Nat : WatchedAt(q, s, monitors, d, W)
  /\ d \in connected => d \in monitors
  /\ \A i \in 1..Len(q) : LastAbout(q, d, i) =>
       /\ s = "absent" <=> q[i][1] = "removed"
       /\ q[i][1] # "removed" => (q[i][3] <=> s = "connected")
  /\ (\A i \in 1..Len(q) : ~About(q[i], d)) =>
       /\ d \in monitors <=> s # "absent"
       /\ d \in connected <=> s = "connected"
  /\ \A i \in 1..Len(q) : q[i] = <<"device", d, TRUE>> => s # "absent"

LEMMA SignalParts ==
  ASSUME NEW e \in BlSignals
  PROVE  /\ e[1] = "adapter" => e = <<"adapter">>
         /\ e[1] \in {"added", "device"} =>
              e[2] \in BlDevices /\ e[3] \in BOOLEAN /\ e = <<e[1], e[2], e[3]>>
         /\ e[1] = "removed" => e[2] \in BlDevices
         /\ e[1] \in {"adapter", "adapterRemoved", "added", "device", "removed"}
BY DEF BlSignals

\* A signal is handled: m and c are what the program then watches, and calls
\* connected.
LEMMA PictureTail ==
  ASSUME NEW q \in Seq(BlSignals), q # <<>>, NEW s, NEW d, NEW monitors, NEW connected,
         NEW m, NEW c, Picture(q, s, monitors, connected, d),
         ~About(q[1], d) =>
           (d \in m <=> d \in monitors) /\ (d \in c <=> d \in connected),
         About(q[1], d) => (d \in m <=> q[1][1] # "removed"),
         About(q[1], d) /\ (q[1][1] # "device" \/ s # "absent") =>
           (d \in c <=> q[1][1] # "removed" /\ q[1][3]),
         d \in c => d \in m
  PROVE  Picture(Tail(q), s, m, c, d)
<1> DEFINE t == Tail(q)
<1>1. /\ Len(q) \in Nat /\ Len(q) > 0 /\ Len(t) = Len(q) - 1
      /\ \A i \in 1..Len(t) : t[i] = q[i + 1] /\ i + 1 \in 1..Len(q)
      /\ \A i \in 1..Len(q) : i # 1 => i - 1 \in 1..Len(t) /\ t[i - 1] = q[i]
  OBVIOUS
<1> HIDE DEF t
<1>2. \E W \in SUBSET Nat : WatchedAt(t, s, m, d, W)
  <2>1. PICK W \in SUBSET Nat : WatchedAt(q, s, monitors, d, W)
    BY DEF Picture
  <2> DEFINE V == {i \in Nat : i + 1 \in W}
  <2>2. \A i \in Nat : i \in V <=> i + 1 \in W
    OBVIOUS
  <2> HIDE DEF V
  <2>3. 1 \in V <=> d \in m
    BY <1>1, <2>1, <2>2 DEF WatchedAt
  <2>4. Len(t) + 1 \in V <=> s # "absent"
    <3>1. Len(t) + 1 = Len(q) /\ Len(q) \in Nat
      BY <1>1
    <3>2. Len(q) \in V <=> Len(q) + 1 \in W
      BY <2>2, <3>1
    <3> QED
      BY <2>1, <3>1, <3>2 DEF WatchedAt
  <2>5. \A i \in 1..Len(t) :
          /\ ~About(t[i], d) => (i + 1 \in V <=> i \in V)
          /\ About(t[i], d) => (i \in V <=> t[i][1] # "added")
          /\ About(t[i], d) => (i + 1 \in V <=> t[i][1] # "removed")
    <3> TAKE i \in 1..Len(t)
    <3>1. /\ i \in Nat /\ i + 1 \in Nat /\ i + 1 \in 1..Len(q) /\ t[i] = q[i + 1]
      BY <1>1
    <3>2. (i \in V <=> i + 1 \in W) /\ (i + 1 \in V <=> (i + 1) + 1 \in W)
      BY <2>2, <3>1
    <3>3. /\ ~About(q[i + 1], d) => ((i + 1) + 1 \in W <=> i + 1 \in W)
          /\ About(q[i + 1], d) => (i + 1 \in W <=> q[i + 1][1] # "added")
          /\ About(q[i + 1], d) => ((i + 1) + 1 \in W <=> q[i + 1][1] # "removed")
      BY <2>1, <3>1 DEF WatchedAt
    <3> QED
      BY <3>1, <3>2, <3>3
  <2>6. V \in SUBSET Nat
    BY DEF V
  <2> QED
    BY <2>3, <2>4, <2>5, <2>6 DEF WatchedAt
<1>3. ASSUME NEW i \in 1..Len(t), LastAbout(t, d, i)
      PROVE  /\ s = "absent" <=> t[i][1] = "removed"
             /\ t[i][1] # "removed" => (t[i][3] <=> s = "connected")
  <2>1. LastAbout(q, d, i + 1)
    BY <1>1, <1>3 DEF LastAbout
  <2> QED
    BY <1>1, <2>1 DEF Picture
<1>4. ASSUME \A i \in 1..Len(t) : ~About(t[i], d)
      PROVE  /\ d \in m <=> s # "absent"
             /\ d \in c <=> s = "connected"
  <2>1. \A i \in 1..Len(q) : i # 1 => ~About(q[i], d)
    BY <1>1, <1>4
  <2>2. CASE About(q[1], d)
    <3>1. LastAbout(q, d, 1)
      BY <1>1, <2>1, <2>2 DEF LastAbout
    <3>2. /\ s = "absent" <=> q[1][1] = "removed"
          /\ q[1][1] # "removed" => (q[1][3] <=> s = "connected")
      BY <1>1, <3>1 DEF Picture
    <3> QED
      BY <2>2, <3>2
  <2>3. CASE ~About(q[1], d)
    <3>1. \A i \in 1..Len(q) : ~About(q[i], d)
      BY <2>1, <2>3
    <3> QED
      BY <2>3, <3>1 DEF Picture
  <2> QED
    BY <2>2, <2>3
<1>5. \A i \in 1..Len(t) : t[i] = <<"device", d, TRUE>> => s # "absent"
  BY <1>1 DEF Picture
<1>6. d \in c => d \in m
  OBVIOUS
<1>7. Picture(t, s, m, c, d)
  BY <1>2, <1>3, <1>4, <1>5, <1>6 DEF Picture
<1> QED
  BY <1>7 DEF t

\* A signal is sent, about another device or the adapter; about this one.
LEMMA PictureAppend ==
  ASSUME NEW q \in Seq(BlSignals), NEW e \in BlSignals, NEW s, NEW new, NEW d,
         NEW monitors, NEW connected, Picture(q, s, monitors, connected, d),
         ~About(e, d) => new = s,
         About(e, d) =>
           /\ s = "absent" <=> e[1] = "added"
           /\ new = "absent" <=> e[1] = "removed"
           /\ e[1] # "removed" => (e[3] <=> new = "connected"),
         new = "absent" => \A i \in 1..Len(q) : q[i] # <<"device", d, TRUE>>
  PROVE  Picture(Append(q, e), new, monitors, connected, d)
<1> DEFINE t == Append(q, e)
           n == Len(q)
<1>1. /\ n \in Nat /\ Len(t) = n + 1 /\ t[n + 1] = e
      /\ \A i \in 1..n : t[i] = q[i]
      /\ \A i \in 1..Len(t) : i \in 1..n \/ i = n + 1
  OBVIOUS
<1> HIDE DEF t, n
<1>2. \E W \in SUBSET Nat : WatchedAt(t, new, monitors, d, W)
  <2>1. PICK W \in SUBSET Nat : WatchedAt(q, s, monitors, d, W)
    BY DEF Picture
  <2> DEFINE V == {i \in Nat : IF i = n + 2 THEN new # "absent" ELSE i \in W}
  <2>2. /\ V \in SUBSET Nat
        /\ \A i \in 1..(n + 1) : i \in V <=> i \in W
        /\ n + 2 \in V <=> new # "absent"
    BY <1>1
  <2> HIDE DEF V
  <2>3. 1 \in V <=> d \in monitors
    BY <1>1, <2>1, <2>2 DEF WatchedAt
  <2>4. Len(t) + 1 \in V <=> new # "absent"
    BY <1>1, <2>2
  <2>5. ASSUME NEW i \in 1..n
        PROVE  /\ ~About(t[i], d) => (i + 1 \in V <=> i \in V)
               /\ About(t[i], d) => (i \in V <=> t[i][1] # "added")
               /\ About(t[i], d) => (i + 1 \in V <=> t[i][1] # "removed")
    <3>1. i \in 1..(n + 1) /\ i + 1 \in 1..(n + 1) /\ i \in 1..Len(q)
      BY <1>1 DEF n
    <3> QED
      BY <1>1, <2>1, <2>2, <3>1 DEF WatchedAt
  <2>6. n + 1 \in V <=> s # "absent"
    BY <1>1, <2>1, <2>2 DEF WatchedAt, n
  <2>7. /\ ~About(e, d) => (n + 2 \in V <=> n + 1 \in V)
        /\ About(e, d) => (n + 1 \in V <=> e[1] # "added")
        /\ About(e, d) => (n + 2 \in V <=> e[1] # "removed")
    BY <2>2, <2>6
  <2>8. \A i \in 1..Len(t) :
          /\ ~About(t[i], d) => (i + 1 \in V <=> i \in V)
          /\ About(t[i], d) => (i \in V <=> t[i][1] # "added")
          /\ About(t[i], d) => (i + 1 \in V <=> t[i][1] # "removed")
    <3> TAKE i \in 1..Len(t)
    <3>1. CASE i \in 1..n
      BY <2>5, <3>1
    <3>2. CASE i = n + 1
      <4>1. t[i] = e /\ i + 1 = n + 2
        BY <1>1, <3>2
      <4> QED
        BY <2>7, <3>2, <4>1
    <3> QED
      BY <1>1, <3>1, <3>2
  <2> QED
    BY <2>2, <2>3, <2>4, <2>8 DEF WatchedAt
<1>3. ASSUME NEW i \in 1..Len(t), LastAbout(t, d, i)
      PROVE  /\ new = "absent" <=> t[i][1] = "removed"
             /\ t[i][1] # "removed" => (t[i][3] <=> new = "connected")
  <2>1. CASE i = n + 1
    <3>1. t[i] = e
      BY <1>1, <2>1
    <3> QED
      BY <1>3, <3>1 DEF LastAbout
  <2>2. CASE i \in 1..n
    <3>1. ~About(e, d)
      BY <1>1, <1>3, <2>2 DEF LastAbout
    <3>2. LastAbout(q, d, i)
      BY <1>1, <1>3, <2>2 DEF LastAbout, n
    <3> QED
      BY <1>1, <2>2, <3>1, <3>2 DEF Picture, n
  <2> QED
    BY <1>1, <2>1, <2>2
<1>4. ASSUME \A i \in 1..Len(t) : ~About(t[i], d)
      PROVE  /\ d \in monitors <=> new # "absent"
             /\ d \in connected <=> new = "connected"
  <2>1. ~About(e, d)
    BY <1>1, <1>4
  <2>2. \A i \in 1..Len(q) : ~About(q[i], d)
    BY <1>1, <1>4 DEF n
  <2> QED
    BY <2>1, <2>2 DEF Picture
<1>5. \A i \in 1..Len(t) : t[i] = <<"device", d, TRUE>> => new # "absent"
  <2> TAKE i \in 1..Len(t)
  <2>1. CASE i \in 1..n
    BY <1>1, <2>1 DEF n
  <2>2. CASE i = n + 1
    <3>1. ASSUME e = <<"device", d, TRUE>>
          PROVE  new # "absent"
      BY <3>1 DEF About
    <3> QED
      BY <1>1, <2>2, <3>1
  <2> QED
    BY <1>1, <2>1, <2>2
<1>6. Picture(t, new, monitors, connected, d)
  BY <1>2, <1>3, <1>4, <1>5 DEF Picture
<1> QED
  BY <1>6 DEF t

BlShape(r) ==
  /\ DOMAIN r = BlFields /\ r.scenario \in BlScenarios
  /\ r.orders \in Seq(BlOrders) /\ r.events \in Seq(BlSignals)
  /\ r.real \in [BlDevices -> {"absent", "known", "connected"}]
  /\ r.pendingMode \in {"none", "Connectable", "Discoverable"}
AdapterThere(r) ==
  r.valid /\ \A i \in 1..Len(r.events) : r.events[i][1] # "adapterRemoved"
DevicesSeen(r) ==
  /\ r.connected \subseteq BlDevices
  /\ \A d \in BlDevices : Picture(r.events, r.real[d], r.monitors, r.connected, d)

\* The mode that was announced is that of the adapter, or a signal of it is on its
\* way, or an order that will bring one.
SignalWaits(r) == \E i \in 1..Len(r.events) : r.events[i] = <<"adapter">>
OrderWaits(r) ==
  \E i \in 1..Len(r.orders) :
    r.orders[i][1] = "Discoverable" /\ r.orders[i][2] # r.discoverable
ModeFollows(r) == r.current = HostMode(r) \/ SignalWaits(r) \/ OrderWaits(r)
BlGood(r) == BlShape(r) /\ (AdapterThere(r) => DevicesSeen(r) /\ ModeFollows(r))

LEMMA BlInitInv == BlInit => BlGood(bl)
<1> SUFFICES ASSUME BlInit PROVE BlGood(bl)
  OBVIOUS
<1>1. PICK s \in BlScenarios, on, disc \in BOOLEAN,
           real \in [BlDevices -> {"absent", "known", "connected"}] :
    bl = [scenario |-> s, valid |-> TRUE, powered |-> on, discoverable |-> disc,
          orders |-> <<>>, events |-> <<>>, pendingMode |-> "none",
          current |-> IF ~on THEN "PoweredOff" ELSE IF disc THEN "Discoverable"
                      ELSE "Connectable",
          wanted |-> "none", asked |-> 0, changes |-> 0,
          real |-> real, monitors |-> {d \in BlDevices : real[d] # "absent"},
          connected |-> {d \in BlDevices : real[d] = "connected"}]
  BY DEF BlInit
<1>2. /\ DOMAIN bl = BlFields /\ bl.scenario = s /\ bl.events = <<>> /\ bl.orders = <<>>
      /\ bl.pendingMode = "none" /\ bl.real = real
      /\ bl.monitors = {d \in BlDevices : real[d] # "absent"}
      /\ bl.connected = {d \in BlDevices : real[d] = "connected"}
  BY <1>1 DEF BlFields
<1>3. bl.current = HostMode(bl)
  BY <1>1 DEF HostMode
<1>4. BlShape(bl)
  BY <1>2 DEF BlShape
<1>5. ASSUME NEW d \in BlDevices
      PROVE  Picture(<<>>, real[d], bl.monitors, bl.connected, d)
  <2>1. Len(<<>>) = 0
    OBVIOUS
  <2> DEFINE W == {i \in {1} : real[d] # "absent"}
  <2>2. WatchedAt(<<>>, real[d], bl.monitors, d, W)
    BY <1>2, <2>1 DEF WatchedAt
  <2>3. W \in SUBSET Nat
    OBVIOUS
  <2>4. /\ d \in bl.monitors <=> real[d] # "absent"
        /\ d \in bl.connected <=> real[d] = "connected"
        /\ \A i \in 1..Len(<<>>) : FALSE
    BY <1>2, <2>1
  <2> HIDE DEF W
  <2> QED
    BY <2>2, <2>3, <2>4 DEF Picture
<1> QED
  BY <1>2, <1>3, <1>4, <1>5 DEF BlGood, DevicesSeen, ModeFollows

\* The fields that the invariant speaks of, other than the two queues; sequences.
SameBl(s, r) ==
  /\ DOMAIN s = BlFields /\ s.scenario = r.scenario /\ s.valid = r.valid
  /\ s.powered = r.powered /\ s.discoverable = r.discoverable
  /\ s.real = r.real /\ s.monitors = r.monitors /\ s.connected = r.connected
LEMMA AppendParts ==
  ASSUME NEW S, NEW q \in Seq(S), NEW e \in S
  PROVE  /\ Append(q, e) \in Seq(S) /\ Len(Append(q, e)) = Len(q) + 1
         /\ Append(q, e)[Len(q) + 1] = e /\ Len(q) \in Nat
         /\ \A i \in 1..Len(q) : Append(q, e)[i] = q[i]
OBVIOUS
LEMMA TailParts ==
  ASSUME NEW S, NEW q \in Seq(S), q # <<>>
  PROVE  /\ Tail(q) \in Seq(S) /\ Head(q) = q[1] /\ q[1] \in S /\ 1 \in 1..Len(q)
         /\ \A i \in 1..Len(Tail(q)) : i + 1 \in 1..Len(q) /\ Tail(q)[i] = q[i + 1]
         /\ \A i \in 1..Len(q) :
              i # 1 => i - 1 \in 1..Len(Tail(q)) /\ Tail(q)[i - 1] = q[i]
OBVIOUS

\* An order of the program.
LEMMA OrderGood ==
  ASSUME NEW r, NEW s, NEW o \in BlOrders, BlGood(r), SameBl(s, r),
         s.events = r.events, s.orders = Append(r.orders, o), s.current = r.current,
         s.pendingMode \in {"none", "Connectable", "Discoverable"}
  PROVE  BlGood(s)
<1>1. BlShape(s)
  BY AppendParts DEF BlGood, BlShape, SameBl
<1>2. AdapterThere(s) => AdapterThere(r)
  BY DEF AdapterThere, SameBl
<1>3. DevicesSeen(r) => DevicesSeen(s)
  BY DEF DevicesSeen, SameBl
<1>4. HostMode(s) = HostMode(r)
  BY DEF HostMode, SameBl
<1>5. OrderWaits(r) => OrderWaits(s)
  <2>1. \A i \in 1..Len(r.orders) : i \in 1..Len(s.orders) /\ s.orders[i] = r.orders[i]
    BY AppendParts DEF BlGood, BlShape
  <2> QED
    BY <2>1 DEF OrderWaits, SameBl
<1>6. ModeFollows(r) => ModeFollows(s)
  BY <1>4, <1>5 DEF ModeFollows, SignalWaits
<1> QED
  BY <1>1, <1>2, <1>3, <1>6 DEF BlGood

LEMMA SetHostModeGood ==
  ASSUME NEW r, BlGood(r), NEW mode \in HostModes
  PROVE  BlGood(SetHostMode(r, mode))
<1> DEFINE a == [r EXCEPT !.orders = Append(@, <<"Powered", FALSE>>)]
           b == [[r EXCEPT !.pendingMode = mode]
                   EXCEPT !.orders = Append(@, <<"Powered", TRUE>>)]
           v == mode = "Discoverable"
           c == [r EXCEPT !.orders = Append(@, <<"Discoverable", v>>)]
           s == SetHostMode(r, mode)
<1>1. s = r \/ s = a \/ (s = b /\ mode # "PoweredOff") \/ s = c
  BY DEF SetHostMode, SetPowered, SetDiscoverable
<1>2. DOMAIN r = BlFields /\ r.pendingMode \in {"none", "Connectable", "Discoverable"}
  BY DEF BlGood, BlShape
<1>3. SameBl(a, r) /\ a.events = r.events /\ a.current = r.current
      /\ a.orders = Append(r.orders, <<"Powered", FALSE>>) /\ a.pendingMode = r.pendingMode
  BY <1>2 DEF BlFields, SameBl
<1>4. SameBl(b, r) /\ b.events = r.events /\ b.current = r.current
      /\ b.orders = Append(r.orders, <<"Powered", TRUE>>) /\ b.pendingMode = mode
  BY <1>2 DEF BlFields, SameBl
<1>5. SameBl(c, r) /\ c.events = r.events /\ c.current = r.current
      /\ c.orders = Append(r.orders, <<"Discoverable", v>>) /\ c.pendingMode = r.pendingMode
  BY <1>2 DEF BlFields, SameBl
<1>6. /\ <<"Powered", FALSE>> \in BlOrders /\ <<"Powered", TRUE>> \in BlOrders
      /\ <<"Discoverable", v>> \in BlOrders
  BY DEF BlOrders
<1> HIDE DEF a, b, c, s, v
<1>7. CASE s = a
  BY <1>2, <1>3, <1>6, <1>7, OrderGood DEF s
<1>8. CASE s = b /\ mode # "PoweredOff"
  BY <1>4, <1>6, <1>8, OrderGood DEF HostModes, s
<1>9. CASE s = c
  BY <1>2, <1>5, <1>6, <1>9, OrderGood DEF s
<1> QED
  BY <1>1, <1>7, <1>8, <1>9 DEF s

\* A signal of the adapter.
LEMMA AdapterSignalGood ==
  ASSUME NEW r, NEW s, BlShape(r), AdapterThere(r) => DevicesSeen(r),
         s.events = Append(r.events, <<"adapter">>), DOMAIN s = BlFields,
         s.scenario = r.scenario, s.valid = r.valid, s.real = r.real,
         s.monitors = r.monitors, s.connected = r.connected, s.orders = r.orders,
         s.pendingMode = r.pendingMode
  PROVE  BlGood(s)
<1>1. <<"adapter">> \in BlSignals /\ r.events \in Seq(BlSignals)
  BY DEF BlSignals, BlShape
<1> DEFINE q == r.events
           e == <<"adapter">>
<1>2. /\ s.events \in Seq(BlSignals) /\ Len(s.events) = Len(q) + 1
      /\ s.events[Len(q) + 1] = e /\ Len(q) \in Nat
      /\ \A i \in 1..Len(q) : s.events[i] = q[i]
  BY <1>1, AppendParts
<1>3. BlShape(s)
  BY <1>2 DEF BlShape
<1>4. SignalWaits(s)
  BY <1>2 DEF SignalWaits
<1>5. AdapterThere(s) => AdapterThere(r)
  BY <1>2 DEF AdapterThere
<1>6. ASSUME AdapterThere(r), NEW d \in BlDevices
      PROVE  Picture(s.events, s.real[d], s.monitors, s.connected, d)
  <2>1. Picture(q, r.real[d], r.monitors, r.connected, d)
    BY <1>6 DEF DevicesSeen
  <2>2. ~About(e, d)
    BY DEF About
  <2>3. \A i \in 1..Len(q) : q[i] = <<"device", d, TRUE>> => r.real[d] # "absent"
    BY <2>1 DEF Picture
  <2>4. r.real[d] = "absent" => \A i \in 1..Len(q) : q[i] # <<"device", d, TRUE>>
    BY <2>3
  <2> HIDE DEF q, e
  <2>5. Picture(Append(q, e), r.real[d], r.monitors, r.connected, d)
    BY <1>1, <2>1, <2>2, <2>4, PictureAppend DEF q, e
  <2> QED
    BY <2>5 DEF q, e
<1>7. AdapterThere(s) => DevicesSeen(s)
  BY <1>5, <1>6 DEF DevicesSeen
<1> QED
  BY <1>3, <1>4, <1>7 DEF BlGood, ModeFollows

\* A property is set: a change is signalled.
LEMMA AssignGood ==
  ASSUME NEW r, NEW prop \in {"Powered", "Discoverable"}, NEW v, BlShape(r),
         AdapterThere(r) => DevicesSeen(r),
         AdapterThere(r) =>
           ModeFollows(r) \/ (prop = "Discoverable" /\ v # r.discoverable)
  PROVE  BlGood(Assign(r, prop, v))
<1> DEFINE s == Assign(r, prop, v)
<1>1. CASE (prop = "Powered" /\ r.powered = v) \/ (prop = "Discoverable" /\ r.discoverable = v)
  BY <1>1 DEF Assign, BlGood
<1>2. CASE ~((prop = "Powered" /\ r.powered = v)
               \/ (prop = "Discoverable" /\ r.discoverable = v))
  <2>1. s = Signal(IF prop = "Powered" THEN [r EXCEPT !.powered = v]
                   ELSE [r EXCEPT !.discoverable = v], <<"adapter">>)
    BY <1>2 DEF Assign
  <2>2. /\ s.events = Append(r.events, <<"adapter">>) /\ DOMAIN s = BlFields
        /\ s.scenario = r.scenario /\ s.valid = r.valid /\ s.real = r.real
        /\ s.monitors = r.monitors /\ s.connected = r.connected /\ s.orders = r.orders
        /\ s.pendingMode = r.pendingMode
    <3>1. CASE prop = "Powered"
      BY <2>1, <3>1 DEF Signal, BlShape, BlFields
    <3>2. CASE prop = "Discoverable"
      BY <2>1, <3>2 DEF Signal, BlShape, BlFields
    <3> QED
      BY <3>1, <3>2
  <2> HIDE DEF s
  <2> QED
    BY <2>2, AdapterSignalGood DEF s
<1> QED
  BY <1>1, <1>2

\* A signal of BlueZ is handled.  r: the record without the signal e.
BlTaken(r, e) ==
  /\ BlShape(r) /\ bl.events # <<>> /\ e = bl.events[1] /\ e \in BlSignals
  /\ r.events = Tail(bl.events) /\ SameBl(r, bl) /\ r.orders = bl.orders
  /\ r.current = bl.current /\ r.pendingMode = bl.pendingMode
LEMMA TakenThere ==
  ASSUME BlGood(bl), NEW r, NEW e, BlTaken(r, e), NEW s, s.events = r.events,
         s.valid = r.valid, AdapterThere(s)
  PROVE  AdapterThere(bl) \/ e[1] = "adapterRemoved"
<1>1. ASSUME NEW i \in 1..Len(bl.events), i # 1
      PROVE  bl.events[i][1] # "adapterRemoved"
  <2>1. i - 1 \in 1..Len(Tail(bl.events)) /\ Tail(bl.events)[i - 1] = bl.events[i]
    BY <1>1, TailParts DEF BlGood, BlShape, BlTaken
  <2>2. s.events = Tail(bl.events)
    BY DEF BlTaken
  <2> QED
    BY <2>1, <2>2 DEF AdapterThere
<1> QED
  BY <1>1 DEF BlTaken, AdapterThere, SameBl

\* What the program knows of the devices changes to that in s.
LEMMA HandledGood ==
  ASSUME BlGood(bl), NEW r, NEW e, BlTaken(r, e), NEW s, BlShape(s),
         s.events = r.events, s.valid = r.valid, s.real = r.real,
         e[1] # "adapterRemoved",
         AdapterThere(bl) =>
           /\ s.connected \subseteq BlDevices /\ s.connected \subseteq s.monitors
           /\ \A d \in BlDevices :
                /\ ~About(e, d) =>
                     (d \in s.monitors <=> d \in r.monitors)
                       /\ (d \in s.connected <=> d \in r.connected)
                /\ About(e, d) => (d \in s.monitors <=> e[1] # "removed")
                /\ About(e, d) /\ (e[1] # "device" \/ r.real[d] # "absent") =>
                     (d \in s.connected <=> e[1] # "removed" /\ e[3]),
         AdapterThere(bl) => ModeFollows(s)
  PROVE  BlGood(s)
<1>1. AdapterThere(s) => AdapterThere(bl)
  BY TakenThere
<1>2. ASSUME AdapterThere(bl), NEW d \in BlDevices
      PROVE  Picture(s.events, s.real[d], s.monitors, s.connected, d)
  <2>1. Picture(bl.events, bl.real[d], bl.monitors, bl.connected, d)
    BY <1>2 DEF BlGood, DevicesSeen
  <2>2. /\ bl.events \in Seq(BlSignals) /\ bl.events # <<>> /\ e = bl.events[1]
        /\ s.events = Tail(bl.events) /\ s.real = bl.real
        /\ r.monitors = bl.monitors /\ r.connected = bl.connected /\ r.real = bl.real
    BY DEF BlGood, BlShape, BlTaken, SameBl
  <2>3. d \in s.connected => d \in s.monitors
    BY <1>2
  <2>4. /\ ~About(bl.events[1], d) =>
             (d \in s.monitors <=> d \in bl.monitors)
               /\ (d \in s.connected <=> d \in bl.connected)
        /\ About(bl.events[1], d) => (d \in s.monitors <=> bl.events[1][1] # "removed")
        /\ About(bl.events[1], d) /\ (bl.events[1][1] # "device" \/ bl.real[d] # "absent") =>
             (d \in s.connected <=> bl.events[1][1] # "removed" /\ bl.events[1][3])
    BY <1>2, <2>2
  <2>5. Picture(Tail(bl.events), bl.real[d], s.monitors, s.connected, d)
    BY <2>1, <2>2, <2>3, <2>4, PictureTail
  <2> QED
    BY <2>2, <2>5
<1>3. AdapterThere(bl) => DevicesSeen(s)
  BY <1>2 DEF DevicesSeen
<1> QED
  BY <1>1, <1>3 DEF BlGood

\* The first signal about a device finds it watched as it was foreseen.
LEMMA HeadWatched ==
  ASSUME BlGood(bl), AdapterThere(bl), bl.events # <<>>, NEW d \in BlDevices,
         About(bl.events[1], d)
  PROVE  d \in bl.monitors <=> bl.events[1][1] # "added"
<1>1. Picture(bl.events, bl.real[d], bl.monitors, bl.connected, d)
  BY DEF BlGood, DevicesSeen
<1>2. 1 \in 1..Len(bl.events)
  BY DEF BlGood, BlShape
<1> QED
  BY <1>1, <1>2 DEF Picture, WatchedAt

\* PropertiesChanged() of the adapter.
LEMMA AdapterChangedGood ==
  ASSUME BlGood(bl), NEW r, NEW e, BlTaken(r, e), e[1] = "adapter"
  PROVE  BlGood(AdapterChanged(r))
<1> DEFINE s == AdapterChanged(r)
           v == r.pendingMode = "Discoverable"
           a == [r EXCEPT !.current = HostMode(r)]
           b == [[r EXCEPT !.pendingMode = "none"]
                   EXCEPT !.orders = Append(@, <<"Discoverable", v>>)]
           c == [r EXCEPT !.current = HostMode(r), !.pendingMode = "none"]
<1>1. \/ s = a
      \/ /\ s = b /\ HostMode(r) # "PoweredOff"
         /\ r.pendingMode \notin {"none", HostMode(r)}
      \/ s = c
  BY DEF AdapterChanged, SetDiscoverable
<1>2. DOMAIN r = BlFields /\ r.pendingMode \in {"none", "Connectable", "Discoverable"}
      /\ r.orders \in Seq(BlOrders)
  BY DEF BlTaken, BlShape
<1>3. /\ SameBl(a, r) /\ a.events = r.events /\ a.orders = r.orders
      /\ a.current = HostMode(r) /\ a.pendingMode = r.pendingMode
  BY <1>2 DEF BlFields, SameBl
<1>4. /\ SameBl(b, r) /\ b.events = r.events
      /\ b.orders = Append(r.orders, <<"Discoverable", v>>) /\ b.pendingMode = "none"
  BY <1>2 DEF BlFields, SameBl
<1>5. /\ SameBl(c, r) /\ c.events = r.events /\ c.orders = r.orders
      /\ c.current = HostMode(r) /\ c.pendingMode = "none"
  BY <1>2 DEF BlFields, SameBl
<1>6. <<"Discoverable", v>> \in BlOrders
  BY DEF BlOrders
<1>7. /\ Append(r.orders, <<"Discoverable", v>>) \in Seq(BlOrders)
      /\ Len(r.orders) + 1 \in 1..Len(Append(r.orders, <<"Discoverable", v>>))
      /\ Append(r.orders, <<"Discoverable", v>>)[Len(r.orders) + 1] = <<"Discoverable", v>>
  BY <1>2, <1>6, AppendParts
<1> HIDE DEF a, b, c, s
<1>8. SameBl(s, r) /\ s.events = r.events /\ BlShape(s)
  <2>1. /\ SameBl(s, r) /\ s.events = r.events
        /\ s.orders \in Seq(BlOrders)
        /\ s.pendingMode \in {"none", "Connectable", "Discoverable"}
    BY <1>1, <1>2, <1>3, <1>4, <1>5, <1>7
  <2> QED
    BY <2>1 DEF BlShape, SameBl, BlTaken
<1>9. ModeFollows(s)
  <2>1. CASE s = a \/ s = c
    BY <1>3, <1>5, <2>1 DEF ModeFollows, HostMode, SameBl
  <2>2. CASE /\ s = b /\ HostMode(r) # "PoweredOff"
             /\ r.pendingMode \notin {"none", HostMode(r)}
    <3>1. v # r.discoverable
      BY <1>2, <2>2 DEF HostMode
    <3>2. OrderWaits(s)
      <4> DEFINE i == Len(r.orders) + 1
      <4>1. i \in 1..Len(s.orders) /\ s.orders[i] = <<"Discoverable", v>>
        BY <1>4, <1>7, <2>2
      <4>2. s.discoverable = r.discoverable
        BY <1>8 DEF SameBl
      <4> QED
        BY <3>1, <4>1, <4>2 DEF OrderWaits
    <3> QED
      BY <3>2 DEF ModeFollows
  <2> QED
    BY <1>1, <2>1, <2>2
<1>10. \A d \in BlDevices : ~About(e, d)
  BY DEF About
<1>11. AdapterThere(bl) => s.connected \subseteq BlDevices /\ s.connected \subseteq s.monitors
  <2>1. AdapterThere(bl) => bl.connected \subseteq BlDevices /\ bl.connected \subseteq bl.monitors
    BY DEF BlGood, DevicesSeen, Picture
  <2>2. s.connected = bl.connected /\ s.monitors = bl.monitors
    BY <1>8 DEF BlTaken, SameBl
  <2> QED
    BY <2>1, <2>2
<1>12. BlGood(s)
  BY <1>8, <1>9, <1>10, <1>11, HandledGood DEF SameBl
<1> QED
  BY <1>12 DEF s

\* Signals about devices leave the mode alone.
LEMMA ModeKept ==
  ASSUME BlGood(bl), NEW r, NEW e, BlTaken(r, e), e[1] # "adapter", AdapterThere(bl),
         NEW s, s.events = r.events, s.orders = r.orders, s.current = r.current,
         s.powered = r.powered, s.discoverable = r.discoverable
  PROVE  ModeFollows(s)
<1>1. ModeFollows(bl)
  BY DEF BlGood
<1>2. SignalWaits(bl) => SignalWaits(s)
  <2>1. ASSUME NEW i \in 1..Len(bl.events), bl.events[i] = <<"adapter">>
        PROVE  SignalWaits(s)
    <3>1. i # 1
      BY <2>1 DEF BlTaken
    <3>2. i - 1 \in 1..Len(Tail(bl.events)) /\ Tail(bl.events)[i - 1] = bl.events[i]
      BY <3>1, TailParts DEF BlTaken, BlGood, BlShape
    <3>3. s.events = Tail(bl.events)
      BY DEF BlTaken
    <3> QED
      BY <2>1, <3>2, <3>3 DEF SignalWaits
  <2> QED
    BY <2>1 DEF SignalWaits
<1>3. OrderWaits(bl) => OrderWaits(s)
  BY DEF OrderWaits, BlTaken, SameBl
<1>4. HostMode(s) = HostMode(bl) /\ s.current = bl.current
  BY DEF HostMode, BlTaken, SameBl
<1> QED
  BY <1>1, <1>2, <1>3, <1>4 DEF ModeFollows

\* ... and change what the program knows of them only: m are the devices watched after
\* the signal e, c those called connected.
DeviceTold(r, e, m, c) ==
  /\ c \subseteq BlDevices /\ c \subseteq m
  /\ \A d \in BlDevices :
       /\ ~About(e, d) =>
            (d \in m <=> d \in r.monitors) /\ (d \in c <=> d \in r.connected)
       /\ About(e, d) => (d \in m <=> e[1] # "removed")
       /\ About(e, d) /\ (e[1] # "device" \/ r.real[d] # "absent") =>
            (d \in c <=> e[1] # "removed" /\ e[3])

LEMMA WatchGood ==
  ASSUME BlGood(bl), NEW r, NEW e, BlTaken(r, e),
         e[1] \in {"added", "device", "removed"}, NEW m, NEW c,
         AdapterThere(bl) => DeviceTold(r, e, m, c),
         NEW s, s = [r EXCEPT !.monitors = m, !.connected = c]
  PROVE  BlGood(s)
<1>1. /\ DOMAIN s = BlFields /\ s.scenario = r.scenario /\ s.valid = r.valid
      /\ s.powered = r.powered /\ s.discoverable = r.discoverable
      /\ s.real = r.real /\ s.events = r.events /\ s.orders = r.orders
      /\ s.current = r.current /\ s.pendingMode = r.pendingMode
      /\ s.monitors = m /\ s.connected = c
  BY DEF BlTaken, BlShape, BlFields
<1>2. BlShape(s)
  BY <1>1 DEF BlTaken, BlShape
<1>3. AdapterThere(bl) => ModeFollows(s)
  BY <1>1, ModeKept
<1>4. e[1] # "adapterRemoved"
  OBVIOUS
<1>5. BlGood(s)
  BY <1>1, <1>2, <1>3, <1>4, HandledGood DEF DeviceTold
<1> QED
  BY <1>5

\* PropertiesChanged() of a device, InterfacesAdded(), InterfacesRemoved(), and the
\* other signals.
LEMMA DeviceChangedGood ==
  ASSUME BlGood(bl), NEW r, NEW e, BlTaken(r, e), e[1] = "device", e[2] \in r.monitors
  PROVE  BlGood(DeviceChanged(r, e[2], e[3]))
<1> DEFINE address == IF r.real[e[2]] = "absent" THEN "null" ELSE e[2]
           c == IF e[3] THEN r.connected \cup {address} ELSE r.connected \ {address}
           s == [r EXCEPT !.monitors = r.monitors, !.connected = c]
<1>1. e[2] \in BlDevices /\ e[3] \in BOOLEAN /\ e = <<"device", e[2], e[3]>>
  BY SignalParts DEF BlTaken
<1>2. DeviceChanged(r, e[2], e[3]) = s
  BY DEF DeviceChanged, BlTaken, BlShape, BlFields
<1>3. ASSUME AdapterThere(bl)
      PROVE  /\ c \subseteq BlDevices /\ c \subseteq r.monitors
             /\ \A d \in BlDevices :
                  /\ ~About(e, d) => (d \in c <=> d \in r.connected)
                  /\ About(e, d) => d \in r.monitors
                  /\ About(e, d) /\ r.real[d] # "absent" => (d \in c <=> e[3])
  <2>1. /\ r.connected \subseteq BlDevices /\ r.connected \subseteq r.monitors
    BY <1>3 DEF BlGood, DevicesSeen, Picture, BlTaken, SameBl
  <2>2. e[3] => r.real[e[2]] # "absent"
    <3>1. Picture(bl.events, bl.real[e[2]], bl.monitors, bl.connected, e[2])
      BY <1>1, <1>3 DEF BlGood, DevicesSeen
    <3>2. 1 \in 1..Len(bl.events) /\ bl.events[1] = e /\ r.real = bl.real
      BY TailParts DEF BlTaken, BlGood, BlShape, SameBl
    <3> QED
      BY <1>1, <3>1, <3>2 DEF Picture
  <2>3. e[3] => address = e[2]
    BY <2>2
  <2>4. \A d \in BlDevices : d # e[2] => d # address
    BY BlAssumption
  <2>5. \A d \in BlDevices : About(e, d) <=> d = e[2]
    BY DEF About
  <2>6. c \subseteq BlDevices /\ c \subseteq r.monitors
    BY <1>1, <2>1, <2>3
  <2>7. \A d \in BlDevices : d # e[2] => (d \in c <=> d \in r.connected)
    BY <2>4
  <2>8. r.real[e[2]] # "absent" => (e[2] \in c <=> e[3])
    BY <1>1
  <2> QED
    BY <2>5, <2>6, <2>7, <2>8
<1> HIDE DEF c
<1> DEFINE m == r.monitors
<1>4. AdapterThere(bl) => DeviceTold(r, e, m, c)
  BY <1>3 DEF DeviceTold
<1>5. e[1] \in {"added", "device", "removed"} /\ DeviceChanged(r, e[2], e[3]) = s
  BY <1>2
<1>6. s = [r EXCEPT !.monitors = m, !.connected = c]
  OBVIOUS
<1> HIDE DEF m, s
<1>7. BlGood(s)
  BY <1>4, <1>5, <1>6, WatchGood
<1> QED
  BY <1>5, <1>7
LEMMA DeviceAddedGood ==
  ASSUME BlGood(bl), NEW r, NEW e, BlTaken(r, e), e[1] = "added"
  PROVE  BlGood(DeviceAdded(r, e[2], e[3]))
<1>1. e[2] \in BlDevices /\ e[3] \in BOOLEAN
  BY SignalParts DEF BlTaken
<1>2. \A d \in BlDevices : About(e, d) <=> d = e[2]
  BY DEF About
<1> DEFINE m == r.monitors \cup {e[2]}
           c == IF e[3] THEN r.connected \cup {e[2]} ELSE r.connected
           s == [r EXCEPT !.monitors = m, !.connected = c]
<1>3. AdapterThere(bl) =>
        /\ e[2] \notin r.monitors
        /\ r.connected \subseteq BlDevices /\ r.connected \subseteq r.monitors
  <2>1. AdapterThere(bl) => e[2] \notin r.monitors
    BY <1>1, <1>2, HeadWatched DEF BlTaken, SameBl
  <2>2. AdapterThere(bl) =>
          r.connected \subseteq BlDevices /\ r.connected \subseteq r.monitors
    BY DEF BlGood, DevicesSeen, Picture, BlTaken, SameBl
  <2> QED
    BY <2>1, <2>2
<1>4. CASE e[2] \in r.monitors
  <2>1. ~AdapterThere(bl)
    BY <1>3, <1>4
  <2>2. ~AdapterThere(r)
    BY <2>1, TakenThere
  <2> QED
    BY <1>4, <2>2 DEF DeviceAdded, BlGood, BlTaken
<1>5. CASE e[2] \notin r.monitors
  <2>1. DeviceAdded(r, e[2], e[3]) = s
    BY <1>5 DEF DeviceAdded
  <2>2. AdapterThere(bl) =>
          /\ c \subseteq BlDevices /\ c \subseteq m
          /\ \A d \in BlDevices :
               /\ ~About(e, d) =>
                    (d \in m <=> d \in r.monitors) /\ (d \in c <=> d \in r.connected)
               /\ About(e, d) => d \in m /\ (d \in c <=> e[3])
    BY <1>1, <1>2, <1>3
  <2> HIDE DEF m, c
  <2>3. AdapterThere(bl) => DeviceTold(r, e, m, c)
    BY <2>2 DEF DeviceTold
  <2>4. e[1] \in {"added", "device", "removed"}
    OBVIOUS
  <2> HIDE DEF s
  <2>5. s = [r EXCEPT !.monitors = m, !.connected = c]
    BY DEF s
  <2>6. BlGood(s)
    BY <2>3, <2>4, <2>5, WatchGood
  <2> QED
    BY <2>1, <2>6
<1> QED
  BY <1>4, <1>5
LEMMA DeviceRemovedGood ==
  ASSUME BlGood(bl), NEW r, NEW e, BlTaken(r, e), e[1] = "removed"
  PROVE  BlGood(DeviceRemoved(r, e[2]))
<1>1. e[2] \in BlDevices
  BY SignalParts DEF BlTaken
<1>2. \A d \in BlDevices : About(e, d) <=> d = e[2]
  BY DEF About
<1> DEFINE m == r.monitors \ {e[2]}
           c == r.connected \ {e[2]}
           s == [r EXCEPT !.monitors = m, !.connected = c]
<1>3. AdapterThere(bl) => e[2] \in r.monitors
  BY <1>1, <1>2, HeadWatched DEF BlTaken, SameBl
<1>4. CASE e[2] \notin r.monitors
  <2>1. ~AdapterThere(r)
    BY <1>3, <1>4, TakenThere
  <2> QED
    BY <1>4, <2>1 DEF DeviceRemoved, BlGood, BlTaken
<1>5. CASE e[2] \in r.monitors
  <2>1. DeviceRemoved(r, e[2]) = s
    BY <1>5 DEF DeviceRemoved
  <2>2. AdapterThere(bl) =>
          r.connected \subseteq BlDevices /\ r.connected \subseteq r.monitors
    BY DEF BlGood, DevicesSeen, Picture, BlTaken, SameBl
  <2>3. AdapterThere(bl) =>
          /\ c \subseteq BlDevices /\ c \subseteq m
          /\ \A d \in BlDevices :
               /\ ~About(e, d) =>
                    (d \in m <=> d \in r.monitors) /\ (d \in c <=> d \in r.connected)
               /\ About(e, d) => d \notin m /\ d \notin c
    BY <1>1, <1>2, <2>2
  <2> HIDE DEF m, c
  <2>4. AdapterThere(bl) => DeviceTold(r, e, m, c)
    BY <2>3 DEF DeviceTold
  <2>5. e[1] \in {"added", "device", "removed"}
    OBVIOUS
  <2> HIDE DEF s
  <2>6. s = [r EXCEPT !.monitors = m, !.connected = c]
    BY DEF s
  <2>7. BlGood(s)
    BY <2>4, <2>5, <2>6, WatchGood
  <2> QED
    BY <2>1, <2>7
<1> QED
  BY <1>4, <1>5

LEMMA BlEventInv ==
  ASSUME BlGood(bl), BlEvent
  PROVE  BlGood(bl')
<1> DEFINE r == [bl EXCEPT !.events = Tail(@)]
           e == Head(bl.events)
<1>1. bl' = BlHandler(r, e) /\ bl.events # <<>>
  BY DEF BlEvent
<1>2. BlTaken(r, e)
  <2>1. /\ Tail(bl.events) \in Seq(BlSignals) /\ e = bl.events[1] /\ e \in BlSignals
    BY <1>1, TailParts DEF BlGood, BlShape
  <2>2. /\ DOMAIN r = BlFields /\ r.events = Tail(bl.events) /\ SameBl(r, bl)
        /\ r.orders = bl.orders /\ r.current = bl.current
        /\ r.pendingMode = bl.pendingMode
    BY DEF BlGood, BlShape, BlFields, SameBl
  <2> HIDE DEF r
  <2>3. BlShape(r)
    BY <2>1, <2>2 DEF BlGood, BlShape, SameBl
  <2> QED
    BY <1>1, <2>1, <2>2, <2>3 DEF BlTaken
<1> HIDE DEF r, e
<1>3. e[1] \in {"adapter", "adapterRemoved", "added", "device", "removed"}
  BY <1>2, SignalParts DEF BlTaken
<1>4. ~r.valid => BlGood(r)
  BY <1>2 DEF BlGood, BlTaken, AdapterThere
<1>5. CASE e[1] = "adapter"
  <2>1. bl' = IF r.valid THEN AdapterChanged(r) ELSE r
    BY <1>1, <1>5 DEF BlHandler
  <2> QED
    BY <1>2, <1>4, <1>5, <2>1, AdapterChangedGood
<1>6. CASE e[1] = "device"
  <2>1. bl' = IF e[2] \in r.monitors THEN DeviceChanged(r, e[2], e[3]) ELSE r
    BY <1>1, <1>6 DEF BlHandler
  <2>2. e[2] \notin r.monitors => BlGood(r)
    <3>1. e[2] \in BlDevices /\ About(e, e[2])
      BY <1>2, <1>6, SignalParts DEF BlTaken, About
    <3>2. AdapterThere(bl) => e[2] \in r.monitors
      BY <1>2, <1>6, <3>1, HeadWatched DEF BlTaken, SameBl
    <3>3. e[2] \notin r.monitors => ~AdapterThere(r)
      BY <1>2, <1>6, <3>2, TakenThere
    <3> QED
      BY <1>2, <3>3 DEF BlGood, BlTaken
  <2> QED
    BY <1>2, <1>6, <2>1, <2>2, DeviceChangedGood
<1>7. CASE e[1] = "added"
  <2>1. bl' = IF r.valid THEN DeviceAdded(r, e[2], e[3]) ELSE r
    BY <1>1, <1>7 DEF BlHandler
  <2> QED
    BY <1>2, <1>4, <1>7, <2>1, DeviceAddedGood
<1>8. CASE e[1] = "removed"
  BY <1>1, <1>2, <1>8, DeviceRemovedGood DEF BlHandler
<1>9. CASE e[1] = "adapterRemoved"
  <2>1. bl' = [r EXCEPT !.valid = FALSE, !.monitors = {}, !.connected = {}]
    BY <1>1, <1>9 DEF BlHandler, AdapterRemoved
  <2>2. /\ DOMAIN bl' = BlFields /\ bl'.scenario = r.scenario /\ bl'.orders = r.orders
        /\ bl'.events = r.events /\ bl'.real = r.real /\ bl'.valid = FALSE
        /\ bl'.pendingMode = r.pendingMode
    BY <1>2, <2>1 DEF BlTaken, BlShape, BlFields
  <2> QED
    BY <1>2, <2>2 DEF BlGood, BlShape, BlTaken, AdapterThere
<1> QED
  BY <1>3, <1>5, <1>6, <1>7, <1>8, <1>9

LEMMA BlBluezInv ==
  ASSUME BlGood(bl), BlBluez
  PROVE  BlGood(bl')
<1> DEFINE r == [bl EXCEPT !.orders = Tail(@)]
           o == Head(bl.orders)
<1>1. /\ bl.orders # <<>>
      /\ bl' = Assign(r, o[1], o[2]) \/ (o = <<"Powered", TRUE>> /\ bl' = r)
  BY DEF BlBluez
<1>2. /\ DOMAIN r = BlFields /\ r.orders = Tail(bl.orders) /\ SameBl(r, bl)
      /\ r.events = bl.events /\ r.current = bl.current
      /\ r.pendingMode = bl.pendingMode
  BY DEF BlGood, BlShape, BlFields, SameBl
<1> HIDE DEF r
<1>3. /\ r.orders \in Seq(BlOrders) /\ o \in BlOrders /\ o = bl.orders[1]
      /\ \A i \in 1..Len(bl.orders) :
           i # 1 => i - 1 \in 1..Len(r.orders) /\ r.orders[i - 1] = bl.orders[i]
  BY <1>1, <1>2, TailParts DEF BlGood, BlShape
<1> HIDE DEF o
<1>4. BlShape(r)
  BY <1>2, <1>3 DEF BlGood, BlShape, SameBl
<1>5. AdapterThere(r) <=> AdapterThere(bl)
  BY <1>2 DEF AdapterThere, SameBl
<1>6. AdapterThere(r) => DevicesSeen(r)
  BY <1>2, <1>5 DEF BlGood, DevicesSeen, SameBl
<1>7. AdapterThere(r) =>
        ModeFollows(r) \/ (o[1] = "Discoverable" /\ o[2] # r.discoverable)
  <2>1. HostMode(r) = HostMode(bl) /\ r.discoverable = bl.discoverable
    BY <1>2 DEF HostMode, SameBl
  <2>2. SignalWaits(bl) => SignalWaits(r)
    BY <1>2 DEF SignalWaits
  <2>3. OrderWaits(bl) =>
          OrderWaits(r) \/ (o[1] = "Discoverable" /\ o[2] # r.discoverable)
    <3>1. ASSUME NEW i \in 1..Len(bl.orders), bl.orders[i][1] = "Discoverable",
                 bl.orders[i][2] # bl.discoverable
          PROVE  OrderWaits(r) \/ (o[1] = "Discoverable" /\ o[2] # r.discoverable)
      <4>1. CASE i = 1
        BY <1>3, <2>1, <3>1, <4>1
      <4>2. CASE i # 1
        BY <1>3, <2>1, <3>1, <4>2 DEF OrderWaits
      <4> QED
        BY <4>1, <4>2
    <3> QED
      BY <3>1 DEF OrderWaits
  <2> QED
    BY <1>2, <1>5, <2>1, <2>2, <2>3 DEF BlGood, ModeFollows
<1>8. CASE bl' = Assign(r, o[1], o[2])
  <2>1. o[1] \in {"Powered", "Discoverable"}
    BY <1>3 DEF BlOrders
  <2> QED
    BY <1>4, <1>6, <1>7, <1>8, <2>1, AssignGood
<1>9. CASE o = <<"Powered", TRUE>> /\ bl' = r
  <2>1. o[1] # "Discoverable"
    BY <1>9
  <2> QED
    BY <1>4, <1>6, <1>7, <1>9, <2>1 DEF BlGood
<1> QED
  BY <1>1, <1>8, <1>9

\* The application asks for a mode, another program sets one.
LEMMA BlModeInv ==
  ASSUME BlGood(bl), BlSetHostMode \/ BlExternal
  PROVE  BlGood(bl')
<1>1. ASSUME NEW r, SameBl(r, bl), r.events = bl.events, r.orders = bl.orders,
             r.current = bl.current, r.pendingMode = bl.pendingMode
      PROVE  BlGood(r)
  <2>1. BlShape(r)
    BY <1>1 DEF BlGood, BlShape, SameBl
  <2>2. AdapterThere(r) => AdapterThere(bl)
    BY <1>1 DEF AdapterThere, SameBl
  <2>3. DevicesSeen(bl) => DevicesSeen(r)
    BY <1>1 DEF DevicesSeen, SameBl
  <2>4. ModeFollows(bl) => ModeFollows(r)
    BY <1>1 DEF ModeFollows, HostMode, SignalWaits, OrderWaits, SameBl
  <2> QED
    BY <2>1, <2>2, <2>3, <2>4 DEF BlGood
<1>2. CASE BlSetHostMode
  <2>0. \E mode \in HostModes : \E w :
          bl' = SetHostMode([bl EXCEPT !.asked = @ + 1, !.wanted = w], mode)
    BY <1>2 DEF BlSetHostMode
  <2> PICK mode \in HostModes : \E w :
          bl' = SetHostMode([bl EXCEPT !.asked = @ + 1, !.wanted = w], mode)
    BY <2>0
  <2>1. PICK wanted : bl' = SetHostMode([bl EXCEPT !.asked = @ + 1, !.wanted = wanted], mode)
    OBVIOUS
  <2> DEFINE r == [bl EXCEPT !.asked = @ + 1, !.wanted = wanted]
  <2>2. /\ SameBl(r, bl) /\ r.events = bl.events /\ r.orders = bl.orders
        /\ r.current = bl.current /\ r.pendingMode = bl.pendingMode
    BY DEF BlGood, BlShape, BlFields, SameBl
  <2> HIDE DEF r
  <2> QED
    BY <1>1, <2>1, <2>2, SetHostModeGood DEF r
<1>3. CASE BlExternal
  <2> DEFINE r == [bl EXCEPT !.changes = @ + 1, !.wanted = "none"]
  <2>1. PICK prop \in {"Powered", "Discoverable"}, v \in BOOLEAN : bl' = Assign(r, prop, v)
    BY <1>3 DEF BlExternal
  <2>2. /\ SameBl(r, bl) /\ r.events = bl.events /\ r.orders = bl.orders
        /\ r.current = bl.current /\ r.pendingMode = bl.pendingMode
    BY DEF BlGood, BlShape, BlFields, SameBl
  <2> HIDE DEF r
  <2> QED
    BY <1>1, <2>1, <2>2, AssignGood DEF BlGood
<1> QED
  BY <1>2, <1>3

\* A device changes, and BlueZ tells of it if the program watches.
LEMMA BlDeviceInv ==
  ASSUME NothingQuick, BlGood(bl), BlDevice
  PROVE  BlGood(bl')
<1>1. PICK d \in BlDevices, new \in {"absent", "known", "connected"} :
    LET r == [bl EXCEPT !.changes = @ + 1, !.real[d] = new]
        old == bl.real[d]
    IN /\ new # old
       /\ bl' = IF old = "absent" THEN Signal(r, <<"added", d, new = "connected">>)
                ELSE IF new = "absent" THEN Signal(r, <<"removed", d>>)
                ELSE IF d \in bl.monitors
                  THEN Signal(r, <<"device", d, new = "connected">>) ELSE r
       /\ <<"device", d, TRUE>> \in Range(bl.events) /\ new = "absent" =>
            BlMay("quickRemoval")
       /\ Unheard(d) /\ new # "absent" => d \in bl.monitors \/ BlMay("quickConnect")
  BY DEF BlDevice
<1> DEFINE r == [bl EXCEPT !.changes = @ + 1, !.real[d] = new]
           old == bl.real[d]
           q == bl.events
<1>2. ~BlMay("quickRemoval") /\ ~BlMay("quickConnect")
  BY DEF NothingQuick, BlMay, BlGood, BlShape
<1>3. /\ DOMAIN r = BlFields /\ r.scenario = bl.scenario /\ r.valid = bl.valid
      /\ r.powered = bl.powered /\ r.discoverable = bl.discoverable
      /\ r.monitors = bl.monitors /\ r.connected = bl.connected
      /\ r.events = q /\ r.orders = bl.orders /\ r.current = bl.current
      /\ r.pendingMode = bl.pendingMode
      /\ r.real = [bl.real EXCEPT ![d] = new]
  BY DEF BlGood, BlShape, BlFields
<1>4. /\ r.real \in [BlDevices -> {"absent", "known", "connected"}]
      /\ r.real[d] = new /\ \A x \in BlDevices : x # d => r.real[x] = bl.real[x]
  BY <1>3 DEF BlGood, BlShape
<1>5. q \in Seq(BlSignals) /\ d \in BlDevices
  BY DEF BlGood, BlShape
<1>6. new = "absent" => \A i \in 1..Len(q) : q[i] # <<"device", d, TRUE>>
  <2>1. \A i \in 1..Len(q) : q[i] \in Range(q)
    BY <1>5 DEF Range
  <2> QED
    BY <1>1, <1>2, <2>1
<1>7. old # new
  BY <1>1
<1> DEFINE connects == new = "connected"
<1>8. \/ \E e \in BlSignals :
           /\ bl' = Signal(r, e) /\ About(e, d) /\ e[1] # "adapterRemoved"
           /\ \A x \in BlDevices : About(e, x) => x = d
           /\ old = "absent" <=> e[1] = "added"
           /\ new = "absent" <=> e[1] = "removed"
           /\ e[1] # "removed" => (e[3] <=> new = "connected")
      \/ /\ bl' = r /\ old # "absent" /\ new # "absent" /\ d \notin bl.monitors
         /\ ~Unheard(d)
  <2>1. CASE old = "absent"
    <3>1. bl' = Signal(r, <<"added", d, connects>>)
      BY <1>1, <2>1
    <3>2. <<"added", d, connects>> \in BlSignals
      BY <1>5 DEF BlSignals
    <3> QED
      BY <1>7, <2>1, <3>1, <3>2 DEF About
  <2>2. CASE old # "absent" /\ new = "absent"
    <3>1. bl' = Signal(r, <<"removed", d>>)
      BY <1>1, <2>2
    <3>2. <<"removed", d>> \in BlSignals
      BY <1>5 DEF BlSignals
    <3> QED
      BY <1>7, <2>2, <3>1, <3>2 DEF About
  <2>3. CASE old # "absent" /\ new # "absent" /\ d \in bl.monitors
    <3>1. bl' = Signal(r, <<"device", d, connects>>)
      BY <1>1, <2>3
    <3>2. <<"device", d, connects>> \in BlSignals
      BY <1>5 DEF BlSignals
    <3> QED
      BY <1>7, <2>3, <3>1, <3>2 DEF About
  <2>4. CASE old # "absent" /\ new # "absent" /\ d \notin bl.monitors
    BY <1>1, <1>2, <2>4
  <2> QED
    BY <2>1, <2>2, <2>3, <2>4
<1> HIDE DEF r
<1>9. CASE /\ bl' = r /\ old # "absent" /\ new # "absent" /\ d \notin bl.monitors
           /\ ~Unheard(d)
  <2>1. ~AdapterThere(bl)
    <3>1. SUFFICES ASSUME AdapterThere(bl) PROVE FALSE
      OBVIOUS
    <3>2. Picture(q, old, bl.monitors, bl.connected, d)
      BY <3>1 DEF BlGood, DevicesSeen
    <3>3. \A i \in 1..Len(q) : ~About(q[i], d)
      BY <1>5, <1>9 DEF Unheard, About
    <3> QED
      BY <1>9, <3>2, <3>3 DEF Picture
  <2>2. ~AdapterThere(r)
    BY <1>3, <2>1 DEF AdapterThere
  <2>3. BlShape(r)
    BY <1>3, <1>4 DEF BlGood, BlShape
  <2> QED
    BY <1>9, <2>2, <2>3 DEF BlGood
<1>10. ASSUME NEW e \in BlSignals, bl' = Signal(r, e), About(e, d),
              e[1] # "adapterRemoved", \A x \in BlDevices : About(e, x) => x = d,
              old = "absent" <=> e[1] = "added",
              new = "absent" <=> e[1] = "removed",
              e[1] # "removed" => (e[3] <=> new = "connected")
       PROVE  BlGood(bl')
  <2>1. /\ DOMAIN bl' = BlFields /\ bl'.scenario = bl.scenario /\ bl'.valid = bl.valid
        /\ bl'.powered = bl.powered /\ bl'.discoverable = bl.discoverable
        /\ bl'.monitors = bl.monitors /\ bl'.connected = bl.connected
        /\ bl'.events = Append(q, e) /\ bl'.orders = bl.orders
        /\ bl'.current = bl.current /\ bl'.pendingMode = bl.pendingMode
        /\ bl'.real = r.real
    BY <1>3, <1>10 DEF Signal, BlFields
  <2>2. /\ Append(q, e) \in Seq(BlSignals) /\ Len(Append(q, e)) = Len(q) + 1
        /\ Len(q) \in Nat /\ \A i \in 1..Len(q) : Append(q, e)[i] = q[i]
    BY <1>5, AppendParts
  <2>3. BlShape(bl')
    BY <1>4, <2>1, <2>2 DEF BlGood, BlShape
  <2>4. AdapterThere(bl)' => AdapterThere(bl)
    BY <2>1, <2>2 DEF AdapterThere
  <2>5. ASSUME AdapterThere(bl), NEW x \in BlDevices
        PROVE  Picture(Append(q, e), r.real[x], bl.monitors, bl.connected, x)
    <3>1. Picture(q, bl.real[x], bl.monitors, bl.connected, x)
      BY <2>5 DEF BlGood, DevicesSeen
    <3>2. CASE x = d
      BY <1>4, <1>5, <1>6, <1>10, <3>1, <3>2, PictureAppend
    <3>3. CASE x # d
      <4>1. ~About(e, x) /\ r.real[x] = bl.real[x]
        BY <1>4, <1>10, <3>3
      <4>2. bl.real[x] = "absent" => \A i \in 1..Len(q) : q[i] # <<"device", x, TRUE>>
        BY <3>1 DEF Picture
      <4> QED
        BY <1>5, <3>1, <4>1, <4>2, PictureAppend
    <3> QED
      BY <3>2, <3>3
  <2>6. AdapterThere(bl) => DevicesSeen(bl')
    BY <2>1, <2>5 DEF BlGood, DevicesSeen
  <2>7. ModeFollows(bl) => ModeFollows(bl')
    <3>1. HostMode(bl') = HostMode(bl)
      BY <2>1 DEF HostMode
    <3>2. SignalWaits(bl) => SignalWaits(bl')
      BY <2>1, <2>2 DEF SignalWaits
    <3>3. OrderWaits(bl) => OrderWaits(bl')
      BY <2>1 DEF OrderWaits
    <3> QED
      BY <2>1, <3>1, <3>2, <3>3 DEF ModeFollows
  <2> QED
    BY <2>3, <2>4, <2>6, <2>7 DEF BlGood
<1> QED
  BY <1>8, <1>9, <1>10

LEMMA BlNextInv ==
  ASSUME NothingQuick, BlGood(bl), [BlNext]_bl
  PROVE  BlGood(bl')
<1>1. CASE BlAdapterGone
  <2> DEFINE e == <<"adapterRemoved", "none">>
             gone == [d \in BlDevices |-> "absent"]
  <2>1. bl' = [[bl EXCEPT !.orders = <<>>, !.wanted = "none", !.real = gone]
                 EXCEPT !.events = Append(@, e)]
    BY <1>1 DEF BlAdapterGone, Signal
  <2>2. /\ DOMAIN bl' = BlFields /\ bl'.scenario = bl.scenario /\ bl'.orders = <<>>
        /\ bl'.events = Append(bl.events, e) /\ bl'.real = gone
        /\ bl'.pendingMode = bl.pendingMode
    BY <2>1 DEF BlGood, BlShape, BlFields
  <2>3. e \in BlSignals /\ bl.events \in Seq(BlSignals) /\ <<>> \in Seq(BlOrders)
    BY DEF BlSignals, BlGood, BlShape
  <2>4. /\ bl'.events \in Seq(BlSignals)
        /\ \E i \in 1..Len(bl'.events) : bl'.events[i] = e
    BY <2>2, <2>3, AppendParts
  <2>5. gone \in [BlDevices -> {"absent", "known", "connected"}]
    OBVIOUS
  <2>6. ~AdapterThere(bl')
    BY <2>4 DEF AdapterThere
  <2> QED
    BY <2>2, <2>3, <2>4, <2>5, <2>6 DEF BlGood, BlShape
<1>2. CASE UNCHANGED bl
  BY <1>2
<1> QED
  BY <1>1, <1>2, BlModeInv, BlEventInv, BlBluezInv, BlDeviceInv DEF BlNext

LEMMA BlPromise == BlGood(bl) => BlModeTold /\ BlConnectedAgrees
<1> SUFFICES ASSUME BlGood(bl), BlSettled
             PROVE  /\ bl.current = HostMode(bl)
                    /\ bl.connected = {d \in BlDevices : bl.real[d] = "connected"}
  BY DEF BlModeTold, BlConnectedAgrees
<1>1. Len(bl.events) = 0 /\ Len(bl.orders) = 0 /\ AdapterThere(bl)
  BY DEF BlSettled, AdapterThere
<1>2. DevicesSeen(bl) /\ ModeFollows(bl)
  BY <1>1 DEF BlGood
<1>3. bl.current = HostMode(bl)
  BY <1>1, <1>2 DEF ModeFollows, SignalWaits, OrderWaits
<1>4. \A d \in BlDevices : d \in bl.connected <=> bl.real[d] = "connected"
  BY <1>1, <1>2 DEF DevicesSeen, Picture
<1>5. bl.connected \subseteq BlDevices
  BY <1>2 DEF DevicesSeen
<1> QED
  BY <1>3, <1>4, <1>5

-------------------------------------------------------------------------------
(***************************************************************************)
(* WinrtDiscovery: what was advertised is told.                            *)
(***************************************************************************)
\* What the theorem about it assumes of the scenarios: see the README.
AdvertsAnswered ==
  \A s \in WdScenarios :
    s.adverts > 0 => {"unanswered", "denied", "detailsFail", "torn", "both"} \cap s.may = {}

WdFields == {"scenario", "adverts", "workers", "worker", "timer", "listed", "by", "ends",
             "ended", "posted"}
WdInfos == [services : Nat, data : Nat]
WdWorkers ==
  [methods : SUBSET WdMethods, finding : SUBSET WdMethods,
   ops : SUBSET ({"classic", "reading", "le", "advert"} \X WdDevices \X Nat), leaving : Nat,
   pending : Int, watcher : BOOLEAN, found : [WdDevices -> WdInfos], deleted : BOOLEAN]
WdNobody == ""
WdEvents ==
  [what : {"found", "data", "error", "finished", "delete"}, worker : Nat,
   device : WdDevices \cup {WdNobody}, info : WdInfos]

WdShape(p) ==
  /\ DOMAIN p = WdFields /\ p.scenario \in WdScenarios /\ p.adverts \in Nat
  /\ p.workers \in Seq(WdWorkers) /\ p.worker \in {0, Len(p.workers)}
  /\ p.listed \in [WdDevices -> WdInfos] /\ p.by \in [WdDevices -> Nat]
  /\ p.posted \in Seq(WdEvents)
  /\ \A k \in 1..Len(p.posted) :
       /\ p.posted[k].worker <= Len(p.workers)
       /\ p.posted[k].what \in {"found", "data"} => p.posted[k].device \in WdDevices

\* What is on its way about a device, and whether it brings new data.
WdTells(p, k, d) ==
  /\ p.posted[k].what \in {"found", "data"}
  /\ p.posted[k].worker = p.worker /\ p.posted[k].device = d
WdRenews(p, k, d) == p.posted[k].what = "data" /\ WdTells(p, k, d)
WdPairs(p, d) == \E m \in p.workers[p.worker].methods : d \in p.scenario.paired[m]

\* The worker of the search knows of a device what was advertised: the agent knows it
\* as well, or it is posted, or the device is being asked.
WdAbout(p, d) ==
  LET w == p.workers[p.worker]
      f == w.found[d]
  IN  /\ f.services = 0 => f.data = 0
      /\ p.scenario.adverts = 0 \/ WdPairs(p, d) => f.services = 0
      /\ f.services = 0 /\ ~WdPairs(p, d) =>
           /\ p.by[d] = 0
           /\ \A k \in 1..Len(p.posted) : ~WdTells(p, k, d)
           /\ \A op \in w.ops : op[2] # d
      /\ p.listed[d].services <= f.services
      /\ p.by[d] = 0 => p.listed[d] = WdUnseen
      /\ p.by[d] # 0 /\ (\A k \in 1..Len(p.posted) : ~WdRenews(p, k, d)) =>
           p.listed[d].data = f.data
      /\ \A k \in 1..Len(p.posted) : WdTells(p, k, d) =>
           /\ p.posted[k].info.services <= f.services
           /\ \/ p.posted[k].info.data = f.data
              \/ \E l \in 1..Len(p.posted) : l > k /\ WdRenews(p, l, d)
      /\ f.services > 0 =>
           \/ \E op \in w.ops : op[2] = d
           \/ \E k \in 1..Len(p.posted) :
                /\ WdTells(p, k, d) /\ p.posted[k].what = "found"
                /\ p.posted[k].info.services = f.services
           \/ p.by[d] # 0 /\ p.listed[d].services = f.services

\* The worker of the search is there: its deletion comes after the end of the search.
WdLives(p) ==
  /\ ~p.workers[p.worker].deleted
  /\ \A k \in 1..Len(p.posted) :
       p.posted[k].what = "delete" /\ p.posted[k].worker = p.worker =>
         \E l \in 1..Len(p.posted) : l < k /\ p.posted[l].what = "finished"
\* It asks for devices that are paired, or were advertised.
WdAsks(p) ==
  /\ p.workers[p.worker].finding \subseteq p.workers[p.worker].methods
  /\ \A op \in p.workers[p.worker].ops : op[1] # "advert" => WdPairs(p, op[2])

WdGood(p) ==
  /\ WdShape(p)
  /\ p.worker # 0 => WdLives(p) /\ WdAsks(p) /\ \A d \in WdDevices : WdAbout(p, d)

\* A worker changes.
WdSets(p, i, v) == [p EXCEPT !.workers[i] = v]
LEMMA WdSetsParts ==
  ASSUME NEW p, WdShape(p), NEW i \in 1..Len(p.workers), NEW v \in WdWorkers
  PROVE  /\ WdSets(p, i, v).workers[i] = v
         /\ \A j \in 1..Len(p.workers) : j # i => WdSets(p, i, v).workers[j] = p.workers[j]
         /\ Len(WdSets(p, i, v).workers) = Len(p.workers)
         /\ WdSets(p, i, v).worker = p.worker /\ WdSets(p, i, v).posted = p.posted
         /\ WdSets(p, i, v).listed = p.listed /\ WdSets(p, i, v).by = p.by
         /\ WdSets(p, i, v).scenario = p.scenario /\ WdSets(p, i, v).adverts = p.adverts
         /\ WdShape(WdSets(p, i, v))
<1> DEFINE q == WdSets(p, i, v)
<1>1. /\ p.workers \in Seq(WdWorkers) /\ DOMAIN p = WdFields
      /\ DOMAIN p.workers = 1..Len(p.workers) /\ Len(p.workers) \in Nat
  BY DEF WdShape
<1>2. q.workers = [p.workers EXCEPT ![i] = v] /\ DOMAIN q = WdFields
  BY <1>1 DEF WdSets, WdFields
<1>3. \A f \in WdFields : f # "workers" => q[f] = p[f]
  BY <1>1 DEF WdSets
<1>4. /\ q.workers \in Seq(WdWorkers) /\ Len(q.workers) = Len(p.workers)
      /\ q.workers[i] = v
      /\ \A j \in 1..Len(p.workers) : j # i => q.workers[j] = p.workers[j]
  BY <1>1, <1>2
<1>5. /\ q.worker = p.worker /\ q.posted = p.posted /\ q.listed = p.listed /\ q.by = p.by
      /\ q.scenario = p.scenario /\ q.adverts = p.adverts
  BY <1>3 DEF WdFields
<1> HIDE DEF q
<1>6. WdShape(q)
  BY <1>2, <1>4, <1>5 DEF WdShape
<1> QED
  BY <1>2, <1>4, <1>5, <1>6 DEF q

\* Something is posted.
WdFits(p, what, i, d, info) ==
  /\ what \in {"found", "data", "error", "finished", "delete"}
  /\ i \in 0..Len(p.workers) /\ d \in WdDevices \cup {WdNobody} /\ info \in WdInfos
  /\ what \in {"found", "data"} => d \in WdDevices
LEMMA WdPostParts ==
  ASSUME NEW p, WdShape(p), NEW what, NEW i, NEW d, NEW info, WdFits(p, what, i, d, info)
  PROVE  LET q == WdPost(p, what, i, d, info) IN
         /\ Len(q.posted) = Len(p.posted) + 1 /\ Len(p.posted) \in Nat
         /\ \A k \in 1..Len(p.posted) : q.posted[k] = p.posted[k]
         /\ q.posted[Len(p.posted) + 1] =
              [what |-> what, worker |-> i, device |-> d, info |-> info]
         /\ q.worker = p.worker /\ q.workers = p.workers
         /\ q.listed = p.listed /\ q.by = p.by
         /\ q.scenario = p.scenario /\ q.adverts = p.adverts
         /\ WdShape(q)
<1> DEFINE q == WdPost(p, what, i, d, info)
           e == [what |-> what, worker |-> i, device |-> d, info |-> info]
<1>1. p.posted \in Seq(WdEvents) /\ DOMAIN p = WdFields /\ p.workers \in Seq(WdWorkers)
  BY DEF WdShape
<1>2. e \in WdEvents
  BY <1>1 DEF WdEvents, WdFits
<1>3. q.posted = Append(p.posted, e) /\ DOMAIN q = WdFields
  BY <1>1 DEF WdPost, WdFields
<1>4. /\ q.worker = p.worker /\ q.workers = p.workers /\ q.listed = p.listed /\ q.by = p.by
      /\ q.scenario = p.scenario /\ q.adverts = p.adverts
  BY <1>1 DEF WdPost, WdFields
<1>5. e.worker <= Len(p.workers) /\ (e.what \in {"found", "data"} => e.device \in WdDevices)
  BY <1>1 DEF WdFits
<1> HIDE DEF q, e
<1>6. /\ Append(p.posted, e) \in Seq(WdEvents)
      /\ Len(Append(p.posted, e)) = Len(p.posted) + 1
      /\ Append(p.posted, e)[Len(p.posted) + 1] = e /\ Len(p.posted) \in Nat
      /\ \A k \in 1..Len(p.posted) : Append(p.posted, e)[k] = p.posted[k]
  BY <1>1, <1>2, AppendParts
<1>7. \A k \in 1..Len(q.posted) :
        /\ q.posted[k].worker <= Len(q.workers)
        /\ q.posted[k].what \in {"found", "data"} => q.posted[k].device \in WdDevices
  <2> TAKE k \in 1..Len(q.posted)
  <2>1. CASE k = Len(p.posted) + 1
    BY <2>1, <1>3, <1>4, <1>5, <1>6
  <2>2. CASE k \in 1..Len(p.posted)
    BY <2>2, <1>3, <1>4, <1>6 DEF WdShape
  <2> QED
    BY <2>1, <2>2, <1>3, <1>6
<1>8. WdShape(q)
  BY <1>3, <1>4, <1>6, <1>7 DEF WdShape
<1> QED
  BY <1>3, <1>4, <1>6, <1>8 DEF q, e

LEMMA WdPostWorkers ==
  ASSUME NEW p, WdShape(p), NEW what, NEW i, NEW d, NEW info
  PROVE  /\ WdPost(p, what, i, d, info).workers = p.workers
         /\ WdPost(p, what, i, d, info).worker = p.worker
<1>1. DOMAIN p = WdFields
  BY DEF WdShape
<1> QED
  BY <1>1 DEF WdPost, WdFields

\* Something that tells the agent nothing of a device is posted.
LEMMA WdPostGood ==
  ASSUME NEW p, WdGood(p), NEW what, NEW i, NEW d, NEW info, WdFits(p, what, i, d, info),
         what \in {"found", "data"} => i # p.worker,
         what = "delete" /\ i = p.worker /\ p.worker # 0 =>
           \E l \in 1..Len(p.posted) : p.posted[l].what = "finished"
  PROVE  WdGood(WdPost(p, what, i, d, info))
<1> DEFINE q == WdPost(p, what, i, d, info)
           e == [what |-> what, worker |-> i, device |-> d, info |-> info]
           n == Len(p.posted)
<1>1. WdShape(p)
  BY DEF WdGood
<1>2. /\ Len(q.posted) = n + 1 /\ n \in Nat
      /\ \A k \in 1..n : q.posted[k] = p.posted[k]
      /\ q.posted[n + 1] = e
      /\ q.worker = p.worker /\ q.workers = p.workers /\ q.listed = p.listed /\ q.by = p.by
      /\ q.scenario = p.scenario /\ q.adverts = p.adverts /\ WdShape(q)
  BY <1>1, WdPostParts
<1>3. e.what = what /\ e.worker = i /\ e.device = d /\ e.info = info
  OBVIOUS
<1> HIDE DEF q, e, n
<1>4. ASSUME NEW c \in WdDevices
      PROVE  /\ \A k \in 1..n : WdTells(q, k, c) <=> WdTells(p, k, c)
             /\ \A k \in 1..n : WdRenews(q, k, c) <=> WdRenews(p, k, c)
             /\ ~WdTells(q, n + 1, c) /\ ~WdRenews(q, n + 1, c)
  BY <1>2, <1>3 DEF WdTells, WdRenews
<1>5. ASSUME NEW c \in WdDevices, WdAbout(p, c)
      PROVE  WdAbout(q, c)
  <2>1. \A k \in 1..Len(q.posted) : k \in 1..n \/ k = n + 1
    BY <1>2
  <2>2. \A k \in 1..n : k \in 1..Len(q.posted)
    BY <1>2
  <2>3. WdPairs(q, c) <=> WdPairs(p, c)
    BY <1>2 DEF WdPairs
  <2> QED
    BY <1>2, <1>4, <1>5, <2>1, <2>2, <2>3 DEF WdAbout, n
<1>6. ASSUME p.worker # 0, WdLives(p)
      PROVE  WdLives(q)
  <2>1. \A k \in 1..Len(q.posted) : k \in 1..n \/ k = n + 1
    BY <1>2
  <2>2. \A k \in 1..n : k \in 1..Len(q.posted) /\ k < n + 1
    BY <1>2
  <2>3. ~q.workers[q.worker].deleted
    BY <1>2, <1>6 DEF WdLives
  <2>4. ASSUME NEW k \in 1..Len(q.posted),
               q.posted[k].what = "delete" /\ q.posted[k].worker = q.worker
        PROVE  \E l \in 1..Len(q.posted) : l < k /\ q.posted[l].what = "finished"
    <3>1. CASE k \in 1..n
      <4>1. PICK l \in 1..n : l < k /\ p.posted[l].what = "finished"
        BY <1>2, <1>6, <2>4, <3>1 DEF WdLives, n
      <4> QED
        BY <1>2, <2>2, <4>1
    <3>2. CASE k = n + 1
      <4>1. PICK l \in 1..n : p.posted[l].what = "finished"
        BY <1>2, <1>3, <1>6, <2>4, <3>2 DEF n
      <4> QED
        BY <1>2, <2>2, <3>2, <4>1
    <3> QED
      BY <2>1, <3>1, <3>2
  <2> QED
    BY <2>3, <2>4 DEF WdLives
<1>7. WdAsks(p) => WdAsks(q)
  <2>1. \A c : WdPairs(q, c) <=> WdPairs(p, c)
    BY <1>2 DEF WdPairs
  <2> QED
    BY <1>2, <2>1 DEF WdAsks
<1>8. p.worker # 0 => WdLives(p) /\ WdAsks(p) /\ \A c \in WdDevices : WdAbout(p, c)
  BY DEF WdGood
<1>9. q.worker # 0 => WdLives(q) /\ WdAsks(q) /\ \A c \in WdDevices : WdAbout(q, c)
  BY <1>2, <1>5, <1>6, <1>7, <1>8
<1> QED
  BY <1>2, <1>9 DEF q, WdGood

\* A worker ends what it was asking, or asks for paired devices.
LEMMA WdSetsGood ==
  ASSUME NEW p, WdGood(p), NEW i \in 1..Len(p.workers), NEW v \in WdWorkers,
         i = p.worker =>
           LET w == p.workers[i] IN
           /\ v.found = w.found /\ v.methods = w.methods /\ v.deleted = w.deleted
           /\ v.finding \subseteq w.finding
           /\ \A op \in v.ops \ w.ops : op[1] # "advert"
           /\ \A op \in v.ops : op[1] # "advert" => WdPairs(p, op[2])
           /\ \A op \in w.ops \ v.ops : w.found[op[2]].services = 0
  PROVE  WdGood(WdSets(p, i, v))
<1> DEFINE q == WdSets(p, i, v)
<1>1. WdShape(p)
  BY DEF WdGood
<1>2. /\ q.workers[i] = v
      /\ \A j \in 1..Len(p.workers) : j # i => q.workers[j] = p.workers[j]
      /\ Len(q.workers) = Len(p.workers) /\ q.worker = p.worker /\ q.posted = p.posted
      /\ q.listed = p.listed /\ q.by = p.by /\ q.scenario = p.scenario
      /\ q.adverts = p.adverts /\ WdShape(q)
  BY ONLY <1>1, WdSetsParts, i \in 1..Len(p.workers), v \in WdWorkers
<1> HIDE DEF q
<1>3. CASE p.worker = 0
  BY <1>2, <1>3 DEF q, WdGood
<1>4. CASE p.worker # 0
  <2> DEFINE w == p.workers[p.worker]
             u == q.workers[q.worker]
  <2>1. p.worker \in 1..Len(p.workers)
    BY <1>1, <1>4 DEF WdShape
  <2>2. /\ u.found = w.found /\ u.methods = w.methods /\ u.deleted = w.deleted
        /\ u.finding \subseteq w.finding
        /\ \A op \in u.ops \ w.ops : op[1] # "advert"
        /\ \A op \in u.ops : op[1] # "advert" => WdPairs(p, op[2])
        /\ \A op \in w.ops \ u.ops : w.found[op[2]].services = 0
    <3>1. WdAsks(p)
      BY <1>4 DEF WdGood
    <3>2. CASE i = p.worker
      BY <1>2, <3>2
    <3>3. CASE i # p.worker
      BY <1>2, <2>1, <3>1, <3>3 DEF WdAsks
    <3> QED
      BY <3>2, <3>3
  <2>3. \A k, c : /\ WdTells(q, k, c) <=> WdTells(p, k, c)
                  /\ WdRenews(q, k, c) <=> WdRenews(p, k, c)
    BY <1>2 DEF WdTells, WdRenews
  <2>4. \A c : WdPairs(q, c) <=> WdPairs(p, c)
    BY <1>2, <2>2 DEF WdPairs
  <2> HIDE DEF w, u
  <2>5. ASSUME NEW c \in WdDevices
        PROVE  WdAbout(q, c)
    <3>1. WdAbout(p, c)
      BY <1>4 DEF WdGood
    <3>2. u.found[c] = w.found[c]
      BY <2>2
    <3>3. w.found[c].services = 0 /\ ~WdPairs(p, c) => \A op \in u.ops : op[2] # c
      BY <2>2, <3>1 DEF WdAbout, w
    <3>4. w.found[c].services > 0 /\ (\E op \in w.ops : op[2] = c) => \E op \in u.ops : op[2] = c
      <4>1. ASSUME w.found[c].services > 0, NEW op \in w.ops, op[2] = c
            PROVE  op \in u.ops
        BY <2>2, <4>1
      <4> QED
        BY <4>1
    <3> QED
      BY <1>2, <2>3, <2>4, <3>1, <3>2, <3>3, <3>4 DEF WdAbout, w, u
  <2>6. WdLives(q)
    BY <1>2, <1>4, <2>2 DEF WdGood, WdLives, w, u
  <2>7. WdAsks(q)
    <3>1. w.finding \subseteq w.methods
      BY <1>4 DEF WdGood, WdAsks, w
    <3>2. u.finding \subseteq u.methods
      BY <2>2, <3>1
    <3> QED
      BY <2>2, <2>4, <3>2 DEF WdAsks, u
  <2> QED
    BY <1>2, <2>5, <2>6, <2>7 DEF q, WdGood
<1> QED
  BY <1>3, <1>4

\* The search has an error, or its worker ends it.
LEMMA WdErrorIs ==
  ASSUME NEW p
  PROVE  WdError(p) = WdPost(p, "error", 0, WdNobody, WdUnseen)
BY Zenon DEF WdError, WdNobody
LEMMA WdFinishIs ==
  ASSUME NEW p, NEW i, NEW q, q = [p EXCEPT !.workers[i].watcher = FALSE]
  PROVE  WdFinish(p, i) =
           WdPost(IF i = p.worker THEN WdPost(q, "finished", i, WdNobody, WdUnseen) ELSE q,
                  "delete", i, WdNobody, WdUnseen)
BY Zenon DEF WdFinish, WdNobody
LEMMA WdUnseenInfo == WdUnseen \in WdInfos /\ WdUnseen.services = 0 /\ WdUnseen.data = 0
BY DEF WdUnseen, WdInfos
LEMMA WdErrorGood ==
  ASSUME NEW p, WdGood(p)
  PROVE  WdGood(WdError(p))
<1>1. 0 \in 0..Len(p.workers)
  BY DEF WdGood, WdShape
<1>2. WdFits(p, "error", 0, WdNobody, WdUnseen)
  BY <1>1, WdUnseenInfo DEF WdFits
<1> QED
  BY <1>2, WdErrorIs, WdPostGood

LEMMA WdErrorParts ==
  ASSUME NEW p, WdShape(p)
  PROVE  /\ WdError(p).workers = p.workers /\ WdError(p).worker = p.worker
         /\ WdError(p).scenario = p.scenario
<1>1. DOMAIN p = WdFields
  BY DEF WdShape
<1> QED
  BY <1>1 DEF WdError, WdPost, WdFields

\* A worker stops listening.
LEMMA WdDeafGood ==
  ASSUME NEW p, WdGood(p), NEW i \in 1..Len(p.workers)
  PROVE  LET q == [p EXCEPT !.workers[i].watcher = FALSE] IN
         /\ WdGood(q) /\ q.worker = p.worker /\ q.posted = p.posted
         /\ Len(q.workers) = Len(p.workers)
<1> DEFINE w == p.workers[i]
           v == [w EXCEPT !.watcher = FALSE]
           q == [p EXCEPT !.workers[i].watcher = FALSE]
<1>1. WdShape(p) /\ p.workers \in Seq(WdWorkers)
  BY DEF WdGood, WdShape
<1>2. w \in WdWorkers
  BY <1>1
<1>3. v \in WdWorkers
  BY <1>2 DEF WdWorkers
<1>4. /\ v.found = w.found /\ v.methods = w.methods /\ v.deleted = w.deleted
      /\ v.finding = w.finding /\ v.ops = w.ops
  BY <1>2 DEF WdWorkers
<1>5. q = WdSets(p, i, v)
  BY Zenon DEF WdSets
<1> HIDE DEF w, v, q
<1>6. i = p.worker =>
        /\ v.found = w.found /\ v.methods = w.methods /\ v.deleted = w.deleted
        /\ v.finding \subseteq w.finding
        /\ \A op \in v.ops \ w.ops : op[1] # "advert"
        /\ \A op \in v.ops : op[1] # "advert" => WdPairs(p, op[2])
        /\ \A op \in w.ops \ v.ops : w.found[op[2]].services = 0
  <2> SUFFICES ASSUME i = p.worker
               PROVE  \A op \in w.ops : op[1] # "advert" => WdPairs(p, op[2])
    BY <1>4
  <2>1. i # 0
    BY <1>1 DEF WdShape
  <2>2. WdAsks(p)
    BY <2>1 DEF WdGood
  <2> QED
    BY <2>2 DEF WdAsks, w
<1>7. WdGood(WdSets(p, i, v))
  BY <1>3, <1>6, WdSetsGood DEF w
<1>8. /\ WdSets(p, i, v).worker = p.worker /\ WdSets(p, i, v).posted = p.posted
      /\ Len(WdSets(p, i, v).workers) = Len(p.workers)
  BY <1>1, <1>3, WdSetsParts
<1> QED
  BY <1>5, <1>7, <1>8 DEF q

LEMMA WdFinishGood ==
  ASSUME NEW p, WdGood(p), NEW i \in 1..Len(p.workers)
  PROVE  WdGood(WdFinish(p, i))
<1> DEFINE q == [p EXCEPT !.workers[i].watcher = FALSE]
           r == WdPost(q, "finished", i, WdNobody, WdUnseen)
           e == IF i = p.worker THEN r ELSE q
<1>1. WdFinish(p, i) = WdPost(e, "delete", i, WdNobody, WdUnseen)
  BY WdFinishIs
<1>2. WdGood(q) /\ q.worker = p.worker /\ Len(q.workers) = Len(p.workers)
  BY WdDeafGood
<1> HIDE DEF q
<1>3. WdFits(q, "finished", i, WdNobody, WdUnseen) /\ WdFits(q, "delete", i, WdNobody, WdUnseen)
  BY <1>2, WdUnseenInfo DEF WdFits, WdGood, WdShape
<1>4. WdGood(r)
  BY <1>2, <1>3, WdPostGood
<1>5. /\ r.worker = q.worker /\ r.workers = q.workers
      /\ r.posted[Len(q.posted) + 1] =
           [what |-> "finished", worker |-> i, device |-> WdNobody, info |-> WdUnseen]
      /\ Len(r.posted) = Len(q.posted) + 1 /\ Len(q.posted) \in Nat
  BY <1>2, <1>3, WdPostParts DEF WdGood
<1> HIDE DEF r
<1>6. CASE i = p.worker
  <2>1. e = r
    BY <1>6
  <2>2. WdFits(e, "delete", i, WdNobody, WdUnseen)
    BY <1>3, <1>5, <2>1 DEF WdFits
  <2>3. \E l \in 1..Len(e.posted) : e.posted[l].what = "finished"
    <3>1. Len(q.posted) + 1 \in 1..Len(r.posted)
      BY <1>5
    <3> QED
      BY <1>5, <2>1, <3>1
  <2> HIDE DEF e
  <2> QED
    BY <1>1, <1>4, <2>1, <2>2, <2>3, WdPostGood
<1>7. CASE i # p.worker
  <2>1. e = q
    BY <1>7
  <2> HIDE DEF e
  <2> QED
    BY <1>1, <1>2, <1>3, <1>7, <2>1, WdPostGood
<1> QED
  BY <1>6, <1>7

LEMMA WdFinishIfLastGood ==
  ASSUME NEW p, WdGood(p), NEW i \in 1..Len(p.workers)
  PROVE  WdGood(WdFinishIfLast(p, i))
BY WdFinishGood DEF WdFinishIfLast

\* The paired devices that were found are asked.
LEMMA WdGatherGood ==
  ASSUME NEW p, WdGood(p), NEW i \in 1..Len(p.workers), NEW m \in WdMethods,
         NEW devices, devices \subseteq WdDevices, NEW refused \in SUBSET devices,
         i = p.worker => m \in p.workers[i].methods /\ devices = p.scenario.paired[m]
  PROVE  WdGood(WdGather(p, i, m, devices, refused))
<1> DEFINE w == p.workers[i]
           n == Cardinality(devices \ refused)
           asked == {<<m, d, 0>> : d \in devices \ refused}
           a == [w EXCEPT !.pending = @ + n]
           v == [a EXCEPT !.ops = @ \cup asked]
           q == [p EXCEPT !.workers[i].pending = @ + n, !.workers[i].ops = @ \cup asked]
           told == IF refused = {} THEN q ELSE WdError(q)
<1>1. WdShape(p) /\ p.workers \in Seq(WdWorkers) /\ DOMAIN p = WdFields
  BY DEF WdGood, WdShape
<1>2. w \in WdWorkers
  BY <1>1
<1>3. n \in Int
  <2>1. IsFiniteSet(devices \ refused)
    BY WdAssumption, FS_Subset
  <2> QED
    BY <2>1, FS_CardinalityType
<1>4. asked \subseteq {"classic", "reading", "le", "advert"} \X WdDevices \X Nat
  BY DEF WdMethods
<1>5. \A op \in asked : op[1] = m /\ op[2] \in devices
  OBVIOUS
<1> HIDE DEF asked, n
<1>6. /\ a \in WdWorkers /\ a.ops = w.ops /\ a.found = w.found /\ a.methods = w.methods
      /\ a.deleted = w.deleted /\ a.finding = w.finding
  BY <1>2, <1>3 DEF WdWorkers
<1> HIDE DEF a
<1>7. /\ v \in WdWorkers /\ v.ops = a.ops \cup asked /\ v.found = a.found
      /\ v.methods = a.methods /\ v.deleted = a.deleted /\ v.finding = a.finding
  BY <1>4, <1>6 DEF WdWorkers
<1>8. q = WdSets(p, i, v)
  <2> DEFINE all == [p.workers EXCEPT ![i] = a]
             b == [p EXCEPT !.workers = all]
  <2>1. b.workers = all /\ all[i] = a
    BY <1>1
  <2>2. q = [b EXCEPT !.workers[i].ops = @ \cup asked]
    BY Zenon DEF a
  <2>3. [b EXCEPT !.workers[i].ops = @ \cup asked] = [b EXCEPT !.workers = [all EXCEPT ![i] = v]]
    BY <2>1
  <2>4. [all EXCEPT ![i] = v] = [p.workers EXCEPT ![i] = v]
    BY <1>1
  <2>5. [b EXCEPT !.workers = [all EXCEPT ![i] = v]] = [p EXCEPT !.workers = [p.workers EXCEPT ![i] = v]]
    BY <1>1, <2>4
  <2> QED
    BY <2>2, <2>3, <2>5 DEF WdSets
<1> HIDE DEF v, w, q
<1>9. i = p.worker =>
        /\ v.found = w.found /\ v.methods = w.methods /\ v.deleted = w.deleted
        /\ v.finding \subseteq w.finding
        /\ \A op \in v.ops \ w.ops : op[1] # "advert"
        /\ \A op \in v.ops : op[1] # "advert" => WdPairs(p, op[2])
        /\ \A op \in w.ops \ v.ops : w.found[op[2]].services = 0
  <2> SUFFICES ASSUME i = p.worker
               PROVE  /\ \A op \in asked : op[1] # "advert"
                      /\ \A op \in v.ops : op[1] # "advert" => WdPairs(p, op[2])
    BY <1>6, <1>7
  <2>1. i # 0
    BY <1>1 DEF WdShape
  <2>2. WdAsks(p)
    BY <2>1 DEF WdGood
  <2>3. \A op \in asked : op[1] # "advert" /\ WdPairs(p, op[2])
    BY <1>5 DEF WdPairs, WdMethods
  <2> QED
    BY <1>6, <1>7, <2>2, <2>3 DEF WdAsks, w
<1>10. WdGood(q) /\ Len(q.workers) = Len(p.workers)
  BY <1>1, <1>7, <1>8, <1>9, WdSetsGood, WdSetsParts DEF w
<1>11. WdGood(WdError(q)) /\ Len(WdError(q).workers) = Len(q.workers)
  <2>1. WdShape(q)
    BY <1>10 DEF WdGood
  <2> QED
    BY <1>10, <2>1, WdErrorGood, WdErrorParts
<1>12. WdGood(told) /\ Len(told.workers) = Len(p.workers)
  BY <1>10, <1>11
<1>13. WdGather(p, i, m, devices, refused) =
        IF devices = {} /\ WdClassicOnly(p, i) THEN WdFinish(p, i)
        ELSE IF devices # {} /\ devices = refused THEN WdFinishIfLast(told, i) ELSE told
  BY Zenon DEF WdGather, q, n, asked
<1> HIDE DEF told
<1>14. WdGood(WdFinish(p, i)) /\ WdGood(WdFinishIfLast(told, i))
  BY <1>12, WdFinishGood, WdFinishIfLastGood
<1> QED
  BY <1>12, <1>13, <1>14

\* A device that was asked answers: it is posted, as the worker knows it.
LEMMA WdFoundGood ==
  ASSUME NEW p, WdGood(p), NEW i \in 1..Len(p.workers), NEW op \in p.workers[i].ops,
         NEW v \in WdWorkers, v.found = p.workers[i].found,
         v.methods = p.workers[i].methods, v.deleted = p.workers[i].deleted,
         v.finding = p.workers[i].finding, v.ops = p.workers[i].ops \ {op},
         NEW info \in WdInfos, i = p.worker => info = p.workers[i].found[op[2]]
  PROVE  WdGood(WdPost(WdSets(p, i, v), "found", i, op[2], info))
<1> DEFINE b == WdSets(p, i, v)
           d == op[2]
           q == WdPost(b, "found", i, d, info)
           n == Len(p.posted)
           e == [what |-> "found", worker |-> i, device |-> d, info |-> info]
<1>1. WdShape(p) /\ p.workers \in Seq(WdWorkers)
  BY DEF WdGood, WdShape
<1>2. p.workers[i] \in WdWorkers /\ d \in WdDevices
  <2>1. p.workers[i] \in WdWorkers
    BY <1>1
  <2> QED
    BY <2>1 DEF WdWorkers
<1>3. /\ b.workers[i] = v
      /\ Len(b.workers) = Len(p.workers) /\ b.worker = p.worker /\ b.posted = p.posted
      /\ b.listed = p.listed /\ b.by = p.by /\ b.scenario = p.scenario
      /\ b.adverts = p.adverts /\ WdShape(b)
  BY ONLY <1>1, WdSetsParts, i \in 1..Len(p.workers), v \in WdWorkers
<1> HIDE DEF b, d
<1>4. WdFits(b, "found", i, d, info)
  BY <1>2, <1>3 DEF WdFits
<1>5. /\ Len(q.posted) = n + 1 /\ n \in Nat
      /\ \A k \in 1..n : q.posted[k] = p.posted[k]
      /\ q.posted[n + 1] = e
      /\ q.worker = p.worker /\ q.workers = b.workers /\ q.listed = p.listed /\ q.by = p.by
      /\ q.scenario = p.scenario /\ WdShape(q)
  BY ONLY <1>3, <1>4, WdPostParts, SMTT(60)
<1>6. e.what = "found" /\ e.worker = i /\ e.device = d /\ e.info = info
  OBVIOUS
<1> HIDE DEF q, e, n
<1>7. CASE i # p.worker
  <2>1. WdGood(b)
    BY <1>7, WdSetsGood DEF b
  <2> QED
    BY <1>3, <1>4, <1>7, <2>1, WdPostGood DEF q, b, d
<1>8. CASE i = p.worker
  <2> DEFINE w == p.workers[i]
  <2>1. p.worker # 0 /\ q.worker # 0 /\ q.workers[q.worker] = v
    BY <1>3, <1>5, <1>8
  <2>2. info = w.found[d]
    BY <1>8 DEF d
  <2>3. WdLives(p) /\ WdAsks(p) /\ \A c \in WdDevices : WdAbout(p, c)
    BY <2>1 DEF WdGood
  <2>4. \A c : WdPairs(q, c) <=> WdPairs(p, c)
    BY <1>5, <1>8, <2>1 DEF WdPairs
  <2>5. ASSUME NEW c
        PROVE  /\ \A k \in 1..n : WdTells(q, k, c) <=> WdTells(p, k, c)
               /\ \A k \in 1..n : WdRenews(q, k, c) <=> WdRenews(p, k, c)
               /\ WdTells(q, n + 1, c) <=> c = d
               /\ ~WdRenews(q, n + 1, c)
    BY <1>5, <1>6, <1>8 DEF WdTells, WdRenews
  <2>6. /\ \A k \in 1..Len(q.posted) : k \in 1..n \/ k = n + 1
        /\ \A k \in 1..n : k \in 1..Len(q.posted)
        /\ n + 1 \in 1..Len(q.posted)
    BY <1>5
  <2>7. WdLives(q)
    <3>1. ~q.workers[q.worker].deleted
      BY <1>8, <2>1, <2>3 DEF WdLives
    <3>2. ASSUME NEW k \in 1..Len(q.posted),
                 q.posted[k].what = "delete", q.posted[k].worker = q.worker
          PROVE  \E l \in 1..Len(q.posted) : l < k /\ q.posted[l].what = "finished"
      <4>1. k \in 1..n
        BY <1>5, <1>6, <2>6, <3>2
      <4>2. PICK l \in 1..n : l < k /\ p.posted[l].what = "finished"
        BY <1>5, <2>3, <3>2, <4>1 DEF WdLives, n
      <4> QED
        BY <1>5, <2>6, <4>2
    <3> QED
      BY <3>1, <3>2 DEF WdLives
  <2>8. WdAsks(q)
    BY <1>8, <2>1, <2>3, <2>4 DEF WdAsks
  <2> HIDE DEF w
  <2>9. ASSUME NEW c \in WdDevices
        PROVE  WdAbout(q, c)
    <3> DEFINE f == w.found[c]
    <3>1. WdAbout(p, c)
      BY <2>3
    <3>2. v.found[c] = f /\ w = p.workers[p.worker]
      BY <1>8 DEF w
    <3> HIDE DEF f
    <3>3. f.services = 0 /\ ~WdPairs(q, c) =>
            /\ q.by[c] = 0 /\ \A k \in 1..Len(q.posted) : ~WdTells(q, k, c)
            /\ \A o \in v.ops : o[2] # c
      <4>1. f.services = 0 /\ ~WdPairs(q, c) =>
              /\ p.by[c] = 0 /\ \A k \in 1..n : ~WdTells(p, k, c)
              /\ \A o \in w.ops : o[2] # c
        BY <2>4, <3>1, <3>2 DEF WdAbout, f, n
      <4>2. f.services = 0 /\ ~WdPairs(q, c) => c # d
        BY <4>1 DEF d, w
      <4> QED
        BY <1>5, <2>5, <2>6, <4>1, <4>2 DEF w
    <3>4. q.by[c] # 0 /\ (\A k \in 1..Len(q.posted) : ~WdRenews(q, k, c)) =>
            q.listed[c].data = f.data
      BY <1>5, <2>5, <2>6, <3>1, <3>2 DEF WdAbout, f, n
    <3>5. ASSUME NEW k \in 1..Len(q.posted), WdTells(q, k, c)
          PROVE  /\ q.posted[k].info.services <= f.services
                 /\ \/ q.posted[k].info.data = f.data
                    \/ \E l \in 1..Len(q.posted) : l > k /\ WdRenews(q, l, c)
      <4>1. CASE k \in 1..n
        <5>1. WdTells(p, k, c) /\ k \in 1..Len(p.posted) /\ q.posted[k] = p.posted[k]
          BY <1>5, <2>5, <3>5, <4>1 DEF n
        <5>2. /\ p.posted[k].info.services <= f.services
              /\ \/ p.posted[k].info.data = f.data
                 \/ \E l \in 1..Len(p.posted) : l > k /\ WdRenews(p, l, c)
          BY <3>1, <3>2, <5>1 DEF WdAbout, f
        <5> QED
          BY <2>5, <2>6, <5>1, <5>2 DEF n
      <4>2. CASE k = n + 1
        <5>1. c = d /\ q.posted[k].info = f
          BY <1>5, <1>6, <2>2, <2>5, <3>5, <4>2 DEF f
        <5>2. f \in WdInfos
          BY <1>2 DEF WdWorkers, f, w
        <5> QED
          BY <5>1, <5>2 DEF WdInfos
      <4> QED
        BY <2>6, <4>1, <4>2
    <3>6. f.services > 0 =>
            \/ \E o \in v.ops : o[2] = c
            \/ \E k \in 1..Len(q.posted) :
                 /\ WdTells(q, k, c) /\ q.posted[k].what = "found"
                 /\ q.posted[k].info.services = f.services
            \/ q.by[c] # 0 /\ q.listed[c].services = f.services
      <4>1. CASE c = d
        <5>1. WdTells(q, n + 1, c) /\ q.posted[n + 1].what = "found"
          BY <1>5, <1>6, <2>5, <4>1
        <5>2. q.posted[n + 1].info.services = f.services
          BY <1>5, <1>6, <2>2, <4>1 DEF f
        <5> QED
          BY <2>6, <5>1, <5>2
      <4>2. CASE c # d
        <5>1. \A o \in w.ops : o[2] = c => o \in v.ops
          BY <4>2 DEF d, w
        <5>2. \A k \in 1..n : /\ WdTells(p, k, c) => WdTells(q, k, c)
                              /\ q.posted[k] = p.posted[k] /\ k \in 1..Len(q.posted)
          BY <1>5, <2>5, <2>6
        <5>3. f.services > 0 =>
                \/ \E o \in w.ops : o[2] = c
                \/ \E k \in 1..n :
                     /\ WdTells(p, k, c) /\ p.posted[k].what = "found"
                     /\ p.posted[k].info.services = f.services
                \/ p.by[c] # 0 /\ p.listed[c].services = f.services
          BY <3>1, <3>2 DEF WdAbout, f, n
        <5> QED
          BY <1>5, <5>1, <5>2, <5>3
      <4> QED
        BY <4>1, <4>2
    <3>7. /\ f.services = 0 => f.data = 0
          /\ q.scenario.adverts = 0 \/ WdPairs(q, c) => f.services = 0
          /\ q.listed[c].services <= f.services
          /\ q.by[c] = 0 => q.listed[c] = WdUnseen
      BY <1>5, <2>4, <3>1, <3>2 DEF WdAbout, f
    <3>8. q.workers[q.worker].found[c] = f /\ q.workers[q.worker].ops = v.ops
      BY <2>1, <3>2
    <3> QED
      BY <3>3, <3>4, <3>5, <3>6, <3>7, <3>8 DEF WdAbout
  <2> QED
    BY <1>5, <2>7, <2>8, <2>9 DEF q, b, d, WdGood
<1> QED
  BY <1>7, <1>8

\* A worker stops waiting for what it asked, and changes only its counts.
WdTakes(p, i, op, v) ==
  /\ i \in 1..Len(p.workers) /\ op \in p.workers[i].ops /\ v \in WdWorkers
  /\ v.found = p.workers[i].found /\ v.methods = p.workers[i].methods
  /\ v.deleted = p.workers[i].deleted /\ v.finding = p.workers[i].finding
  /\ v.ops = p.workers[i].ops \ {op}
LEMMA WdTakenSilent ==
  ASSUME NEW p, WdGood(p), NEW i, NEW op, NEW v, WdTakes(p, i, op, v),
         i = p.worker => p.workers[i].found[op[2]].services = 0
  PROVE  /\ WdGood(WdSets(p, i, v)) /\ WdGood(WdError(WdSets(p, i, v)))
         /\ WdGood(WdFinishIfLast(WdSets(p, i, v), i))
<1>1. i \in 1..Len(p.workers) /\ v \in WdWorkers /\ WdShape(p)
  BY DEF WdTakes, WdGood
<1>2. i = p.worker =>
        LET w == p.workers[i] IN
        /\ v.found = w.found /\ v.methods = w.methods /\ v.deleted = w.deleted
        /\ v.finding \subseteq w.finding
        /\ \A o \in v.ops \ w.ops : o[1] # "advert"
        /\ \A o \in v.ops : o[1] # "advert" => WdPairs(p, o[2])
        /\ \A o \in w.ops \ v.ops : w.found[o[2]].services = 0
  <2> SUFFICES ASSUME i = p.worker
               PROVE  \A o \in v.ops : o[1] # "advert" => WdPairs(p, o[2])
    BY DEF WdTakes
  <2>1. i # 0
    BY <1>1 DEF WdShape
  <2>2. WdAsks(p)
    BY <2>1 DEF WdGood
  <2> QED
    BY <2>2 DEF WdAsks, WdTakes
<1>3. WdGood(WdSets(p, i, v))
  BY <1>1, <1>2, WdSetsGood
<1>4. Len(WdSets(p, i, v).workers) = Len(p.workers)
  BY <1>1, WdSetsParts
<1> QED
  BY <1>1, <1>3, <1>4, WdErrorGood, WdFinishIfLastGood

LEMMA WdTakenFound ==
  ASSUME NEW p, WdGood(p), NEW i, NEW op, NEW v, WdTakes(p, i, op, v),
         NEW info \in WdInfos, i = p.worker => info = p.workers[i].found[op[2]]
  PROVE  LET q == WdPost(WdSets(p, i, v), "found", i, op[2], info)
         IN  WdGood(q) /\ WdGood(WdFinishIfLast(q, i))
<1> DEFINE b == WdSets(p, i, v)
           q == WdPost(b, "found", i, op[2], info)
<1>1. i \in 1..Len(p.workers) /\ v \in WdWorkers /\ WdShape(p)
  BY DEF WdTakes, WdGood
<1>3. WdGood(q)
  BY <1>1, WdFoundGood DEF WdTakes
<1>4. Len(b.workers) = Len(p.workers) /\ WdShape(b)
  BY <1>1, WdSetsParts
<1> HIDE DEF b
<1>6. q.workers = b.workers
  BY <1>4, WdPostWorkers
<1> HIDE DEF q
<1>7. WdGood(WdFinishIfLast(q, i))
  BY <1>1, <1>3, <1>4, <1>6, WdFinishIfLastGood
<1> QED
  BY <1>3, <1>7 DEF q, b

\* What the worker of the search does not hear of a device was never advertised.
LEMMA WdAskedUnseen ==
  ASSUME AdvertsAnswered, WdGood(wd), wd.worker # 0, NEW d \in WdDevices
  PROVE  LET f == wd.workers[wd.worker].found[d] IN
         /\ f \in WdInfos
         /\ \A x \in {"unanswered", "denied", "detailsFail", "torn", "both"} :
              WdMay(x) => f = WdUnseen
         /\ WdPairs(wd, d) => f = WdUnseen
<1> DEFINE f == wd.workers[wd.worker].found[d]
<1>1. WdAbout(wd, d) /\ wd.scenario \in WdScenarios /\ wd.workers[wd.worker] \in WdWorkers
  BY DEF WdGood, WdShape
<1>2. f \in WdInfos
  BY <1>1 DEF WdWorkers
<1>3. f.services = 0 => f = WdUnseen
  BY <1>1, <1>2 DEF WdAbout, WdInfos, WdUnseen
<1>4. ASSUME NEW x \in {"unanswered", "denied", "detailsFail", "torn", "both"}, WdMay(x)
      PROVE  wd.scenario.adverts = 0
  <2>1. wd.scenario.adverts \in Nat
    BY <1>1, WdAssumption
  <2>2. ~(wd.scenario.adverts > 0)
    BY <1>1, <1>4 DEF AdvertsAnswered, WdMay
  <2> QED
    BY <2>1, <2>2
<1> QED
  BY <1>1, <1>2, <1>3, <1>4 DEF WdAbout

LEMMA WdSetsAgain ==
  ASSUME NEW p, WdShape(p), NEW i \in 1..Len(p.workers), NEW v, NEW u
  PROVE  WdSets(WdSets(p, i, v), i, u) = WdSets(p, i, u)
<1> DEFINE all == [p.workers EXCEPT ![i] = v]
           b == [p EXCEPT !.workers = all]
<1>1. DOMAIN p = WdFields /\ DOMAIN p.workers = 1..Len(p.workers)
  BY DEF WdShape
<1>2. WdSets(p, i, v) = b /\ b.workers = all
  BY <1>1 DEF WdSets, WdFields
<1>3. WdSets(b, i, u) = [b EXCEPT !.workers = [all EXCEPT ![i] = u]]
  BY <1>2 DEF WdSets
<1>4. [all EXCEPT ![i] = u] = [p.workers EXCEPT ![i] = u]
  BY <1>1
<1>5. [b EXCEPT !.workers = [all EXCEPT ![i] = u]]
        = [p EXCEPT !.workers = [p.workers EXCEPT ![i] = u]]
  BY <1>1, <1>4 DEF WdFields
<1> QED
  BY <1>2, <1>3, <1>5 DEF WdSets

LEMMA WdCallbackTaken ==
  ASSUME AdvertsAnswered, WdGood(wd), NEW i \in DOMAIN wd.workers,
         NEW op \in wd.workers[i].ops, WdCallback(i, op)
  PROVE  LET d == op[2]
             v0 == [wd.workers[i] EXCEPT !.ops = @ \ {op}]
             v1 == [v0 EXCEPT !.leaving = @ + 1]
             v2 == [v1 EXCEPT !.pending = @ - 1]
             p == [wd EXCEPT !.workers[i].ops = @ \ {op}]
             q == [p EXCEPT !.workers[i].leaving = @ + 1]
             r == [q EXCEPT !.workers[i].pending = @ - 1]
         IN  /\ WdTakes(wd, i, op, v0) /\ WdTakes(wd, i, op, v1) /\ WdTakes(wd, i, op, v2)
             /\ p = WdSets(wd, i, v0) /\ q = WdSets(wd, i, v1) /\ r = WdSets(wd, i, v2)
             /\ d \in WdDevices
             /\ p.workers[i].deleted = wd.workers[i].deleted
             /\ p.workers[i].found = wd.workers[i].found
             /\ r.workers[i].found = wd.workers[i].found
<1> DEFINE w == wd.workers[i]
           v0 == [w EXCEPT !.ops = @ \ {op}]
           v1 == [v0 EXCEPT !.leaving = @ + 1]
           v2 == [v1 EXCEPT !.pending = @ - 1]
           p == [wd EXCEPT !.workers[i].ops = @ \ {op}]
           q == [p EXCEPT !.workers[i].leaving = @ + 1]
           r == [q EXCEPT !.workers[i].pending = @ - 1]
<1>1. WdShape(wd) /\ wd.workers \in Seq(WdWorkers)
  BY DEF WdGood, WdShape
<1>2. i \in 1..Len(wd.workers)
  BY <1>1
<1>3. w \in WdWorkers
  BY <1>1, <1>2
<1>4. /\ v0 \in WdWorkers /\ v0.ops = w.ops \ {op} /\ v0.found = w.found
      /\ v0.methods = w.methods /\ v0.deleted = w.deleted /\ v0.finding = w.finding
  BY <1>3 DEF WdWorkers
<1>5. op[2] \in WdDevices
  BY <1>3 DEF WdWorkers
<1>6. p = WdSets(wd, i, v0)
  BY Zenon DEF WdSets
<1> HIDE DEF v0, p
<1>7. /\ v1 \in WdWorkers /\ v1.ops = v0.ops /\ v1.found = v0.found
      /\ v1.methods = v0.methods /\ v1.deleted = v0.deleted /\ v1.finding = v0.finding
  BY <1>4 DEF WdWorkers
<1>8. p.workers[i] = v0 /\ Len(p.workers) = Len(wd.workers) /\ WdShape(p)
  BY <1>1, <1>2, <1>4, <1>6, WdSetsParts
<1>9. q = WdSets(p, i, v1)
  BY <1>8, Zenon DEF WdSets
<1> HIDE DEF v1, q
<1>10. /\ v2 \in WdWorkers /\ v2.ops = v1.ops /\ v2.found = v1.found
       /\ v2.methods = v1.methods /\ v2.deleted = v1.deleted /\ v2.finding = v1.finding
  BY <1>7 DEF WdWorkers
<1>11. q.workers[i] = v1 /\ Len(q.workers) = Len(p.workers) /\ WdShape(q)
  BY <1>2, <1>7, <1>8, <1>9, WdSetsParts
<1>12. r = WdSets(q, i, v2)
  BY <1>11, Zenon DEF WdSets
<1> HIDE DEF v2, r
<1>13. r.workers[i] = v2
  BY <1>2, <1>8, <1>10, <1>11, <1>12, WdSetsParts
<1>14. q = WdSets(wd, i, v1)
  BY <1>1, <1>2, <1>6, <1>9, WdSetsAgain
<1>15. r = WdSets(wd, i, v2)
  BY <1>1, <1>2, <1>12, <1>14, WdSetsAgain
<1>16. WdTakes(wd, i, op, v0) /\ WdTakes(wd, i, op, v1) /\ WdTakes(wd, i, op, v2)
  BY <1>2, <1>4, <1>7, <1>10 DEF WdTakes
<1> QED
  BY <1>4, <1>5, <1>6, <1>7, <1>8, <1>10, <1>13, <1>14, <1>15, <1>16 DEF v0, v1, v2, p, q, r

LEMMA WdCallbackGood ==
  ASSUME AdvertsAnswered, WdGood(wd), NEW i \in DOMAIN wd.workers,
         NEW op \in wd.workers[i].ops, WdCallback(i, op)
  PROVE  WdGood(wd')
<1> DEFINE d == op[2]
           w == wd.workers[i]
           v0 == [wd.workers[i] EXCEPT !.ops = @ \ {op}]
           v1 == [v0 EXCEPT !.leaving = @ + 1]
           v2 == [v1 EXCEPT !.pending = @ - 1]
           p == [wd EXCEPT !.workers[i].ops = @ \ {op}]
           q == [p EXCEPT !.workers[i].leaving = @ + 1]
           r == [q EXCEPT !.workers[i].pending = @ - 1]
           data == wd.workers[i].found[d].data
<1>1. /\ WdTakes(wd, i, op, v0) /\ WdTakes(wd, i, op, v1) /\ WdTakes(wd, i, op, v2)
      /\ p = WdSets(wd, i, v0) /\ q = WdSets(wd, i, v1) /\ r = WdSets(wd, i, v2)
      /\ d \in WdDevices
      /\ p.workers[i].deleted = w.deleted /\ p.workers[i].found = w.found
      /\ r.workers[i].found = w.found
  BY WdCallbackTaken
<1>2. PICK outcome \in WdOutcomes("found", {"unanswered", "denied", "detailsFail"}),
           read \in IF WdMay("torn") THEN 0..data ELSE {data} :
        wd' = IF p.workers[i].deleted THEN p
              ELSE CASE op[1] \in {"classic", "reading"} -> WdClassicFound(q, i, d, outcome)
                     [] op[1] = "le" -> WdPairedLEFound(q, i, d, outcome, read)
                     [] OTHER -> WdLEFound(p, i, d, outcome, read)
  BY DEF WdCallback
<1> HIDE DEF d, v0, v1, v2, p, q
<1>3. i \in 1..Len(wd.workers) /\ WdShape(wd) /\ w \in WdWorkers
  BY DEF WdGood, WdShape
<1>4. w.found[d] \in WdInfos /\ read \in Nat /\ op[1] \in {"classic", "reading", "le", "advert"}
  <2>1. w.found[d] \in WdInfos /\ op[1] \in {"classic", "reading", "le", "advert"}
    BY <1>1, <1>3 DEF WdWorkers
  <2>2. data \in Nat
    BY <2>1 DEF WdInfos
  <2> QED
    BY <1>2, <2>1, <2>2
<1>5. ASSUME i = wd.worker
      PROVE  /\ outcome # "found" => w.found[d] = WdUnseen
             /\ op[1] # "advert" => w.found[d] = WdUnseen
             /\ read = w.found[d].data /\ ~w.deleted
  <2>1. wd.worker # 0
    BY <1>3, <1>5
  <2>2. /\ \A x \in {"unanswered", "denied", "detailsFail", "torn", "both"} :
             WdMay(x) => w.found[d] = WdUnseen
        /\ WdPairs(wd, d) => w.found[d] = WdUnseen
    BY <1>1, <1>5, <2>1, WdAskedUnseen
  <2>3. outcome # "found" => w.found[d] = WdUnseen
    BY <1>2, <2>2 DEF WdOutcomes, WdMay
  <2>4. op[1] # "advert" => WdPairs(wd, d)
    BY <1>5, <2>1 DEF WdGood, WdAsks, d
  <2>5. read = w.found[d].data
    <3>1. CASE WdMay("torn")
      <4>1. data = 0
        BY <2>2, <3>1, WdUnseenInfo
      <4> QED
        BY <1>2, <3>1, <4>1
    <3>2. CASE ~WdMay("torn")
      BY <1>2, <3>2
    <3> QED
      BY <3>1, <3>2
  <2>6. ~w.deleted
    BY <1>5, <2>1 DEF WdGood, WdLives
  <2> QED
    BY <2>2, <2>3, <2>4, <2>5, <2>6
<1> DEFINE silent == i = wd.worker => w.found[d].services = 0
<1>6. ASSUME silent
      PROVE  /\ WdGood(p) /\ WdGood(WdError(p)) /\ WdGood(q) /\ WdGood(r)
             /\ WdGood(WdError(r)) /\ WdGood(WdError(q)) /\ WdGood(WdFinishIfLast(q, i))
  BY <1>1, <1>6, WdTakenSilent DEF d
<1>7. ASSUME NEW info \in WdInfos, i = wd.worker => info = w.found[d]
      PROVE  /\ WdGood(WdPost(p, "found", i, d, info))
             /\ WdGood(WdPost(r, "found", i, d, info))
             /\ WdGood(WdFinishIfLast(WdPost(q, "found", i, d, info), i))
  BY <1>1, <1>7, WdTakenFound DEF d
<1>8. outcome # "found" => silent
  BY <1>5, WdUnseenInfo
<1> DEFINE info == [services |-> w.found[d].services, data |-> read]
<1>9. info \in WdInfos /\ (i = wd.worker => info = w.found[d])
  BY <1>4, <1>5 DEF WdInfos
<1> HIDE DEF silent, info, w
<1>10. CASE p.workers[i].deleted
  <2> HIDE DEF r
  <2>1. silent
    BY <1>1, <1>5, <1>10 DEF silent
  <2>2. wd' = p
    BY <1>2, <1>10
  <2> QED
    BY <1>6, <2>1, <2>2
<1>11. CASE ~p.workers[i].deleted /\ op[1] \in {"classic", "reading"}
  <2>1. wd' = WdClassicFound(q, i, d, outcome)
    BY <1>2, <1>11
  <2>2. WdClassicFound(q, i, d, outcome) =
          CASE outcome = "unanswered" -> q
            [] outcome = "detailsFail" -> WdError(q)
            [] outcome = "denied" -> WdFinishIfLast(q, i)
            [] OTHER -> WdFinishIfLast(WdPost(q, "found", i, d, WdUnseen), i)
    BY Zenon DEF WdClassicFound
  <2>3. WdGood(WdFinishIfLast(WdPost(q, "found", i, d, WdUnseen), i))
    BY <1>5, <1>7, <1>11, WdUnseenInfo
  <2>4. outcome \in {"found", "unanswered", "detailsFail", "denied"}
    BY <1>2 DEF WdOutcomes
  <2> QED
    BY <1>6, <1>8, <2>1, <2>2, <2>3, <2>4
<1>12. CASE ~p.workers[i].deleted /\ op[1] = "le"
  <2>1. wd' = WdPairedLEFound(q, i, d, outcome, read)
    BY <1>2, <1>12
  <2>2. outcome # "unanswered" =>
          WdPairedLEFound(q, i, d, outcome, read) = WdLEFound(r, i, d, outcome, read)
    BY Zenon DEF WdPairedLEFound
  <2>3. outcome = "unanswered" => WdPairedLEFound(q, i, d, outcome, read) = q
    BY DEF WdPairedLEFound, WdLEFound
  <2> HIDE DEF r
  <2>4. outcome \in {"denied", "detailsFail"} => WdLEFound(r, i, d, outcome, read) = WdError(r)
    BY DEF WdLEFound
  <2>5. outcome = "found" =>
          WdLEFound(r, i, d, outcome, read) = WdPost(r, "found", i, d, info)
    BY <1>1 DEF WdLEFound, info
  <2>6. outcome \in {"found", "unanswered", "detailsFail", "denied"}
    BY <1>2 DEF WdOutcomes
  <2> QED
    BY <1>6, <1>7, <1>8, <1>9, <2>1, <2>2, <2>3, <2>4, <2>5, <2>6
<1>13. CASE ~p.workers[i].deleted /\ op[1] = "advert"
  <2>1. wd' = WdLEFound(p, i, d, outcome, read)
    BY <1>2, <1>13
  <2>2. outcome = "unanswered" => WdLEFound(p, i, d, outcome, read) = p
    BY DEF WdLEFound
  <2>3. outcome \in {"denied", "detailsFail"} => WdLEFound(p, i, d, outcome, read) = WdError(p)
    BY DEF WdLEFound
  <2>4. outcome = "found" =>
          WdLEFound(p, i, d, outcome, read) = WdPost(p, "found", i, d, info)
    BY <1>1 DEF WdLEFound, info
  <2>5. outcome \in {"found", "unanswered", "detailsFail", "denied"}
    BY <1>2 DEF WdOutcomes
  <2> QED
    BY <1>6, <1>7, <1>8, <1>9, <2>1, <2>2, <2>3, <2>4, <2>5
<1> QED
  BY <1>4, <1>10, <1>11, <1>12, <1>13

\* A device is counted before it is read.
LEMMA WdCountedGood ==
  ASSUME AdvertsAnswered, WdGood(wd), NEW i \in DOMAIN wd.workers,
         NEW op \in wd.workers[i].ops, WdClassicCounted(i, op)
  PROVE  WdGood(wd')
<1> DEFINE w == wd.workers[i]
           read == <<"reading", op[2], op[3]>>
           v1 == [w EXCEPT !.ops = (@ \ {op}) \cup {read}]
           v2 == [v1 EXCEPT !.pending = @ - 1]
           q == [wd EXCEPT !.workers[i].ops = (@ \ {op}) \cup {read}]
           r == [q EXCEPT !.workers[i].pending = @ - 1]
<1>1. WdShape(wd) /\ i \in 1..Len(wd.workers) /\ w \in WdWorkers
  BY DEF WdGood, WdShape
<1>2. /\ op[1] = "classic"
      /\ wd' = [wd EXCEPT !.workers[i].ops = (@ \ {op}) \cup {read}, !.workers[i].pending = @ - 1]
  BY DEF WdClassicCounted
<1>3. wd' = r
  BY <1>2, Zenon
<1>4. op[2] \in WdDevices /\ read \in {"classic", "reading", "le", "advert"} \X WdDevices \X Nat
  BY <1>1 DEF WdWorkers
<1>5. read[1] = "reading" /\ read[2] = op[2]
  OBVIOUS
<1> HIDE DEF read
<1>6. /\ v1 \in WdWorkers /\ v1.ops = (w.ops \ {op}) \cup {read} /\ v1.found = w.found
      /\ v1.methods = w.methods /\ v1.deleted = w.deleted /\ v1.finding = w.finding
  BY <1>1, <1>4 DEF WdWorkers
<1>7. q = WdSets(wd, i, v1)
  BY Zenon DEF WdSets
<1> HIDE DEF v1, q
<1>8. /\ v2 \in WdWorkers /\ v2.ops = v1.ops /\ v2.found = v1.found
      /\ v2.methods = v1.methods /\ v2.deleted = v1.deleted /\ v2.finding = v1.finding
  BY <1>6 DEF WdWorkers
<1>9. q.workers[i] = v1
  BY <1>1, <1>6, <1>7, WdSetsParts
<1>10. r = WdSets(q, i, v2)
  BY <1>9, Zenon DEF WdSets
<1> HIDE DEF v2, r
<1>11. r = WdSets(wd, i, v2)
  BY <1>1, <1>7, <1>10, WdSetsAgain
<1>12. ASSUME i = wd.worker
       PROVE  /\ \A o \in v2.ops \ w.ops : o[1] # "advert"
              /\ \A o \in v2.ops : o[1] # "advert" => WdPairs(wd, o[2])
              /\ \A o \in w.ops \ v2.ops : w.found[o[2]].services = 0
  <2>1. wd.worker # 0 /\ WdAsks(wd)
    BY <1>1, <1>12 DEF WdGood
  <2>2. WdPairs(wd, op[2])
    BY <1>2, <1>12, <2>1 DEF WdAsks
  <2>3. w.found[op[2]].services = 0
    BY <1>4, <1>12, <2>1, <2>2, WdAskedUnseen, WdUnseenInfo
  <2> QED
    BY <1>5, <1>6, <1>8, <1>12, <2>1, <2>2, <2>3 DEF WdAsks
<1> QED
  BY <1>1, <1>3, <1>6, <1>8, <1>11, <1>12, WdSetsGood

\* An advertisement is counted.
LEMMA WdCountGood ==
  ASSUME NEW p, WdGood(p), NEW n \in Nat
  PROVE  LET q == [p EXCEPT !.adverts = n] IN
         WdGood(q) /\ q.workers = p.workers /\ q.worker = p.worker /\ q.posted = p.posted
           /\ q.scenario = p.scenario /\ q.adverts = n
<1> DEFINE q == [p EXCEPT !.adverts = n]
<1>1. DOMAIN p = WdFields
  BY DEF WdGood, WdShape
<1>2. /\ q.workers = p.workers /\ q.worker = p.worker /\ q.posted = p.posted
      /\ q.scenario = p.scenario /\ q.adverts = n /\ q.listed = p.listed /\ q.by = p.by
      /\ DOMAIN q = WdFields
  BY <1>1 DEF WdFields
<1> HIDE DEF q
<1>3. WdShape(q)
  BY <1>2 DEF WdGood, WdShape
<1>4. \A k, c : /\ WdTells(q, k, c) <=> WdTells(p, k, c)
                /\ WdRenews(q, k, c) <=> WdRenews(p, k, c)
                /\ WdPairs(q, c) <=> WdPairs(p, c)
  BY <1>2 DEF WdTells, WdRenews, WdPairs
<1>5. \A c \in WdDevices : WdAbout(p, c) => WdAbout(q, c)
  BY <1>2, <1>4 DEF WdAbout
<1>6. (WdLives(p) => WdLives(q)) /\ (WdAsks(p) => WdAsks(q))
  BY <1>2, <1>4 DEF WdLives, WdAsks
<1>7. WdGood(q)
  BY <1>2, <1>3, <1>5, <1>6 DEF WdGood
<1> QED
  BY <1>2, <1>7 DEF q

\* The worker of the search learns of a device.
WdLearns(p, v, d, info) ==
  LET w == p.workers[p.worker]
  IN  /\ WdGood(p) /\ p.worker # 0 /\ v \in WdWorkers /\ d \in WdDevices /\ info \in WdInfos
      /\ p.scenario.adverts # 0 /\ ~WdPairs(p, d)
      /\ v.methods = w.methods /\ v.deleted = w.deleted /\ v.finding = w.finding
      /\ v.found = [w.found EXCEPT ![d] = info]
LEMMA WdLearnsParts ==
  ASSUME NEW p, NEW v, NEW d, NEW info, WdLearns(p, v, d, info)
  PROVE  LET w == p.workers[p.worker]
             q == WdSets(p, p.worker, v)
         IN  /\ WdShape(p) /\ WdShape(q) /\ WdLives(p) /\ WdLives(q)
             /\ WdAsks(p) /\ w \in WdWorkers
             /\ p.worker \in 1..Len(p.workers) /\ q.worker = p.worker
             /\ q.workers[q.worker] = v /\ q.posted = p.posted /\ q.listed = p.listed
             /\ q.by = p.by /\ q.scenario = p.scenario /\ Len(q.workers) = Len(p.workers)
             /\ v.found[d] = info /\ w.found[d] \in WdInfos
             /\ \A c \in WdDevices : WdAbout(p, c)
             /\ \A c \in WdDevices : c # d => v.found[c] = w.found[c]
             /\ \A k, c : /\ WdTells(q, k, c) <=> WdTells(p, k, c)
                          /\ WdRenews(q, k, c) <=> WdRenews(p, k, c)
             /\ \A c : WdPairs(q, c) <=> WdPairs(p, c)
<1> DEFINE w == p.workers[p.worker]
           q == WdSets(p, p.worker, v)
<1>1. /\ WdShape(p) /\ WdLives(p) /\ WdAsks(p) /\ \A c \in WdDevices : WdAbout(p, c)
  BY DEF WdLearns, WdGood
<1>2. p.worker \in 1..Len(p.workers) /\ w \in WdWorkers /\ v \in WdWorkers
  BY <1>1 DEF WdLearns, WdShape
<1>3. /\ q.workers[p.worker] = v /\ Len(q.workers) = Len(p.workers) /\ q.worker = p.worker
      /\ q.posted = p.posted /\ q.listed = p.listed /\ q.by = p.by
      /\ q.scenario = p.scenario /\ WdShape(q)
  BY ONLY <1>1, <1>2, WdSetsParts
<1> HIDE DEF q
<1>4. w.found \in [WdDevices -> WdInfos]
  BY <1>2 DEF WdWorkers
<1> HIDE DEF w
<1>5. /\ v.methods = w.methods /\ v.deleted = w.deleted /\ d \in WdDevices
      /\ v.found = [w.found EXCEPT ![d] = info]
  BY DEF WdLearns, w
<1>6. /\ v.found[d] = info /\ w.found[d] \in WdInfos
      /\ \A c \in WdDevices : c # d => v.found[c] = w.found[c]
  BY <1>4, <1>5
<1>7. \A k, c : /\ WdTells(q, k, c) <=> WdTells(p, k, c)
                /\ WdRenews(q, k, c) <=> WdRenews(p, k, c)
  BY <1>3 DEF WdTells, WdRenews
<1>8. \A c : WdPairs(q, c) <=> WdPairs(p, c)
  BY <1>3, <1>5 DEF WdPairs, w
<1>9. WdLives(q)
  BY <1>1, <1>3, <1>5 DEF WdLives, w
<1> QED
  BY <1>1, <1>2, <1>3, <1>6, <1>7, <1>8, <1>9 DEF q, w

\* A new service: the device is asked.
LEMMA WdAskedGood ==
  ASSUME NEW p, NEW v, NEW d, NEW info, WdLearns(p, v, d, info), NEW op, op[1] = "advert",
         op[2] = d, v.ops = p.workers[p.worker].ops \cup {op},
         LET known == p.workers[p.worker].found[d] IN
         /\ info.services > known.services
         /\ info.data = known.data \/ known = WdUnseen
  PROVE  WdGood(WdSets(p, p.worker, v))
<1> DEFINE w == p.workers[p.worker]
           q == WdSets(p, p.worker, v)
           f == w.found[d]
<1>1. /\ WdShape(q) /\ WdLives(q) /\ WdAsks(p) /\ q.worker = p.worker
      /\ q.workers[q.worker] = v /\ q.posted = p.posted /\ q.listed = p.listed
      /\ q.by = p.by /\ q.scenario = p.scenario
      /\ v.found[d] = info /\ f \in WdInfos
      /\ \A c \in WdDevices : WdAbout(p, c)
      /\ \A c \in WdDevices : c # d => v.found[c] = w.found[c]
      /\ \A k, c : /\ WdTells(q, k, c) <=> WdTells(p, k, c)
                   /\ WdRenews(q, k, c) <=> WdRenews(p, k, c)
      /\ \A c : WdPairs(q, c) <=> WdPairs(p, c)
  BY WdLearnsParts
<1>2. /\ v.methods = w.methods /\ v.finding = w.finding /\ info \in WdInfos
      /\ p.scenario.adverts # 0 /\ ~WdPairs(p, d) /\ d \in WdDevices /\ p.worker # 0
  BY DEF WdLearns
<1>3. /\ info.services \in Nat /\ f.services \in Nat /\ f.services < info.services
      /\ info.data = f.data \/ f.services = 0
  BY <1>1, <1>2 DEF WdInfos, WdUnseen
<1> HIDE DEF q, f
<1>4. WdAbout(q, d)
  <2>1. WdAbout(p, d)
    BY <1>1, <1>2
  <2>2. f.services = 0 => /\ p.by[d] = 0 /\ \A k \in 1..Len(p.posted) : ~WdTells(p, k, d)
    BY <1>2, <2>1 DEF WdAbout, f
  <2>3. ASSUME NEW k \in 1..Len(p.posted), WdTells(p, k, d)
        PROVE  /\ p.posted[k].info.services <= info.services
               /\ \/ p.posted[k].info.data = info.data
                  \/ \E l \in 1..Len(p.posted) : l > k /\ WdRenews(p, l, d)
    <3>1. f.services # 0
      BY <2>2, <2>3
    <3>2. /\ p.posted[k].info.services <= f.services
          /\ \/ p.posted[k].info.data = f.data
             \/ \E l \in 1..Len(p.posted) : l > k /\ WdRenews(p, l, d)
      BY <2>1, <2>3 DEF WdAbout, f
    <3>3. p.posted[k].info.services \in Nat
      <4>1. p.posted \in Seq(WdEvents)
        BY DEF WdLearns, WdGood, WdShape
      <4>2. p.posted[k] \in WdEvents
        BY <4>1
      <4> QED
        BY <4>2 DEF WdEvents, WdInfos
    <3> QED
      BY <1>3, <3>1, <3>2, <3>3
  <2>4. p.listed[d].services <= info.services
    <3>1. p.listed[d].services <= f.services
      BY <2>1 DEF WdAbout, f
    <3>2. p.listed[d].services \in Nat
      BY <1>2 DEF WdLearns, WdGood, WdShape, WdInfos
    <3> QED
      BY <1>3, <3>1, <3>2
  <2>5. p.by[d] # 0 /\ (\A k \in 1..Len(p.posted) : ~WdRenews(p, k, d)) =>
          p.listed[d].data = info.data
    BY <1>3, <2>1, <2>2 DEF WdAbout, f
  <2>6. (\E o \in v.ops : o[2] = d) /\ info.services > 0 /\ info.services # 0
    <3>1. op \in v.ops
      OBVIOUS
    <3> QED
      BY <1>3, <3>1
  <2>7. p.by[d] = 0 => p.listed[d] = WdUnseen
    BY <2>1 DEF WdAbout
  <2>8. /\ q.workers[q.worker].found[d] = info /\ q.workers[q.worker].ops = v.ops
        /\ q.posted = p.posted /\ q.listed = p.listed /\ q.by = p.by
        /\ q.scenario = p.scenario /\ ~WdPairs(q, d)
        /\ \A k : (WdTells(q, k, d) <=> WdTells(p, k, d)) /\ (WdRenews(q, k, d) <=> WdRenews(p, k, d))
    BY <1>1, <1>2
  <2> QED
    BY ONLY <1>2, <2>3, <2>4, <2>5, <2>6, <2>7, <2>8 DEF WdAbout
<1>5. ASSUME NEW c \in WdDevices, c # d
      PROVE  WdAbout(q, c)
  <2>1. WdAbout(p, c) /\ v.found[c] = w.found[c]
    BY <1>1, <1>5
  <2>2. /\ (\A o \in w.ops : o[2] # c) => \A o \in v.ops : o[2] # c
        /\ (\E o \in w.ops : o[2] = c) => \E o \in v.ops : o[2] = c
    BY <1>5
  <2>3. /\ q.workers[q.worker].found[c] = w.found[c] /\ q.workers[q.worker].ops = v.ops
        /\ q.posted = p.posted /\ q.listed = p.listed /\ q.by = p.by
        /\ q.scenario = p.scenario /\ (WdPairs(q, c) <=> WdPairs(p, c))
        /\ \A k : (WdTells(q, k, c) <=> WdTells(p, k, c)) /\ (WdRenews(q, k, c) <=> WdRenews(p, k, c))
    BY <1>1, <2>1
  <2> QED
    BY ONLY <2>1, <2>2, <2>3 DEF WdAbout
<1>6. WdAsks(q)
  BY <1>1, <1>2 DEF WdAsks
<1> QED
  BY <1>1, <1>4, <1>5, <1>6 DEF WdGood, q

\* New data: they are posted.
LEMMA WdRenewedGood ==
  ASSUME NEW p, NEW v, NEW d, NEW info, WdLearns(p, v, d, info),
         v.ops = p.workers[p.worker].ops,
         LET known == p.workers[p.worker].found[d] IN
         info.services = known.services /\ known # WdUnseen
  PROVE  WdGood(WdPost(WdSets(p, p.worker, v), "data", p.worker, d, info))
<1> DEFINE w == p.workers[p.worker]
           b == WdSets(p, p.worker, v)
           q == WdPost(b, "data", p.worker, d, info)
           f == w.found[d]
           n == Len(p.posted)
           e == [what |-> "data", worker |-> p.worker, device |-> d, info |-> info]
<1>1. /\ WdShape(b) /\ WdLives(p) /\ WdAsks(p) /\ b.worker = p.worker /\ WdLives(b)
      /\ p.worker \in 1..Len(p.workers) /\ Len(b.workers) = Len(p.workers)
      /\ b.workers[b.worker] = v /\ b.posted = p.posted /\ b.listed = p.listed
      /\ b.by = p.by /\ b.scenario = p.scenario
      /\ v.found[d] = info /\ f \in WdInfos
      /\ \A c \in WdDevices : WdAbout(p, c)
      /\ \A c \in WdDevices : c # d => v.found[c] = w.found[c]
      /\ \A c : WdPairs(b, c) <=> WdPairs(p, c)
  BY WdLearnsParts
<1>2. /\ v.methods = w.methods /\ v.finding = w.finding /\ info \in WdInfos
      /\ p.scenario.adverts # 0 /\ ~WdPairs(p, d) /\ d \in WdDevices /\ p.worker # 0
  BY DEF WdLearns
<1> HIDE DEF b
<1>3. WdFits(b, "data", p.worker, d, info)
  BY <1>1, <1>2 DEF WdFits
<1>4. /\ Len(q.posted) = n + 1 /\ n \in Nat
      /\ \A k \in 1..n : q.posted[k] = p.posted[k]
      /\ q.posted[n + 1] = e
      /\ q.worker = p.worker /\ q.workers = b.workers /\ q.listed = p.listed /\ q.by = p.by
      /\ q.scenario = p.scenario /\ WdShape(q)
  BY ONLY <1>1, <1>3, WdPostParts
<1>5. e.what = "data" /\ e.worker = p.worker /\ e.device = d /\ e.info = info
  OBVIOUS
<1> HIDE DEF q, e, n, f
<1>6. ASSUME NEW c
      PROVE  /\ \A k \in 1..n : WdTells(q, k, c) <=> WdTells(p, k, c)
             /\ \A k \in 1..n : WdRenews(q, k, c) <=> WdRenews(p, k, c)
             /\ WdTells(q, n + 1, c) <=> c = d
             /\ WdRenews(q, n + 1, c) <=> c = d
             /\ WdPairs(q, c) <=> WdPairs(p, c)
  <2>1. WdPairs(q, c) <=> WdPairs(p, c)
    BY <1>1, <1>4 DEF WdPairs
  <2> QED
    BY <1>4, <1>5, <2>1 DEF WdTells, WdRenews
<1>7. /\ \A k \in 1..Len(q.posted) : k \in 1..n \/ k = n + 1
      /\ \A k \in 1..n : k \in 1..Len(q.posted) /\ k < n + 1
      /\ n + 1 \in 1..Len(q.posted)
  BY <1>4
<1>8. q.workers[q.worker] = v /\ WdAsks(q)
  <2>1. q.workers[q.worker] = v
    BY <1>1, <1>4
  <2> QED
    BY <1>1, <1>2, <1>6, <2>1 DEF WdAsks
<1>9. WdLives(q)
  <2>1. ~q.workers[q.worker].deleted
    BY <1>1, <1>4 DEF WdLives
  <2>2. ASSUME NEW k \in 1..Len(q.posted),
               q.posted[k].what = "delete", q.posted[k].worker = q.worker
        PROVE  \E l \in 1..Len(q.posted) : l < k /\ q.posted[l].what = "finished"
    <3>1. k \in 1..n
      BY <1>4, <1>5, <1>7, <2>2
    <3>2. PICK l \in 1..n : l < k /\ p.posted[l].what = "finished"
      BY <1>1, <1>4, <2>2, <3>1 DEF WdLives, n
    <3> QED
      BY <1>4, <1>7, <3>2
  <2> QED
    BY <2>1, <2>2 DEF WdLives
<1>10. WdAbout(q, d)
  <2>1. WdAbout(p, d)
    BY <1>1, <1>2
  <2>2. f.services # 0 /\ info.services # 0 /\ info.services = f.services
        /\ info.services \in Nat
    BY <1>1, <1>2, <2>1 DEF WdAbout, WdInfos, WdUnseen, f
  <2>3. ASSUME NEW k \in 1..Len(q.posted), WdTells(q, k, d)
        PROVE  /\ q.posted[k].info.services <= info.services
               /\ \/ q.posted[k].info.data = info.data
                  \/ \E l \in 1..Len(q.posted) : l > k /\ WdRenews(q, l, d)
    <3>1. CASE k \in 1..n
      <4>1. WdTells(p, k, d) /\ k \in 1..Len(p.posted) /\ q.posted[k] = p.posted[k]
        BY <1>4, <1>6, <2>3, <3>1 DEF n
      <4>2. q.posted[k].info.services <= info.services
        BY <2>1, <2>2, <4>1 DEF WdAbout, f
      <4>3. n + 1 > k /\ WdRenews(q, n + 1, d)
        BY <1>4, <1>6, <3>1
      <4> QED
        BY <1>7, <4>2, <4>3
    <3>2. CASE k = n + 1
      BY <1>4, <1>5, <2>2, <3>2
    <3> QED
      BY <1>7, <3>1, <3>2
  <2>4. \/ \E op \in v.ops : op[2] = d
        \/ \E k \in 1..Len(q.posted) :
             /\ WdTells(q, k, d) /\ q.posted[k].what = "found"
             /\ q.posted[k].info.services = info.services
        \/ q.by[d] # 0 /\ q.listed[d].services = info.services
    <3>1. \A k \in 1..n : /\ WdTells(p, k, d) => WdTells(q, k, d)
                          /\ q.posted[k] = p.posted[k] /\ k \in 1..Len(q.posted)
      BY <1>4, <1>6, <1>7
    <3>2. \/ \E op \in w.ops : op[2] = d
          \/ \E k \in 1..n :
               /\ WdTells(p, k, d) /\ p.posted[k].what = "found"
               /\ p.posted[k].info.services = f.services
          \/ p.by[d] # 0 /\ p.listed[d].services = f.services
      <4>1. f.services > 0
        BY <2>2
      <4> QED
        BY <2>1, <4>1 DEF WdAbout, f, n
    <3> QED
      BY <1>4, <2>2, <3>1, <3>2
  <2>5. ~(\A k \in 1..Len(q.posted) : ~WdRenews(q, k, d))
    BY <1>6, <1>7
  <2>6. q.listed[d].services <= info.services /\ (q.by[d] = 0 => q.listed[d] = WdUnseen)
    BY <1>4, <2>1, <2>2 DEF WdAbout, f
  <2>7. /\ q.workers[q.worker].found[d] = info /\ q.workers[q.worker].ops = v.ops
        /\ q.scenario.adverts # 0 /\ ~WdPairs(q, d)
    BY <1>1, <1>2, <1>4, <1>6, <1>8
  <2> QED
    BY ONLY <2>2, <2>3, <2>4, <2>5, <2>6, <2>7 DEF WdAbout
<1>11. ASSUME NEW c \in WdDevices, c # d
       PROVE  WdAbout(q, c)
  <2> DEFINE g == w.found[c]
  <2>1. WdAbout(p, c) /\ v.found[c] = g
    BY <1>1, <1>11
  <2>2. ~WdTells(q, n + 1, c) /\ ~WdRenews(q, n + 1, c)
    BY <1>6, <1>11
  <2>3. /\ q.workers[q.worker].found[c] = g /\ q.workers[q.worker].ops = w.ops
        /\ WdPairs(q, c) <=> WdPairs(p, c)
    BY <1>6, <1>8, <2>1
  <2>4. \A k \in 1..n : /\ WdTells(q, k, c) <=> WdTells(p, k, c)
                        /\ WdRenews(q, k, c) <=> WdRenews(p, k, c)
    BY <1>6
  <2>5. n = Len(p.posted) /\ w = p.workers[p.worker]
    BY DEF n
  <2> HIDE DEF g, w
  <2> QED
    BY ONLY <1>4, <1>7, <2>1, <2>2, <2>3, <2>4, <2>5 DEF WdAbout, g
<1> QED
  BY <1>4, <1>8, <1>9, <1>10, <1>11 DEF WdGood, q, b

LEMMA WdAdvertisementGood ==
  ASSUME AdvertsAnswered, WdGood(wd), NEW i \in DOMAIN wd.workers, NEW d \in WdDevices,
         WdAdvertisement(i, d)
  PROVE  WdGood(wd')
<1> DEFINE w == wd.workers[i]
           known == wd.workers[i].found[d]
           p == [wd EXCEPT !.adverts = @ + 1]
           more == [known EXCEPT !.services = @ + 1]
           other == [known EXCEPT !.data = @ + 1]
           both == [more EXCEPT !.data = @ + 1]
<1>1. PICK info \in IF known = WdUnseen THEN {both}
                    ELSE {more, other} \cup IF WdMay("both") THEN {both} ELSE {} :
        wd' = WdAdvertised(p, i, d, info)
  BY Zenon DEF WdAdvertisement
<1>2. WdShape(wd) /\ i \in 1..Len(wd.workers) /\ w \in WdWorkers /\ known \in WdInfos
  <2>1. WdShape(wd) /\ i \in 1..Len(wd.workers) /\ w \in WdWorkers
    BY DEF WdGood, WdShape
  <2> QED
    BY <2>1 DEF WdWorkers
<1>3. /\ more \in WdInfos /\ more.services = known.services + 1 /\ more.data = known.data
      /\ other \in WdInfos /\ other.services = known.services
      /\ both \in WdInfos /\ both.services = known.services + 1
  <2> HIDE DEF known
  <2>1. known \in [services : Nat, data : Nat]
    BY <1>2 DEF WdInfos
  <2>2. /\ more \in WdInfos /\ more.services = known.services + 1 /\ more.data = known.data
        /\ other \in WdInfos /\ other.services = known.services
    BY <2>1 DEF WdInfos
  <2> HIDE DEF more
  <2>3. both \in WdInfos /\ both.services = more.services
    BY <2>2 DEF WdInfos
  <2> QED
    BY <2>2, <2>3
<1> HIDE DEF known, more, other, both
<1>4. wd.adverts < wd.scenario.adverts /\ (known = WdUnseen /\ WdPaired(i, d) => WdMay("both"))
  BY DEF WdAdvertisement, known
<1>5. wd.adverts \in Nat /\ wd.scenario.adverts \in Nat /\ wd.scenario \in WdScenarios
  BY <1>2, WdAssumption DEF WdShape
<1>6. wd.scenario.adverts # 0 /\ ~WdMay("both")
  <2>1. wd.scenario.adverts > 0
    BY <1>4, <1>5
  <2> QED
    BY <1>5, <2>1 DEF AdvertsAnswered, WdMay
<1>7. info \in WdInfos /\ known.services \in Nat /\ info.services \in Nat
  BY <1>1, <1>2, <1>3 DEF WdInfos
<1>8. IF info.services > known.services
      THEN info.data = known.data \/ known = WdUnseen
      ELSE info.services = known.services /\ known # WdUnseen
  BY <1>1, <1>3, <1>6, <1>7
<1>9. WdGood(p) /\ p.workers = wd.workers /\ p.worker = wd.worker /\ p.scenario = wd.scenario
  BY <1>5, WdCountGood
<1> HIDE DEF p
<1>10. i = p.worker => /\ WdPairs(p, d) <=> WdPaired(i, d)
                       /\ WdPairs(wd, d) <=> WdPaired(i, d)
  BY <1>9 DEF WdPairs, WdPaired
<1>11. i = p.worker => ~WdPairs(p, d)
  <2> SUFFICES ASSUME i = p.worker, WdPairs(p, d) PROVE FALSE
    OBVIOUS
  <2>1. wd.worker # 0 /\ i = wd.worker
    BY <1>2, <1>9
  <2>2. known = WdUnseen
    BY <1>10, <2>1, WdAskedUnseen DEF known
  <2> QED
    BY <1>4, <1>6, <1>10, <2>2
<1> DEFINE op == <<"advert", d, p.adverts>>
           v1 == [w EXCEPT !.found[d] = info]
           v2 == [v1 EXCEPT !.ops = @ \cup {op}]
           q == [p EXCEPT !.workers[i].found[d] = info]
           r == [q EXCEPT !.workers[i].ops = @ \cup {op}]
<1>12. op \in {"classic", "reading", "le", "advert"} \X WdDevices \X Nat /\ op[1] = "advert" /\ op[2] = d
  <2>1. p.adverts \in Nat
    BY <1>9 DEF WdGood, WdShape
  <2> QED
    BY <2>1
<1> HIDE DEF op
<1>13. /\ v1 \in WdWorkers /\ v1.found = [w.found EXCEPT ![d] = info] /\ v1.ops = w.ops
       /\ v1.methods = w.methods /\ v1.deleted = w.deleted /\ v1.finding = w.finding
  BY <1>2, <1>7 DEF WdWorkers
<1>14. q = WdSets(p, i, v1)
  <2>1. q = [p EXCEPT !.workers[i] = [p.workers[i] EXCEPT !.found[d] = info]]
    BY Zenon
  <2> QED
    BY <1>9, <2>1 DEF WdSets
<1> HIDE DEF v1, q
<1>15. /\ v2 \in WdWorkers /\ v2.found = v1.found /\ v2.ops = v1.ops \cup {op}
       /\ v2.methods = v1.methods /\ v2.deleted = v1.deleted /\ v2.finding = v1.finding
  BY <1>12, <1>13 DEF WdWorkers
<1>16. q.workers[i] = v1 /\ WdShape(p) /\ i \in 1..Len(p.workers)
       /\ Len(q.workers) = Len(p.workers) /\ q.worker = p.worker /\ WdShape(q)
  <2>1. WdShape(p) /\ i \in 1..Len(p.workers)
    BY <1>2, <1>9 DEF WdGood
  <2> QED
    BY <1>13, <1>14, <2>1, WdSetsParts
<1>17. r = WdSets(p, i, v2)
  <2>1. r = WdSets(q, i, v2)
    BY <1>16, Zenon DEF WdSets
  <2> QED
    BY <1>14, <1>16, <2>1, WdSetsAgain
<1> HIDE DEF v2, r
<1>18. wd' = IF info.services > known.services THEN r ELSE WdPost(q, "data", i, d, info)
  <2>1. WdAdvertised(p, i, d, info) =
          IF info.services > p.workers[i].found[d].services
          THEN r ELSE WdPost(q, "data", i, d, info)
    BY Zenon DEF WdAdvertised, q, r, op
  <2> QED
    BY <1>1, <1>9, <2>1 DEF known
<1>19. CASE i = p.worker
  <2>1. WdLearns(p, v1, d, info) /\ WdLearns(p, v2, d, info)
    BY <1>2, <1>6, <1>7, <1>9, <1>11, <1>13, <1>15, <1>19 DEF WdLearns
  <2>2. w = p.workers[p.worker] /\ known = w.found[d] /\ v2.ops = w.ops \cup {op}
    BY <1>9, <1>13, <1>15, <1>19 DEF known
  <2> HIDE DEF w
  <2>3. CASE info.services > known.services
    <3>1. WdGood(WdSets(p, p.worker, v2))
      BY <1>8, <1>12, <2>1, <2>2, <2>3, WdAskedGood
    <3> QED
      BY <1>17, <1>18, <1>19, <2>3, <3>1
  <2>4. CASE ~(info.services > known.services)
    <3>1. v1.ops = p.workers[p.worker].ops
      BY <1>13, <2>2
    <3>2. WdGood(WdPost(WdSets(p, p.worker, v1), "data", p.worker, d, info))
      BY <1>8, <2>1, <2>2, <2>4, <3>1, WdRenewedGood
    <3> QED
      BY <1>14, <1>18, <1>19, <2>4, <3>2
  <2> QED
    BY <2>3, <2>4
<1>20. CASE i # p.worker
  <2>1. WdGood(q) /\ WdGood(r)
    BY <1>9, <1>13, <1>14, <1>15, <1>16, <1>17, <1>20, WdSetsGood
  <2>2. WdFits(q, "data", i, d, info)
    BY <1>7, <1>16 DEF WdFits
  <2>3. WdGood(WdPost(q, "data", i, d, info))
    BY <1>16, <1>20, <2>1, <2>2, WdPostGood
  <2> QED
    BY <1>18, <2>1, <2>3
<1> QED
  BY <1>19, <1>20

\* A worker changes only what it waits for.
LEMMA WdSettlesGood ==
  ASSUME NEW p, WdGood(p), NEW i \in 1..Len(p.workers), NEW v \in WdWorkers,
         v.found = p.workers[i].found, v.methods = p.workers[i].methods,
         v.deleted = p.workers[i].deleted, v.ops = p.workers[i].ops,
         v.finding \subseteq p.workers[i].finding
  PROVE  WdGood(WdSets(p, i, v))
<1>1. i = p.worker => \A op \in v.ops : op[1] # "advert" => WdPairs(p, op[2])
  <2> SUFFICES ASSUME i = p.worker
               PROVE  \A op \in v.ops : op[1] # "advert" => WdPairs(p, op[2])
    OBVIOUS
  <2>1. p.worker # 0
    BY DEF WdGood, WdShape
  <2> QED
    BY <2>1 DEF WdGood, WdAsks
<1> QED
  BY <1>1, WdSetsGood

LEMMA WdReturnsGood ==
  ASSUME WdGood(wd), NEW i \in DOMAIN wd.workers, WdCallbackReturns(i)
  PROVE  WdGood(wd')
<1> DEFINE w == wd.workers[i]
           v1 == [w EXCEPT !.leaving = @ - 1]
           v2 == [v1 EXCEPT !.pending = @ - 1]
           q == [wd EXCEPT !.workers[i].leaving = @ - 1]
           r == [q EXCEPT !.workers[i].pending = @ - 1]
<1>1. WdShape(wd) /\ i \in 1..Len(wd.workers) /\ w \in WdWorkers
  BY DEF WdGood, WdShape
<1>2. w.leaving > 0 /\ wd' = [wd EXCEPT !.workers[i].leaving = @ - 1, !.workers[i].pending = @ - 1]
  BY DEF WdCallbackReturns
<1>3. wd' = r
  BY <1>2, Zenon
<1>4. /\ v1 \in WdWorkers /\ v1.ops = w.ops /\ v1.found = w.found
      /\ v1.methods = w.methods /\ v1.deleted = w.deleted /\ v1.finding = w.finding
  BY <1>1, <1>2 DEF WdWorkers
<1>5. q = WdSets(wd, i, v1)
  BY Zenon DEF WdSets
<1> HIDE DEF v1, q
<1>6. /\ v2 \in WdWorkers /\ v2.ops = v1.ops /\ v2.found = v1.found
      /\ v2.methods = v1.methods /\ v2.deleted = v1.deleted /\ v2.finding = v1.finding
  BY <1>4 DEF WdWorkers
<1>7. q.workers[i] = v1
  BY <1>1, <1>4, <1>5, WdSetsParts
<1>8. r = WdSets(q, i, v2)
  BY <1>7, Zenon DEF WdSets
<1> HIDE DEF v2, r
<1>9. r = WdSets(wd, i, v2)
  BY <1>1, <1>5, <1>8, WdSetsAgain
<1> QED
  BY <1>1, <1>3, <1>4, <1>6, <1>9, WdSettlesGood

LEMMA WdFindAnsweredGood ==
  ASSUME WdGood(wd), NEW i \in DOMAIN wd.workers, NEW m \in WdMethods, WdFindAnswered(i, m)
  PROVE  WdGood(wd')
<1> DEFINE w == wd.workers[i]
           v == [w EXCEPT !.finding = @ \ {m}]
           p == [wd EXCEPT !.workers[i].finding = @ \ {m}]
           devices == wd.scenario.paired[m]
<1>1. WdShape(wd) /\ i \in 1..Len(wd.workers) /\ w \in WdWorkers /\ m \in w.finding
  BY DEF WdGood, WdShape, WdFindAnswered
<1>2. PICK refused \in SUBSET devices : wd' = p \/ wd' = WdGather(p, i, m, devices, refused)
  <2>1. PICK outcome \in WdOutcomes("found", {"findFails"}),
             refused \in IF WdMay("refused") THEN SUBSET devices ELSE {{}} :
          wd' = IF outcome = "findFails" \/ p.workers[i].deleted THEN p
                ELSE WdGather(p, i, m, devices, refused)
    BY Zenon DEF WdFindAnswered
  <2>2. refused \in SUBSET devices
    BY <2>1
  <2> HIDE DEF p, devices
  <2>3. wd' = p \/ wd' = WdGather(p, i, m, devices, refused)
    BY <2>1
  <2> QED
    BY <2>2, <2>3
<1>3. /\ v \in WdWorkers /\ v.ops = w.ops /\ v.found = w.found
      /\ v.methods = w.methods /\ v.deleted = w.deleted /\ v.finding \subseteq w.finding
  BY <1>1 DEF WdWorkers
<1>4. p = WdSets(wd, i, v)
  BY Zenon DEF WdSets
<1>5. devices \subseteq WdDevices
  <2>1. wd.scenario \in WdScenarios
    BY <1>1 DEF WdShape
  <2> QED
    BY <2>1, WdAssumption DEF WdMethods
<1> HIDE DEF v, p
<1>6. WdGood(p)
  BY <1>1, <1>3, <1>4, WdSettlesGood
<1>7. /\ p.workers[i] = v /\ Len(p.workers) = Len(wd.workers) /\ p.worker = wd.worker
      /\ p.scenario = wd.scenario
  BY <1>1, <1>3, <1>4, WdSetsParts
<1>8. i = p.worker => m \in p.workers[i].methods /\ devices = p.scenario.paired[m]
  <2> SUFFICES ASSUME i = p.worker PROVE m \in p.workers[i].methods
    BY <1>7
  <2>1. wd.worker # 0 /\ i = wd.worker
    BY <1>1, <1>7
  <2>2. WdAsks(wd)
    BY <2>1 DEF WdGood
  <2> QED
    BY <1>1, <1>3, <1>7, <2>1, <2>2 DEF WdAsks
<1> HIDE DEF devices
<1>9. WdGood(WdGather(p, i, m, devices, refused))
  BY <1>1, <1>2, <1>5, <1>6, <1>7, <1>8, WdGatherGood
<1> QED
  BY <1>2, <1>6, <1>9

\* The search is over.
LEMMA WdIdleGood ==
  ASSUME NEW p, WdShape(p), NEW q, DOMAIN q = WdFields, q.worker = 0,
         q.scenario = p.scenario, q.adverts = p.adverts, q.workers = p.workers,
         q.listed = p.listed, q.by = p.by, q.posted = p.posted
  PROVE  WdGood(q)
BY DEF WdGood, WdShape

LEMMA WdScanFinishedGood ==
  ASSUME NEW p, WdShape(p), NEW i
  PROVE  LET q == WdScanFinished(p, i)
         IN  WdGood(q) /\ q.worker = 0 /\ q.workers = p.workers /\ q.posted = p.posted
<1> DEFINE q == WdScanFinished(p, i)
<1>1. DOMAIN p = WdFields
  BY DEF WdShape
<1>2. /\ DOMAIN q = WdFields /\ q.worker = 0
      /\ q.scenario = p.scenario /\ q.adverts = p.adverts /\ q.workers = p.workers
      /\ q.listed = p.listed /\ q.by = p.by /\ q.posted = p.posted
  BY <1>1 DEF WdScanFinished, WdClear, WdFields
<1> HIDE DEF q
<1>3. WdGood(q)
  BY <1>2, WdIdleGood
<1> QED
  BY <1>2, <1>3 DEF q

LEMMA WdStopGood ==
  ASSUME WdGood(wd), WdStop
  PROVE  WdGood(wd')
<1> DEFINE i == wd.worker
           p == [wd EXCEPT !.workers[i].watcher = FALSE]
<1>1. i \in 1..Len(wd.workers)
  BY DEF WdGood, WdShape, WdStop
<1>2. WdGood(p)
  BY <1>1, WdDeafGood
<1>3. wd' = [WdClear(p) EXCEPT !.ends = @ + 1, !.ended = i]
  BY Zenon DEF WdStop, WdStopped
<1> HIDE DEF p
<1>4. wd' = WdScanFinished(p, i)
  BY <1>3, Zenon DEF WdScanFinished
<1> QED
  BY <1>2, <1>4, WdScanFinishedGood DEF WdGood

LEMMA WdTimeoutGood ==
  ASSUME WdGood(wd), WdTimeout
  PROVE  WdGood(wd')
<1> DEFINE i == wd.worker
           p == [wd EXCEPT !.timer = FALSE]
           q == WdScanFinished(p, i)
           r == [q EXCEPT !.workers[i].watcher = FALSE]
<1>1. WdShape(wd) /\ i \in 1..Len(wd.workers) /\ DOMAIN wd = WdFields
  <2>1. wd.worker # 0
    BY Zenon DEF WdTimeout
  <2> QED
    BY <2>1 DEF WdGood, WdShape
<1>2. /\ DOMAIN p = WdFields /\ p.worker = wd.worker /\ p.scenario = wd.scenario
      /\ p.adverts = wd.adverts /\ p.workers = wd.workers /\ p.listed = wd.listed
      /\ p.by = wd.by /\ p.posted = wd.posted
  BY <1>1 DEF WdFields
<1>3. wd' = WdPost(r, "delete", i, WdNobody, WdUnseen)
  BY Zenon DEF WdTimeout, WdNobody
<1> HIDE DEF p
<1>4. WdShape(p)
  BY <1>1, <1>2 DEF WdShape
<1>5. WdGood(q) /\ q.worker = 0 /\ q.workers = p.workers
  BY <1>4, WdScanFinishedGood
<1> HIDE DEF q
<1>6. WdGood(r) /\ r.worker = 0 /\ Len(r.workers) = Len(wd.workers)
  <2>1. i \in 1..Len(q.workers)
    BY <1>1, <1>2, <1>5
  <2>2. WdGood(r) /\ r.worker = q.worker /\ Len(r.workers) = Len(q.workers)
    BY ONLY <1>5, <2>1, WdDeafGood
  <2> QED
    BY <1>2, <1>5, <2>2
<1> HIDE DEF r
<1>7. WdFits(r, "delete", i, WdNobody, WdUnseen)
  BY <1>1, <1>6, WdUnseenInfo DEF WdFits
<1> QED
  BY <1>3, <1>6, <1>7, WdPostGood

LEMMA WdStartGood ==
  ASSUME WdGood(wd), WdStart
  PROVE  WdGood(wd')
<1>1. PICK failed \in IF WdMay("startFails") THEN SUBSET wd.scenario.methods ELSE {{}} :
        LET i == Len(wd.workers) + 1
            methods == wd.scenario.methods
            w == [WdWorker(methods) EXCEPT !.finding = methods \ failed,
                                           !.watcher = "le" \in methods]
        IN  wd' = [wd EXCEPT
                     !.workers = Append(@, w), !.worker = i,
                     !.listed = [d \in WdDevices |-> WdUnseen],
                     !.by = [d \in WdDevices |-> 0], !.ends = 0, !.ended = 0,
                     !.timer = @ \/ (wd.scenario.timeout /\ "le" \in methods)]
  BY DEF WdStart
<1> DEFINE n == Len(wd.workers)
           methods == wd.scenario.methods
           w == [WdWorker(methods) EXCEPT !.finding = methods \ failed,
                                          !.watcher = "le" \in methods]
<1>2. /\ WdShape(wd) /\ DOMAIN wd = WdFields /\ n \in Nat /\ wd.workers \in Seq(WdWorkers)
      /\ wd.scenario \in WdScenarios
  BY DEF WdGood, WdShape
<1>3. methods \subseteq WdMethods
  BY <1>2, WdAssumption
<1>4. /\ w \in WdWorkers /\ w.methods = methods /\ w.finding \subseteq methods
      /\ w.ops = {} /\ w.found = [d \in WdDevices |-> WdUnseen] /\ w.deleted = FALSE
  <2> DEFINE w0 == WdWorker(methods)
  <2>1. /\ w0 \in WdWorkers /\ w0.methods = methods /\ w0.ops = {} /\ w0.deleted = FALSE
        /\ w0.found = [d \in WdDevices |-> WdUnseen]
    BY <1>3, WdUnseenInfo DEF WdWorker, WdWorkers
  <2>2. methods \ failed \in SUBSET WdMethods /\ ("le" \in methods) \in BOOLEAN
    BY <1>3
  <2>3. w = [w0 EXCEPT !.finding = methods \ failed, !.watcher = "le" \in methods]
    OBVIOUS
  <2>4. methods \ failed \subseteq methods
    OBVIOUS
  <2> HIDE DEF w, w0, methods
  <2> QED
    BY <2>1, <2>2, <2>3, <2>4 DEF WdWorkers
<1>5. /\ DOMAIN wd' = WdFields /\ wd'.workers = Append(wd.workers, w) /\ wd'.worker = n + 1
      /\ wd'.listed = [d \in WdDevices |-> WdUnseen] /\ wd'.by = [d \in WdDevices |-> 0]
      /\ wd'.scenario = wd.scenario /\ wd'.adverts = wd.adverts /\ wd'.posted = wd.posted
  BY <1>1, <1>2 DEF WdFields
<1> HIDE DEF w, n, methods
<1>6. /\ wd'.workers \in Seq(WdWorkers) /\ Len(wd'.workers) = n + 1
      /\ wd'.workers[n + 1] = w
  BY <1>2, <1>4, <1>5, AppendParts DEF n
<1>7. \A k \in 1..Len(wd.posted) : wd.posted[k] \in WdEvents /\ wd.posted[k].worker <= n
  BY <1>2 DEF WdShape, n
<1>8. WdShape(wd')
  <2>1. \A k \in 1..Len(wd.posted) : wd.posted[k].worker <= n + 1
    BY <1>2, <1>7 DEF WdEvents
  <2> QED
    BY <1>2, <1>5, <1>6, <2>1, WdUnseenInfo DEF WdShape
<1>9. \A k \in 1..Len(wd'.posted) : wd'.posted[k].worker # wd'.worker
  BY <1>2, <1>5, <1>7 DEF WdEvents
<1>10. wd'.workers[wd'.worker] = w
  BY <1>5, <1>6
<1>11. WdLives(wd') /\ WdAsks(wd')
  BY <1>4, <1>9, <1>10 DEF WdLives, WdAsks
<1>12. ASSUME NEW d \in WdDevices
       PROVE  WdAbout(wd', d)
  <2>1. w.found[d] = WdUnseen /\ wd'.listed[d] = WdUnseen /\ wd'.by[d] = 0
    BY <1>4, <1>5
  <2>2. \A k \in 1..Len(wd'.posted) : ~WdTells(wd', k, d)
    BY <1>9 DEF WdTells
  <2>3. 0 <= 0 /\ ~(0 > 0)
    OBVIOUS
  <2> QED
    BY <1>4, <1>10, <2>1, <2>2, <2>3, WdUnseenInfo DEF WdAbout
<1> QED
  BY <1>8, <1>11, <1>12 DEF WdGood

\* An event is delivered: the agent lists what it says of a device, or ignores it.
WdDrops(p, e) ==
  /\ WdShape(p) /\ Len(p.posted) # 0 /\ e.posted = Tail(p.posted)
  /\ e.scenario = p.scenario /\ e.worker = p.worker
  /\ e.workers[e.worker].found = p.workers[p.worker].found
  /\ e.workers[e.worker].methods = p.workers[p.worker].methods
  /\ e.workers[e.worker].ops = p.workers[p.worker].ops
WdLists(p, e, d) ==
  LET info == p.posted[1].info
  IN  \/ /\ ~WdTells(p, 1, d) \/ (WdRenews(p, 1, d) /\ p.by[d] = 0)
         /\ e.by[d] = p.by[d] /\ e.listed[d] = p.listed[d]
      \/ /\ WdTells(p, 1, d) /\ ~WdRenews(p, 1, d) /\ p.by[d] # 0
         /\ e.by[d] = p.by[d] /\ e.listed[d].data = p.listed[d].data
         /\ e.listed[d].services = IF info.services > p.listed[d].services
                                   THEN info.services ELSE p.listed[d].services
      \/ /\ WdTells(p, 1, d) /\ ~WdRenews(p, 1, d) /\ p.by[d] = 0
         /\ e.by[d] # 0 /\ e.listed[d] = info
      \/ /\ WdRenews(p, 1, d) /\ p.by[d] # 0 /\ e.by[d] = p.by[d]
         /\ e.listed[d].services = p.listed[d].services /\ e.listed[d].data = info.data
LEMMA WdDropsParts ==
  ASSUME NEW p, NEW e, WdDrops(p, e), NEW d
  PROVE  /\ 1 \in 1..Len(p.posted) /\ p.posted[1] \in WdEvents
         /\ \A k \in 1..Len(e.posted) :
              /\ k + 1 \in 1..Len(p.posted) /\ e.posted[k] = p.posted[k + 1]
              /\ WdTells(e, k, d) <=> WdTells(p, k + 1, d)
              /\ WdRenews(e, k, d) <=> WdRenews(p, k + 1, d)
         /\ \A k \in 1..Len(p.posted) : k # 1 =>
              /\ k - 1 \in 1..Len(e.posted) /\ e.posted[k - 1] = p.posted[k]
              /\ WdTells(e, k - 1, d) <=> WdTells(p, k, d)
              /\ WdRenews(e, k - 1, d) <=> WdRenews(p, k, d)
         /\ WdPairs(e, d) <=> WdPairs(p, d)
<1>1. p.posted \in Seq(WdEvents) /\ p.posted # <<>> /\ e.posted = Tail(p.posted)
  BY DEF WdDrops, WdShape
<1>2. /\ 1 \in 1..Len(p.posted) /\ p.posted[1] \in WdEvents
      /\ \A k \in 1..Len(e.posted) : k + 1 \in 1..Len(p.posted) /\ e.posted[k] = p.posted[k + 1]
      /\ \A k \in 1..Len(p.posted) :
           k # 1 => k - 1 \in 1..Len(e.posted) /\ e.posted[k - 1] = p.posted[k]
  BY <1>1, TailParts
<1>3. e.worker = p.worker /\ (WdPairs(e, d) <=> WdPairs(p, d))
  BY DEF WdDrops, WdPairs
<1> QED
  BY <1>2, <1>3 DEF WdTells, WdRenews

LEMMA WdDropsAbout ==
  ASSUME NEW p, NEW e, WdDrops(p, e), NEW d \in WdDevices, WdAbout(p, d), WdLists(p, e, d)
  PROVE  WdAbout(e, d)
<1> DEFINE w == p.workers[p.worker]
           f == w.found[d]
           info == p.posted[1].info
           sp == p.listed[d].services
           NoneNewer(r) == \A k \in 1..Len(r.posted) : ~WdRenews(r, k, d)
<1>1. /\ 1 \in 1..Len(p.posted) /\ p.posted[1] \in WdEvents
      /\ \A k \in 1..Len(e.posted) :
           /\ k + 1 \in 1..Len(p.posted) /\ e.posted[k] = p.posted[k + 1]
           /\ WdTells(e, k, d) <=> WdTells(p, k + 1, d)
           /\ WdRenews(e, k, d) <=> WdRenews(p, k + 1, d)
      /\ \A k \in 1..Len(p.posted) : k # 1 =>
           /\ k - 1 \in 1..Len(e.posted) /\ e.posted[k - 1] = p.posted[k]
           /\ WdTells(e, k - 1, d) <=> WdTells(p, k, d)
           /\ WdRenews(e, k - 1, d) <=> WdRenews(p, k, d)
      /\ WdPairs(e, d) <=> WdPairs(p, d)
  BY WdDropsParts
<1>2. /\ e.workers[e.worker].found[d] = f /\ e.workers[e.worker].ops = w.ops
      /\ e.scenario = p.scenario
  BY DEF WdDrops
<1>3. /\ info \in WdInfos /\ info.services \in Nat /\ sp \in Nat /\ p.listed[d] \in WdInfos
      /\ f.services \in Nat \/ p.worker = 0
  <2>1. WdShape(p)
    BY DEF WdDrops
  <2>2. p.listed[d] \in WdInfos
    BY <2>1 DEF WdShape
  <2>3. ASSUME p.worker # 0
        PROVE  f.services \in Nat
    <3>1. w \in WdWorkers
      BY <2>1, <2>3 DEF WdShape
    <3> QED
      BY <3>1 DEF WdWorkers, WdInfos
  <2> QED
    BY <1>1, <2>2, <2>3 DEF WdEvents, WdInfos
<1>4. /\ f.services = 0 => f.data = 0
      /\ p.scenario.adverts = 0 \/ WdPairs(p, d) => f.services = 0
      /\ f.services = 0 /\ ~WdPairs(p, d) =>
           /\ p.by[d] = 0 /\ \A k \in 1..Len(p.posted) : ~WdTells(p, k, d)
           /\ \A op \in w.ops : op[2] # d
      /\ sp <= f.services /\ (p.by[d] = 0 => p.listed[d] = WdUnseen)
      /\ p.by[d] # 0 /\ NoneNewer(p) => p.listed[d].data = f.data
  BY DEF WdAbout
<1>5. \A k \in 1..Len(p.posted) : WdTells(p, k, d) =>
        /\ p.posted[k].info.services <= f.services
        /\ \/ p.posted[k].info.data = f.data
           \/ \E l \in 1..Len(p.posted) : l > k /\ WdRenews(p, l, d)
  BY DEF WdAbout
<1>6. f.services > 0 =>
        \/ \E op \in w.ops : op[2] = d
        \/ \E k \in 1..Len(p.posted) :
             /\ WdTells(p, k, d) /\ p.posted[k].what = "found"
             /\ p.posted[k].info.services = f.services
        \/ p.by[d] # 0 /\ sp = f.services
  BY DEF WdAbout
<1> HIDE DEF w, f, info, sp
<1>7. ASSUME NEW k \in 1..Len(e.posted), WdTells(e, k, d)
      PROVE  /\ e.posted[k].info.services <= f.services
             /\ \/ e.posted[k].info.data = f.data
                \/ \E l \in 1..Len(e.posted) : l > k /\ WdRenews(e, l, d)
  <2>1. WdTells(p, k + 1, d) /\ k + 1 \in 1..Len(p.posted) /\ e.posted[k] = p.posted[k + 1]
    BY <1>1, <1>7
  <2>2. ASSUME NEW l \in 1..Len(p.posted), l > k + 1, WdRenews(p, l, d)
        PROVE  l - 1 \in 1..Len(e.posted) /\ l - 1 > k /\ WdRenews(e, l - 1, d)
    BY <1>1, <2>2
  <2> QED
    BY <1>5, <2>1, <2>2
<1>8. WdTells(p, 1, d) =>
        /\ info.services <= f.services
        /\ NoneNewer(e) => info.data = f.data
  <2>1. ASSUME NEW l \in 1..Len(p.posted), l > 1, WdRenews(p, l, d)
        PROVE  ~NoneNewer(e)
    BY <1>1, <2>1
  <2> QED
    BY <1>1, <1>5, <2>1 DEF info
<1>9. ~WdRenews(p, 1, d) /\ NoneNewer(e) => NoneNewer(p)
  BY <1>1
<1>10. ASSUME NEW k \in 1..Len(p.posted), WdTells(p, k, d), p.posted[k].what = "found",
              p.posted[k].info.services = f.services
       PROVE  \/ \E l \in 1..Len(e.posted) :
                   /\ WdTells(e, l, d) /\ e.posted[l].what = "found"
                   /\ e.posted[l].info.services = f.services
              \/ /\ WdTells(p, 1, d) /\ ~WdRenews(p, 1, d) /\ info.services = f.services
  <2>1. CASE k # 1
    <3>1. k - 1 \in 1..Len(e.posted) /\ e.posted[k - 1] = p.posted[k] /\ WdTells(e, k - 1, d)
      BY <1>1, <1>10, <2>1
    <3> QED
      BY <1>10, <3>1
  <2>2. CASE k = 1
    BY <1>10, <2>2 DEF info, WdRenews
  <2> QED
    BY <2>1, <2>2
<1> DEFINE Told == \E l \in 1..Len(e.posted) :
                     /\ WdTells(e, l, d) /\ e.posted[l].what = "found"
                     /\ e.posted[l].info.services = f.services
           Asked == \E op \in w.ops : op[2] = d
<1>11. f.services > 0 =>
         \/ Asked \/ Told
         \/ /\ WdTells(p, 1, d) /\ ~WdRenews(p, 1, d) /\ info.services = f.services
         \/ p.by[d] # 0 /\ sp = f.services
  BY <1>6, <1>10
<1>12. \A k \in 1..Len(e.posted) : WdTells(e, k, d) => WdTells(p, k + 1, d) /\ k + 1 \in 1..Len(p.posted)
  BY <1>1
<1> HIDE DEF NoneNewer, Told, Asked
<1>13. /\ f.services = 0 /\ ~WdPairs(p, d) => e.by[d] = 0
       /\ e.listed[d].services <= f.services
       /\ e.by[d] = 0 => e.listed[d] = WdUnseen
       /\ e.by[d] # 0 /\ NoneNewer(e) => e.listed[d].data = f.data
       /\ f.services > 0 => Asked \/ Told \/ (e.by[d] # 0 /\ e.listed[d].services = f.services)
  <2> DEFINE t == WdTells(p, 1, d)
             n == WdRenews(p, 1, d)
  <2>1. /\ n => t
        /\ f.services = 0 /\ ~WdPairs(p, d) => p.by[d] = 0 /\ ~t
    BY <1>1, <1>4 DEF WdRenews
  <2>2. sp = p.listed[d].services
    BY DEF sp
  <2> HIDE DEF t, n
  <2>3. CASE (~t \/ (n /\ p.by[d] = 0)) /\ e.by[d] = p.by[d] /\ e.listed[d] = p.listed[d]
    BY ONLY <1>4, <1>8, <1>9, <1>11, <2>1, <2>2, <2>3 DEF t, n
  <2>4. CASE /\ t /\ ~n /\ p.by[d] # 0
             /\ e.by[d] = p.by[d] /\ e.listed[d].data = p.listed[d].data
             /\ e.listed[d].services = IF info.services > sp THEN info.services ELSE sp
    <3>1. e.listed[d].services <= f.services
      BY <1>3, <1>4, <1>8, <2>4 DEF t
    <3>2. info.services = f.services \/ sp = f.services => e.listed[d].services = f.services
      BY <1>3, <1>4, <1>8, <2>4 DEF t
    <3> QED
      BY ONLY <1>4, <1>8, <1>9, <1>11, <2>1, <2>4, <3>1, <3>2 DEF t, n
  <2>5. CASE t /\ ~n /\ p.by[d] = 0 /\ e.by[d] # 0 /\ e.listed[d] = info
    BY ONLY <1>4, <1>8, <1>11, <2>1, <2>5 DEF t, n
  <2>6. CASE /\ n /\ p.by[d] # 0 /\ e.by[d] = p.by[d]
             /\ e.listed[d].services = sp /\ e.listed[d].data = info.data
    BY ONLY <1>4, <1>8, <1>11, <2>1, <2>6 DEF t, n
  <2> QED
    BY <2>3, <2>4, <2>5, <2>6 DEF WdLists, info, sp, t, n
<1>14. f.services = 0 /\ ~WdPairs(p, d) =>
         /\ \A k \in 1..Len(e.posted) : ~WdTells(e, k, d)
         /\ \A op \in w.ops : op[2] # d
  BY <1>4, <1>12
<1> QED
  BY ONLY <1>1, <1>2, <1>4, <1>7, <1>13, <1>14 DEF WdAbout, NoneNewer, Told, Asked

\* What was delivered is not posted any more.
LEMMA WdDroppedParts ==
  ASSUME NEW p, WdShape(p), p.posted # <<>>
  PROVE  LET q == [p EXCEPT !.posted = Tail(@)]
         IN  /\ WdShape(q) /\ q.posted = Tail(p.posted) /\ q.workers = p.workers
             /\ q.worker = p.worker /\ q.scenario = p.scenario /\ q.listed = p.listed
             /\ q.by = p.by /\ q.adverts = p.adverts /\ DOMAIN q = WdFields
<1> DEFINE q == [p EXCEPT !.posted = Tail(@)]
<1>1. p.posted \in Seq(WdEvents) /\ DOMAIN p = WdFields
  BY DEF WdShape
<1>2. /\ q.posted = Tail(p.posted) /\ q.workers = p.workers
      /\ q.worker = p.worker /\ q.scenario = p.scenario /\ q.listed = p.listed
      /\ q.by = p.by /\ q.adverts = p.adverts /\ DOMAIN q = WdFields
  BY <1>1 DEF WdFields
<1> HIDE DEF q
<1>3. /\ q.posted \in Seq(WdEvents)
      /\ \A k \in 1..Len(q.posted) : k + 1 \in 1..Len(p.posted) /\ q.posted[k] = p.posted[k + 1]
  BY <1>1, <1>2, TailParts
<1>4. WdShape(q)
  BY <1>2, <1>3 DEF WdShape
<1> QED
  BY <1>2, <1>4 DEF q

LEMMA WdDropsGood ==
  ASSUME NEW p, NEW e, WdGood(p), WdShape(e), e.worker = p.worker, p.posted # <<>>,
         p.posted[1].what # "finished", e.posted = Tail(p.posted), e.scenario = p.scenario,
         p.worker # 0 =>
           LET u == e.workers[p.worker]
               w == p.workers[p.worker]
           IN  /\ u.found = w.found /\ u.methods = w.methods /\ u.ops = w.ops
               /\ u.finding = w.finding /\ u.deleted = w.deleted,
         p.worker # 0 => \A d \in WdDevices : WdLists(p, e, d)
  PROVE  WdGood(e)
<1>1. CASE p.worker = 0
  BY <1>1 DEF WdGood
<1>2. CASE p.worker # 0
  <2>1. WdShape(p) /\ WdLives(p) /\ WdAsks(p) /\ \A d \in WdDevices : WdAbout(p, d)
    BY <1>2 DEF WdGood
  <2>2. p.posted \in Seq(WdEvents) /\ Len(p.posted) # 0
    BY <2>1 DEF WdShape
  <2>3. WdDrops(p, e)
    BY <1>2, <2>1, <2>2 DEF WdDrops
  <2>4. \A d \in WdDevices : WdAbout(e, d)
    BY <1>2, <2>1, <2>3, WdDropsAbout
  <2>5. /\ \A k \in 1..Len(e.posted) : k + 1 \in 1..Len(p.posted) /\ e.posted[k] = p.posted[k + 1]
        /\ \A k \in 1..Len(p.posted) :
             k # 1 => k - 1 \in 1..Len(e.posted) /\ e.posted[k - 1] = p.posted[k]
    BY <2>2, TailParts
  <2>6. WdLives(e)
    <3>1. ~e.workers[e.worker].deleted
      BY <1>2, <2>1 DEF WdLives
    <3>2. ASSUME NEW k \in 1..Len(e.posted), e.posted[k].what = "delete",
                 e.posted[k].worker = e.worker
          PROVE  \E l \in 1..Len(e.posted) : l < k /\ e.posted[l].what = "finished"
      <4>1. PICK l \in 1..Len(p.posted) : l < k + 1 /\ p.posted[l].what = "finished"
        BY <2>1, <2>5, <3>2 DEF WdLives
      <4>2. l # 1
        BY <4>1
      <4>3. l - 1 \in 1..Len(e.posted) /\ e.posted[l - 1] = p.posted[l] /\ l - 1 < k
        BY <2>5, <4>1, <4>2
      <4> QED
        BY <4>1, <4>3
    <3> QED
      BY <3>1, <3>2 DEF WdLives
  <2>7. WdAsks(e)
    <3>1. \A d : WdPairs(e, d) <=> WdPairs(p, d)
      BY <1>2 DEF WdPairs
    <3> QED
      BY <1>2, <2>1, <3>1 DEF WdAsks
  <2> QED
    BY <2>4, <2>6, <2>7 DEF WdGood
<1> QED
  BY <1>1, <1>2

LEMMA WdDeliverGood ==
  ASSUME WdGood(wd), WdDeliver
  PROVE  WdGood(wd')
<1> DEFINE event == Head(wd.posted)
           i == event.worker
           d == event.device
           info == event.info
           p == [wd EXCEPT !.posted = Tail(@)]
<1>1. wd.posted # <<>> /\
      wd' = CASE event.what = "finished" -> WdScanFinished(p, i)
              [] event.what = "delete" -> [p EXCEPT !.workers[i].deleted = TRUE]
              [] event.what = "found" /\ WdHeard(p, i) -> WdRegister(p, d, info)
              [] event.what = "data" /\ WdHeard(p, i) -> WdUpdate(p, d, info)
              [] OTHER -> p
  BY Zenon DEF WdDeliver
<1>2. WdShape(wd) /\ wd.posted \in Seq(WdEvents) /\ wd.workers \in Seq(WdWorkers)
  BY DEF WdGood, WdShape
<1>3. /\ WdShape(p) /\ p.posted = Tail(wd.posted) /\ p.workers = wd.workers
      /\ p.worker = wd.worker /\ p.scenario = wd.scenario /\ p.listed = wd.listed
      /\ p.by = wd.by /\ p.adverts = wd.adverts /\ DOMAIN p = WdFields
  BY <1>1, <1>2, WdDroppedParts
<1>4. event = wd.posted[1] /\ event \in WdEvents /\ 1 \in 1..Len(wd.posted)
  BY <1>1, <1>2, TailParts
<1> HIDE DEF p, event
<1>5. /\ event.what \in {"found", "data", "error", "finished", "delete"} /\ i \in Nat
      /\ info \in WdInfos /\ i <= Len(wd.workers)
      /\ event.what \in {"found", "data"} => d \in WdDevices
  BY <1>2, <1>4 DEF WdEvents, WdShape
<1>6. \A c : /\ WdTells(wd, 1, c) <=> /\ event.what \in {"found", "data"}
                                      /\ i = wd.worker /\ c = d
             /\ WdRenews(wd, 1, c) <=> WdTells(wd, 1, c) /\ event.what = "data"
  BY <1>4 DEF WdTells, WdRenews
<1>7. ASSUME NEW e, event.what # "finished", WdShape(e), e.worker = p.worker,
             e.posted = p.posted, e.scenario = p.scenario,
             wd.worker # 0 => e.workers[wd.worker] = wd.workers[wd.worker],
             wd.worker # 0 => \A c \in WdDevices : WdLists(wd, e, c)
      PROVE  WdGood(e)
  BY <1>1, <1>3, <1>4, <1>7, WdDropsGood
<1>8. ASSUME NEW e, NEW c, ~WdTells(wd, 1, c), e.by[c] = wd.by[c], e.listed[c] = wd.listed[c]
      PROVE  WdLists(wd, e, c)
  BY <1>8 DEF WdLists
<1>9. CASE event.what = "finished"
  BY <1>1, <1>3, <1>9, WdScanFinishedGood
<1>10. CASE event.what = "delete"
  <2>1. wd' = [p EXCEPT !.workers[i].deleted = TRUE]
    BY <1>1, <1>10
  <2>2. wd.worker # 0 => i # wd.worker
    <3> SUFFICES ASSUME wd.worker # 0, i = wd.worker PROVE FALSE
      OBVIOUS
    <3>1. \E l \in 1..Len(wd.posted) : l < 1 /\ wd.posted[l].what = "finished"
      BY <1>4, <1>10 DEF WdGood, WdLives
    <3> QED
      BY <3>1
  <2>3. CASE i \in 1..Len(wd.workers)
    <3> DEFINE v == [wd.workers[i] EXCEPT !.deleted = TRUE]
               e == WdSets(p, i, v)
    <3>1. v \in WdWorkers
      <4>1. wd.workers[i] \in WdWorkers
        BY <1>2, <2>3
      <4> QED
        BY <4>1 DEF WdWorkers
    <3>2. wd' = e
      <4>1. [p EXCEPT !.workers[i].deleted = TRUE] = WdSets(p, i, [p.workers[i] EXCEPT !.deleted = TRUE])
        BY Zenon DEF WdSets
      <4> QED
        BY <1>3, <2>1, <4>1
    <3>3. /\ WdShape(e) /\ e.worker = p.worker /\ e.posted = p.posted
          /\ e.scenario = p.scenario /\ e.by = p.by /\ e.listed = p.listed
          /\ \A j \in 1..Len(p.workers) : j # i => e.workers[j] = p.workers[j]
      <4> HIDE DEF v
      <4>1. i \in 1..Len(p.workers)
        BY <1>3, <2>3
      <4> QED
        BY ONLY <1>3, <3>1, <4>1, WdSetsParts
    <3> HIDE DEF e
    <3>4. wd.worker # 0 => e.workers[wd.worker] = wd.workers[wd.worker]
      BY <1>2, <1>3, <2>2, <3>3 DEF WdShape
    <3>5. \A c \in WdDevices : WdLists(wd, e, c)
      BY <1>3, <1>6, <1>8, <1>10, <3>3
    <3> QED
      BY <1>7, <1>10, <3>2, <3>3, <3>4, <3>5
  <2>4. CASE i \notin 1..Len(wd.workers)
    <3> DEFINE e == [p EXCEPT !.workers[i].deleted = TRUE]
    <3>1. e = [p EXCEPT !.workers = [p.workers EXCEPT ![i] = [p.workers[i] EXCEPT !.deleted = TRUE]]]
      BY Zenon
    <3>2. [p.workers EXCEPT ![i] = [p.workers[i] EXCEPT !.deleted = TRUE]] = p.workers
      BY <1>2, <1>3, <2>4
    <3> HIDE DEF e
    <3>3. /\ DOMAIN e = WdFields /\ e.workers = p.workers /\ e.worker = p.worker
          /\ e.posted = p.posted /\ e.scenario = p.scenario /\ e.by = p.by
          /\ e.listed = p.listed /\ e.adverts = p.adverts
      BY <1>3, <3>1, <3>2 DEF WdFields
    <3>4. WdShape(e)
      BY <1>3, <3>3 DEF WdShape
    <3>5. \A c \in WdDevices : WdLists(wd, e, c)
      BY <1>3, <1>6, <1>8, <1>10, <3>3
    <3> QED
      BY <1>3, <1>7, <1>10, <2>1, <3>3, <3>4, <3>5 DEF e
  <2> QED
    BY <2>3, <2>4
<1>11. ASSUME event.what \in {"found", "data"}, NEW e, DOMAIN e = WdFields,
              e.worker = p.worker, e.posted = p.posted, e.scenario = p.scenario,
              e.workers = p.workers, e.adverts = p.adverts,
              e.listed \in [WdDevices -> WdInfos], e.by \in [WdDevices -> Nat],
              \A c \in WdDevices : c # d => e.by[c] = wd.by[c] /\ e.listed[c] = wd.listed[c],
              i = wd.worker => WdLists(wd, e, d),
              i # wd.worker => e.by[d] = wd.by[d] /\ e.listed[d] = wd.listed[d]
       PROVE  WdGood(e)
  <2>1. WdShape(e)
    BY <1>3, <1>11 DEF WdShape
  <2>2. ASSUME NEW c \in WdDevices
        PROVE  WdLists(wd, e, c)
    <3>1. CASE c = d /\ i = wd.worker
      BY <1>11, <3>1
    <3>2. CASE ~(c = d /\ i = wd.worker)
      BY <1>6, <1>8, <1>11, <3>2
    <3> QED
      BY <3>1, <3>2
  <2> QED
    BY <1>3, <1>7, <1>11, <2>1, <2>2
<1>12. wd.listed \in [WdDevices -> WdInfos] /\ wd.by \in [WdDevices -> Nat]
  BY <1>2 DEF WdShape
<1>13. CASE event.what = "found" /\ WdHeard(p, i)
  <2>1. wd' = WdRegister(p, d, info) /\ d \in WdDevices /\ i = wd.worker
    BY <1>1, <1>3, <1>5, <1>13 DEF WdHeard
  <2>2. CASE wd.by[d] # 0
    <3> DEFINE s == wd.listed[d].services
               t == IF info.services > s THEN info.services ELSE s
               x == [wd.listed[d] EXCEPT !.services = t]
               e == [p EXCEPT !.listed[d].services = IF info.services > @ THEN info.services ELSE @]
    <3>1. wd' = e
      BY <1>3, <2>1, <2>2 DEF WdRegister
    <3>2. /\ x \in WdInfos /\ x.services = t /\ x.data = wd.listed[d].data
      BY <1>5, <1>12, <2>1 DEF WdInfos
    <3>3. e = [p EXCEPT !.listed = [wd.listed EXCEPT ![d] = x]]
      <4>1. e = [p EXCEPT !.listed = [p.listed EXCEPT ![d] =
                   [p.listed[d] EXCEPT !.services =
                      IF info.services > p.listed[d].services THEN info.services
                      ELSE p.listed[d].services]]]
        BY Zenon
      <4> QED
        BY <1>3, <4>1
    <3> HIDE DEF x, t, e
    <3>4. /\ DOMAIN e = WdFields /\ e.listed = [wd.listed EXCEPT ![d] = x]
          /\ e.worker = p.worker /\ e.posted = p.posted /\ e.scenario = p.scenario
          /\ e.workers = p.workers /\ e.adverts = p.adverts /\ e.by = wd.by
      BY <1>3, <3>3 DEF WdFields
    <3>5. /\ e.listed \in [WdDevices -> WdInfos] /\ e.listed[d] = x
          /\ \A c \in WdDevices : c # d => e.listed[c] = wd.listed[c]
      BY <1>12, <2>1, <3>2, <3>4
    <3>6. WdLists(wd, e, d)
      BY <1>4, <1>6, <1>13, <2>1, <2>2, <3>2, <3>4, <3>5 DEF WdLists, t
    <3> QED
      BY <1>11, <1>12, <1>13, <2>1, <3>1, <3>4, <3>5, <3>6
  <2>3. CASE wd.by[d] = 0
    <3> DEFINE e == [p EXCEPT !.listed[d] = info, !.by[d] = Len(p.workers)]
    <3>1. wd' = e
      BY <1>3, <2>1, <2>3 DEF WdRegister
    <3>2. /\ DOMAIN e = WdFields /\ e.listed = [wd.listed EXCEPT ![d] = info]
          /\ e.worker = p.worker /\ e.posted = p.posted /\ e.scenario = p.scenario
          /\ e.workers = p.workers /\ e.adverts = p.adverts
          /\ e.by = [wd.by EXCEPT ![d] = Len(wd.workers)]
      BY <1>3 DEF WdFields
    <3> HIDE DEF e
    <3>3. /\ e.listed \in [WdDevices -> WdInfos] /\ e.listed[d] = info
          /\ e.by \in [WdDevices -> Nat] /\ e.by[d] = Len(wd.workers)
          /\ \A c \in WdDevices : c # d => e.listed[c] = wd.listed[c] /\ e.by[c] = wd.by[c]
      BY <1>2, <1>5, <1>12, <2>1, <3>2
    <3>4. CASE wd.worker = 0
      BY <1>3, <3>1, <3>2, <3>3, <3>4 DEF WdGood, WdShape
    <3>5. CASE wd.worker # 0
      <4>1. e.by[d] # 0
        BY <1>2, <3>3, <3>5 DEF WdShape
      <4>2. WdLists(wd, e, d)
        BY <1>4, <1>6, <1>13, <2>1, <2>3, <3>3, <4>1 DEF WdLists
      <4> QED
        BY <1>11, <1>13, <2>1, <3>1, <3>2, <3>3, <4>2
    <3> QED
      BY <3>4, <3>5
  <2> QED
    BY <2>2, <2>3
<1>14. CASE event.what = "data" /\ WdHeard(p, i)
  <2>1. wd' = WdUpdate(p, d, info) /\ d \in WdDevices /\ i = wd.worker
    BY <1>1, <1>3, <1>5, <1>14 DEF WdHeard
  <2>2. CASE wd.by[d] = 0
    <3>1. wd' = p
      BY <1>3, <2>1, <2>2 DEF WdUpdate
    <3>2. WdLists(wd, p, d)
      BY <1>3, <1>6, <1>14, <2>1, <2>2 DEF WdLists
    <3> QED
      BY <1>3, <1>11, <1>12, <1>14, <2>1, <3>1, <3>2
  <2>3. CASE wd.by[d] # 0
    <3> DEFINE x == [wd.listed[d] EXCEPT !.data = info.data]
               e == [p EXCEPT !.listed[d].data = info.data]
    <3>1. wd' = e
      BY <1>3, <2>1, <2>3 DEF WdUpdate
    <3>2. x \in WdInfos /\ x.services = wd.listed[d].services /\ x.data = info.data
      BY <1>5, <1>12, <2>1 DEF WdInfos
    <3>3. e = [p EXCEPT !.listed = [wd.listed EXCEPT ![d] = x]]
      <4>1. e = [p EXCEPT !.listed = [p.listed EXCEPT ![d] = [p.listed[d] EXCEPT !.data = info.data]]]
        BY Zenon
      <4> QED
        BY <1>3, <4>1
    <3> HIDE DEF x, e
    <3>4. /\ DOMAIN e = WdFields /\ e.listed = [wd.listed EXCEPT ![d] = x]
          /\ e.worker = p.worker /\ e.posted = p.posted /\ e.scenario = p.scenario
          /\ e.workers = p.workers /\ e.adverts = p.adverts /\ e.by = wd.by
      BY <1>3, <3>3 DEF WdFields
    <3>5. /\ e.listed \in [WdDevices -> WdInfos] /\ e.listed[d] = x
          /\ \A c \in WdDevices : c # d => e.listed[c] = wd.listed[c]
      BY <1>12, <2>1, <3>2, <3>4
    <3>6. WdLists(wd, e, d)
      BY <1>4, <1>6, <1>14, <2>1, <2>3, <3>2, <3>4, <3>5 DEF WdLists
    <3> QED
      BY <1>11, <1>12, <1>14, <2>1, <3>1, <3>4, <3>5, <3>6
  <2> QED
    BY <2>2, <2>3
<1>15. CASE /\ event.what \notin {"finished", "delete"}
            /\ ~(event.what = "found" /\ WdHeard(p, i)) /\ ~(event.what = "data" /\ WdHeard(p, i))
  <2>1. wd' = p
    BY <1>1, <1>15
  <2>2. ASSUME wd.worker # 0, NEW c \in WdDevices
        PROVE  WdLists(wd, p, c)
    <3>1. ~wd.workers[wd.worker].deleted
      BY <2>2 DEF WdGood, WdLives
    <3>2. ~WdTells(wd, 1, c)
      BY <1>3, <1>6, <1>15, <3>1 DEF WdHeard
    <3> QED
      BY <1>3, <1>8, <3>2
  <2> QED
    BY <1>3, <1>7, <1>15, <2>1, <2>2
<1> QED
  BY <1>5, <1>9, <1>10, <1>13, <1>14, <1>15

LEMMA WdInitGood == WdInit => WdGood(wd)
<1> SUFFICES ASSUME WdInit PROVE WdGood(wd)
  OBVIOUS
<1>1. PICK scenario \in WdScenarios :
        wd = [scenario |-> scenario, adverts |-> 0, workers |-> <<>>, worker |-> 0,
              timer |-> FALSE, listed |-> [d \in WdDevices |-> WdUnseen],
              by |-> [d \in WdDevices |-> 0], ends |-> 0, ended |-> 0, posted |-> <<>>]
  BY DEF WdInit
<1>2. /\ DOMAIN wd = WdFields /\ wd.scenario \in WdScenarios /\ wd.adverts = 0
      /\ wd.workers = <<>> /\ wd.worker = 0 /\ wd.posted = <<>>
      /\ wd.listed = [d \in WdDevices |-> WdUnseen] /\ wd.by = [d \in WdDevices |-> 0]
  BY <1>1 DEF WdFields
<1>3. /\ wd.listed \in [WdDevices -> WdInfos] /\ wd.by \in [WdDevices -> Nat]
      /\ wd.workers \in Seq(WdWorkers) /\ wd.posted \in Seq(WdEvents) /\ Len(wd.posted) = 0
  BY <1>2, WdUnseenInfo
<1> QED
  BY <1>2, <1>3 DEF WdGood, WdShape

LEMMA WdNextGood ==
  ASSUME AdvertsAnswered, WdGood(wd), [WdNext]_wd
  PROVE  WdGood(wd')
<1>1. CASE WdStart \/ WdStop \/ WdTimeout \/ WdDeliver
  BY <1>1, WdStartGood, WdStopGood, WdTimeoutGood, WdDeliverGood
<1>2. CASE \E i \in DOMAIN wd.workers :
             \/ WdCallbackReturns(i)
             \/ \E m \in WdMethods : WdFindAnswered(i, m)
             \/ \E op \in wd.workers[i].ops : WdClassicCounted(i, op) \/ WdCallback(i, op)
             \/ \E d \in WdDevices : WdAdvertisement(i, d)
  BY <1>2, WdReturnsGood, WdFindAnsweredGood, WdCountedGood, WdCallbackGood, WdAdvertisementGood
<1>3. CASE UNCHANGED wd
  BY <1>3
<1> QED
  BY <1>1, <1>2, <1>3 DEF WdNext

LEMMA WdPromise ==
  ASSUME WdGood(wd)
  PROVE  WdAdvertsTold
<1> SUFFICES ASSUME wd.worker # 0, NEW d \in WdDevices, WdQuiet(wd.worker, d)
             PROVE  wd.listed[d] = wd.workers[wd.worker].found[d]
  BY DEF WdAdvertsTold
<1> DEFINE w == wd.workers[wd.worker]
           f == w.found[d]
<1>1. WdShape(wd) /\ WdAbout(wd, d)
  BY DEF WdGood
<1>2. f \in WdInfos /\ wd.listed[d] \in WdInfos
  <2>1. w \in WdWorkers /\ wd.listed[d] \in WdInfos
    BY <1>1 DEF WdShape
  <2> QED
    BY <2>1 DEF WdWorkers
<1>3. DOMAIN wd.posted = 1..Len(wd.posted)
  BY <1>1 DEF WdShape
<1>4. /\ \A k \in 1..Len(wd.posted) : ~WdTells(wd, k, d) /\ ~WdRenews(wd, k, d)
      /\ \A op \in w.ops : op[2] # d
  BY <1>3 DEF WdQuiet, WdTells, WdRenews
<1>5. /\ f.services = 0 => f.data = 0
      /\ wd.listed[d].services <= f.services
      /\ wd.by[d] = 0 => wd.listed[d] = WdUnseen
      /\ wd.by[d] # 0 => wd.listed[d].data = f.data
      /\ f.services > 0 => wd.by[d] # 0 /\ wd.listed[d].services = f.services
  BY <1>1, <1>4 DEF WdAbout
<1> HIDE DEF f
<1>6. wd.listed[d].services = f.services /\ wd.listed[d].data = f.data
  BY <1>2, <1>5, WdUnseenInfo DEF WdInfos
<1> QED
  BY <1>2, <1>6 DEF WdInfos, f

-------------------------------------------------------------------------------
(* The composition *)

AllVars == <<backend, Classic, Agents, LowEnergy>>

\* A step of a behaviour is one of each back end, or leaves it as it is.
LEMMA BackendsStep ==
  ASSUME [BackendsNext]_AllVars
  PROVE  /\ [BsNext]_bz /\ [DsNext]_ds /\ [BvNext]_bv /\ [AvNext]_av /\ [DvNext]_dv
         /\ [BdNext]_bd /\ [BlNext]_bl /\ [WdNext]_wd
<1>1. CASE UNCHANGED AllVars
  BY <1>1 DEF AllVars, Classic, Agents
<1>2. UNCHANGED Classic => UNCHANGED <<bz, ds, bv, av, dv>>
  BY DEF Classic
<1>3. UNCHANGED Agents => UNCHANGED <<bd, bl, wd>>
  BY DEF Agents
<1>4. CASE BackendsNext
  BY <1>2, <1>3, <1>4 DEF BackendsNext
<1> QED
  BY <1>1, <1>4

\* A server that listens hears its own descriptor (BvHears), a silent notifier means
\* a connection that was announced (BvSilenceAnnounced); connections in the queue of a
\* listening server have been told of (AvAnnounced), and one Java thread at a time
\* accepts, for a server that listens (AvOneListener); the registry of ports agrees
\* with the servers (DvRegistryAgrees), and a server without a service hears nobody.
THEOREM ServersHearing ==
  ASSUME RefusedOnce, NobodyAfterReregistering, ServersInTurn
  PROVE  BackendsSpec => []ServersHear
<1> DEFINE Inv == BvInv /\ AvGood(av) /\ DvGood
<1>1. BackendsInit => Inv
  BY BvInitInv, AvInitInv, DvInitInv DEF BackendsInit
<1>2. Inv /\ [BackendsNext]_AllVars => Inv'
  BY BackendsStep, BvNextInv, AvNextInv, DvNextInv
<1>3. Inv => ServersHear
  BY AvPromise DEF ServersHear, BvInv, BvHears, DvGood, DvQuiet, DvSound
<1> QED
  BY <1>1, <1>2, <1>3, PTL DEF BackendsSpec, AllVars

\* A socket that close() has closed can connect again: over the kernel no call that
\* write() queued, in or outside a slot, uses a deleted notifier (BsNotifiersLive), and
\* it keeps no bytes of the connection before and no queued call for them
\* (BsNothingLeft), which abort() with pending bytes does not promise; over D-Bus it has no profile and no QLocalSocket left
\* (DsReusable), and clearSocket() did not use one its close() has cleared
\* (DsLocalLive).
THEOREM SocketsStayReusable ==
  ASSUME QueuedWritesRun, OneAttempt
  PROVE  BackendsSpec => []SocketsReusable
<1> DEFINE Inv == BsInv /\ DsGood(ds)
<1>1. BackendsInit => Inv
  BY BsInitInv, DsInitInv DEF BackendsInit, BsInv
<1>2. Inv /\ [BackendsNext]_AllVars => Inv'
  BY BackendsStep, BsNextInv, DsNextInv
<1>3. Inv => SocketsReusable
  BY BsPromise, DsPromise DEF SocketsReusable
<1> QED
  BY <1>1, <1>2, <1>3, PTL DEF BackendsSpec, AllVars

\* The interest in the adapter's discovery mode that the manager counts is that of
\* the search and of the pairing that run (BdInterestHeld), who registered one is
\* served (BdServed), and what Qt has switched on it switches off (BdSwitchedOff);
\* once all signals are handled the host mode that was announced is the adapter's
\* (BlModeTold) and the devices called connected are those that are
\* (BlConnectedAgrees).
THEOREM AdapterStaysShared ==
  ASSUME NothingLeaked, RestartsAreHasty, PulledWhenIdle, NothingQuick
  PROVE  BackendsSpec => []AdapterShared
<1> DEFINE Inv == BdGood(bd) /\ BlGood(bl)
<1>1. BackendsInit => Inv
  BY BdInitInv, BlInitInv DEF BackendsInit
<1>2. Inv /\ [BackendsNext]_AllVars => Inv'
  BY BackendsStep, BdNextInv, BlNextInv
<1>3. Inv => AdapterShared
  BY BdPromise, BlPromise DEF AdapterShared
<1> QED
  BY <1>1, <1>2, <1>3, PTL DEF BackendsSpec, AllVars

\* What the advertisements of a device said, its services and its data, is what the
\* agent on Windows lists of it, once nothing about it is on its way (WdAdvertsTold):
\* the callbacks of the worker and the signals it posts lose nothing of it, in
\* whatever order the threads of the pool come and searches follow each other.
THEOREM AdvertsAreTold ==
  ASSUME AdvertsAnswered
  PROVE  BackendsSpec => []WdAdvertsTold
<1>1. BackendsInit => WdGood(wd)
  BY WdInitGood DEF BackendsInit
<1>2. WdGood(wd) /\ [BackendsNext]_AllVars => WdGood(wd)'
  BY BackendsStep, WdNextGood
<1>3. WdGood(wd) => WdAdvertsTold
  BY WdPromise
<1> QED
  BY <1>1, <1>2, <1>3, PTL DEF BackendsSpec, AllVars

=============================================================================
