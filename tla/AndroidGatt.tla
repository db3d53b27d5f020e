------------------------------ MODULE AndroidGatt ------------------------------
(***************************************************************************)
(* QtBluetoothLE.java (src/src/android/bluetooth/.../QtBluetoothLE.java),  *)
(* a central on Android: the queue of reads and writes over BluetoothGatt, *)
(* of which one is pending, the watchdog of three seconds that gives it up *)
(* and the atomic gate that decides between the watchdog and the answer.   *)
(* The callbacks and performNextIO() run on the thread of mHandler         *)
(* (SDK 27 and later), the watchdog and the bond receiver on the main      *)
(* looper, the calls of the application on the thread of Qt.  The watchdog *)
(* is set and removed with the gate, or fires at a gate that is closed and *)
(* does nothing: the gate stands for both.                                 *)
(*                                                                         *)
(* The members are the record "gatt"; its last four fields are Android's   *)
(* own, its "toQt" is the event queue of the thread of Qt.                 *)
(***************************************************************************)
EXTENDS LowEnergyApi, SequencesExt

CONSTANTS
  AgTree,        \* the peer: <<[service |-> s, chars |-> <<[char |-> a,
                 \*   descs |-> <<b, ...>>], ...>>], ...>>
  AgRefused,     \* the <<"Read" or "Write", attribute>> Android refuses at once
  AgScenarios    \* what Android and the application may do, see below

(***************************************************************************)
(* A scenario bounds the connections and the calls, and its set "may" has: *)
(* "jobError"   a read or a write may be refused by the peer               *)
(* "silent"     an answer may come too late or never                       *)
(* "bonding"    a request may make the devices pair                        *)
(* "linkLoss"   the link may go down by itself                             *)
(* "connectFails", "discoverFails"                                         *)
(* "falseConnect" Android may report a failed attempt as a connection      *)
(* "closeEarly" disconnectFromDevice() while connecting, and "closeRace"   *)
(*              when Android has connected but Qt does not yet know it     *)
(* "zombie"     such an attempt may end after all, against the comment in  *)
(*              disconnectFromDevice()                                     *)
(* "closeBusy"  disconnectFromDevice() with calls that are not answered    *)
(* "reuse"      connectToDevice() again after a connection that ended with *)
(*              a pending job                                              *)
(***************************************************************************)
ASSUME AgAssumption ==
  \A c \in AgScenarios :
    /\ c.sessions \in 1..LeMaxSessions /\ c.calls \in 0..LeMaxCalls
    /\ c.may \subseteq
         {"jobError", "silent", "bonding", "linkLoss", "connectFails",
          "falseConnect", "discoverFails", "closeEarly", "closeRace", "zombie",
          "closeBusy", "reuse"}

\* The attributes of a service that the peer has are below it.
ASSUME AgTreeAssumption ==
  /\ AgTree \in Seq([service : LeServices,
                     chars : Seq([char : LeAttributes, descs : Seq(LeAttributes)])])
  /\ \A i \in DOMAIN AgTree, a \in LeAttributes : LeHome[a] = AgTree[i].service =>
       \E n \in DOMAIN AgTree : \E j \in DOMAIN AgTree[n].chars :
         \/ AgTree[n].chars[j].char = a
         \/ \E k \in DOMAIN AgTree[n].chars[j].descs : AgTree[n].chars[j].descs[k] = a

-----------------------------------------------------------------------------
(* Handles *)

AgEntry(type, s, a) == [type |-> type, service |-> s, attr |-> a]

\* populateHandles(): a service, and for each characteristic an entry, one for
\* its value and one per descriptor.
Entries ==
  FlattenSeq([i \in DOMAIN AgTree |->
    LET s == AgTree[i].service
    IN  <<AgEntry("Service", s, 0)>> \o
        FlattenSeq([j \in DOMAIN AgTree[i].chars |->
          LET c == AgTree[i].chars[j]
          IN  <<AgEntry("Characteristic", s, c.char), AgEntry("CharacteristicValue", s, 0)>>
              \o [k \in DOMAIN c.descs |-> AgEntry("Descriptor", s, c.descs[k])]])])

HandleOf(a) == CHOOSE h \in DOMAIN Entries : Entries[h].attr = a
ServiceHandle(s) ==
  CHOOSE h \in DOMAIN Entries : Entries[h] = AgEntry("Service", s, 0)
EndHandle(s) ==
  CHOOSE h \in DOMAIN Entries :
    /\ Entries[h].service = s
    /\ \A i \in DOMAIN Entries : Entries[i].service = s => i <= h

\* ReadWriteJob; handle 0 for the exchange of the MTU.
Job(type, handle, op) == [type |-> type, handle |-> handle, op |-> op]
NoJob == Job("none", 0, 0)

\* modifiedReadWriteHandle(): what the gate compares.
ModifiedHandle(handle, type) == [handle |-> handle, type |-> type]
HandleForReset == ModifiedHandle(0, "none")

AgInit ==
  [mBluetoothGatt |-> 0, entries |-> FALSE, valueKnown |-> {},
   servicesToBeDiscovered |-> <<>>, readWriteQueue |-> <<>>,
   pendingJob |-> NoJob, handleForTimeout |-> HandleForReset,
   handler |-> <<>>, toQt |-> <<>>,
   conns |-> [c \in 1..LeMaxSessions |-> "none"], busy |-> NoJob,
   discovering |-> FALSE, bond |-> "none"]

\* Messages of the thread of mHandler: a Runnable, or a callback of connection
\* "of".
Post(g, task) == [g EXCEPT !.handler = Append(@, task)]
Native(g, message) == [g EXCEPT !.toQt = Append(@, message)]
Io == [task |-> "io", of |-> 0]

-----------------------------------------------------------------------------
(* The queue *)

FinishCurrentServiceDiscovery(g, s) ==
  Native([g EXCEPT !.valueKnown = @ \cup {ServiceHandle(s)},
                   !.servicesToBeDiscovered = IF @ = <<>> THEN @ ELSE Tail(@)],
         [signal |-> "detailsFinished", service |-> s])

\* After the value of an entry is known: was it the last of its service?
EntryDone(g, h) ==
  LET s == Entries[h].service
  IN  IF EndHandle(s) = h THEN FinishCurrentServiceDiscovery(g, s) ELSE g

\* executeReadJob(), executeWriteJob(), executeMtuExchange(): whether Android
\* takes the request; it has one at a time.
Taken(g, job) ==
  \/ job.type = "Mtu"
  \/ /\ job.type \in {"Read", "Write"}
     /\ Entries[job.handle].type # "CharacteristicValue"
     /\ <<job.type, Entries[job.handle].attr>> \notin AgRefused
     /\ g.busy = NoJob

ReadSignal(h, op) == [signal |-> "read", handle |-> h, op |-> op]
ErrorSignal(h, op) == [signal |-> "error", handle |-> h, op |-> op]

\* performNextIO(), a job that is skipped.
SkipJob(g, job) ==
  LET h == job.handle
      known == [g EXCEPT !.valueKnown = @ \cup {h}]
  IN  IF job.type = "Mtu" THEN g
      ELSE IF h \in g.valueKnown THEN Native(g, ErrorSignal(h, job.op))
      ELSE EntryDone(IF Entries[h].type = "CharacteristicValue" THEN known
                     ELSE Native(known, ReadSignal(h, job.op)), h)

Skip(g, jobs) ==
  LET after[n \in 0..Len(jobs)] == IF n = 0 THEN g ELSE SkipJob(after[n - 1], jobs[n])
  IN  after[Len(jobs)]

StartJob_GateLate(g, job) ==
  [g EXCEPT !.pendingJob = job, !.busy = IF job.type = "Mtu" THEN @ ELSE job,
            !.handler = IF job.type = "Mtu"
                        THEN Append(@, [task |-> "mtuChanged", of |-> g.mBluetoothGatt])
                        ELSE @]
\* performNextIO(), a job that Android takes.
StartJob(g, job) ==
  LET gate == ModifiedHandle(job.handle, job.type)
  IN  [g EXCEPT !.pendingJob = job, !.handleForTimeout = gate,
                !.busy = IF job.type = "Mtu" THEN @ ELSE job,
                !.handler = IF job.type = "Mtu"
                            THEN Append(@, [task |-> "mtuChanged", of |-> g.mBluetoothGatt])
                            ELSE @]

\* performNextIO(), with its recursion after a skipped job.
PerformNextIO(g) ==
  IF g.mBluetoothGatt = 0 \/ g.readWriteQueue = <<>> \/ g.pendingJob # NoJob THEN g
  ELSE LET q == g.readWriteQueue
           first == SelectInSeq(q, LAMBDA j : Taken(g, j))
           skipped == IF first = 0 THEN q ELSE SubSeq(q, 1, first - 1)
           rest == SubSeq(q, Len(skipped) + 1, Len(q))
           done == [Skip(g, skipped) EXCEPT
                      !.handleForTimeout = HandleForReset,
                      !.readWriteQueue = IF rest = <<>> THEN rest ELSE Tail(rest)]
       IN  IF rest = <<>> THEN done ELSE StartJob(done, Head(rest))

\* performNextIOThreaded()
PerformNextIOThreaded(g) == IF g.mBluetoothGatt = 0 THEN g ELSE Post(g, Io)

\* What unlocks the queue.
Unlock(g) == PerformNextIO([g EXCEPT !.pendingJob = NoJob])

-----------------------------------------------------------------------------
(* BluetoothGattCallback, on the thread of mHandler *)

\* handleForTimeout.compareAndSet() of the answer has failed: the watchdog was
\* faster, or has been reset.
TooLate(g, answer) ==
  g.handleForTimeout # ModifiedHandle(answer.job.handle, answer.job.type)

ResetData(g) ==
  [g EXCEPT !.entries = FALSE, !.valueKnown = {}, !.servicesToBeDiscovered = <<>>,
            !.handleForTimeout = HandleForReset, !.readWriteQueue = <<>>]

\* Whatever BluetoothGatt the callback is from, mBluetoothGatt is closed; no
\* callback of that one runs any more.
OnConnectionStateChange(g, up, ok) ==
  LET signal == [signal |-> "connection", up |-> up, ok |-> ok]
      c == g.mBluetoothGatt
  IN  IF up THEN Native(g, signal)
      ELSE Native([ResetData(g) EXCEPT
                     !.mBluetoothGatt = 0, !.busy = NoJob, !.bond = "none",
                     !.discovering = FALSE,
                     !.handler = Kept(@, {i \in DOMAIN @ : @[i].of = 0 \/ @[i].of # c}),
                     !.conns = [i \in DOMAIN @ |-> IF i = c THEN "closed" ELSE @[i]]],
                  signal)

ScheduleMtuExchange(g) ==
  PerformNextIO([g EXCEPT !.readWriteQueue = Append(@, Job("Mtu", 0, 0))])
OnServicesDiscovered(g, ok) ==
  ScheduleMtuExchange(Native(g, [signal |-> "servicesDiscovered", ok |-> ok]))

\* onCharacteristicRead(), onDescriptorRead(): during a discovery a refused
\* read is reported like a value.
OnRead(g, answer) ==
  LET h == answer.job.handle
      discovery == h \notin g.valueKnown
      op == g.pendingJob.op
      known == [g EXCEPT !.handleForTimeout = HandleForReset,
                         !.valueKnown = @ \cup {h}]
      told == Native(known, IF answer.ok \/ discovery
                            THEN ReadSignal(h, op) ELSE ErrorSignal(h, op))
  IN  IF ~g.entries THEN Unlock(g)
      ELSE IF TooLate(g, answer) THEN g
      ELSE Unlock(IF discovery THEN EntryDone(told, h) ELSE told)

OnWrite_LockedAfterError(g, answer) ==
  IF ~g.entries \/ TooLate(g, answer) THEN g
  ELSE LET told == Native([g EXCEPT !.handleForTimeout = HandleForReset],
                          [signal |-> "written", handle |-> answer.job.handle,
                           op |-> g.pendingJob.op, ok |-> answer.ok])
       IN  IF answer.ok THEN Unlock(told) ELSE told
\* onCharacteristicWrite(), onDescriptorWrite(): an unknown attribute leaves
\* the queue locked.
OnWrite(g, answer) ==
  IF ~g.entries \/ TooLate(g, answer) THEN g
  ELSE Unlock(Native([g EXCEPT !.handleForTimeout = HandleForReset],
                     [signal |-> "written", handle |-> answer.job.handle,
                      op |-> g.pendingJob.op, ok |-> answer.ok]))

OnMtuChanged(g) ==
  IF g.handleForTimeout # ModifiedHandle(0, "Mtu") THEN g
  ELSE Unlock([g EXCEPT !.handleForTimeout = HandleForReset])

\* One message of the thread of mHandler.
Handle(g, m) ==
  CASE m.task = "io" -> PerformNextIO(g)
    [] m.task = "connection" -> OnConnectionStateChange(g, m.up, m.ok)
    [] m.task = "services" -> OnServicesDiscovered(g, m.ok)
    [] m.task = "mtuChanged" -> OnMtuChanged(g)
    [] m.task = "answer" ->
         IF m.job.type = "Read" THEN OnRead(g, m) ELSE OnWrite(g, m)

-----------------------------------------------------------------------------
(* The main looper *)

\* TimeoutRunnable and interruptCurrentIO(): nothing is reported.
TimeoutRunnable(g) ==
  LET t == g.handleForTimeout
      h == t.handle
      unlocked == PerformNextIOThreaded([g EXCEPT !.handleForTimeout = HandleForReset,
                                                  !.pendingJob = NoJob])
  IN  IF t.type = "Mtu" \/ ~g.entries \/ h \in g.valueKnown THEN unlocked
      ELSE EntryDone([unlocked EXCEPT !.valueKnown = @ \cup {h}], h)

\* BondStateBroadcastReceiver
NoBondJob(g) == g.mBluetoothGatt = 0 \/ g.pendingJob.type \in {"none", "Mtu"}
OnBonding(g) ==
  IF NoBondJob(g) THEN g
  ELSE [g EXCEPT !.handleForTimeout = HandleForReset]
OnBondingEnded(g) ==
  IF NoBondJob(g) THEN g
  ELSE Unlock([g EXCEPT !.readWriteQueue = <<g.pendingJob>> \o @])

-----------------------------------------------------------------------------
(* The calls, on the thread of Qt *)

\* connect(): a BluetoothGatt that is still there is neither closed nor kept.
Connect(g, c) ==
  [g EXCEPT !.mBluetoothGatt = c, !.conns[c] = "connecting", !.busy = NoJob,
            !.discovering = FALSE, !.bond = "none"]
Disconnect(g) ==
  IF g.mBluetoothGatt = 0 THEN g
  ELSE [g EXCEPT !.conns[g.mBluetoothGatt] =
          CASE @ = "up" -> "closing" [] @ = "connecting" -> "abandoned" [] OTHER -> @]

DiscoveryJobs_PastTheEnd(s, full) ==
  [i \in 1..(EndHandle(s) - ServiceHandle(s) + 1) |->
     Job(IF full THEN "Read" ELSE "SkippedRead", ServiceHandle(s) + i, 0)]
\* scheduleServiceDetailDiscovery()
DiscoveryJobs(s, full) ==
  [i \in 1..(EndHandle(s) - ServiceHandle(s)) |->
     Job(IF full THEN "Read" ELSE "SkippedRead", ServiceHandle(s) + i, 0)]
DiscoverDetails(g, s, full) ==
  LET h == ServiceHandle(s)
      found == [g EXCEPT !.entries = TRUE]
      first == [found EXCEPT !.servicesToBeDiscovered = Append(@, h)]
  IN  IF h \in g.valueKnown \/ h \in ToSet(g.servicesToBeDiscovered) THEN found
      ELSE PerformNextIOThreaded(
             IF h = EndHandle(s) THEN FinishCurrentServiceDiscovery(first, s)
             ELSE [first EXCEPT !.readWriteQueue = @ \o DiscoveryJobs(s, full)])

\* readCharacteristic(), writeCharacteristic(), readDescriptor(),
\* writeDescriptor()
Enqueue(g, job) ==
  PerformNextIOThreaded([g EXCEPT !.readWriteQueue = Append(@, job)])

=============================================================================
