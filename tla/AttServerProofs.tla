--------------------------- MODULE AttServerProofs ---------------------------
(***************************************************************************)
(* Proofs about AttServer for every value of its constants: types, the     *)
(* session that is open or idle, one indication at a time, prepared writes *)
(* that are those of the client, two copies of the values that agree, and  *)
(* the configurations of bonded clients. What the prepared writes do is    *)
(* proved by induction over the queue.                                     *)
(***************************************************************************)
EXTENDS AttServer, SequenceCounts

-----------------------------------------------------------------------------
(* The prepared writes: Executed is what its equation says *)

\* What the k-th prepared write makes of the values before it.
After(before, k) ==
  LET w == openPrepareWriteRequests[k]
      old == before.values[w.handle]
      new == SubSeq(old, 1, w.valueOffset) \o w.value
  IN IF ~before.ok THEN before
     ELSE IF w.valueOffset > Len(old) \/ Len(new) > MaximumLength(w.handle)
       THEN [before EXCEPT !.ok = FALSE]
     ELSE [values |-> [before.values EXCEPT ![w.handle] = new], ok |-> TRUE,
           written |-> before.written \cup {w.handle}]

Untouched == [values |-> localAttributes, ok |-> TRUE, written |-> {}]

\* f goes through the first n of them.
IsRun(f, n) ==
  f = [k \in 0..n |-> IF k = 0 THEN Untouched ELSE After(f[k - 1], k)]

LEMMA RunsExist ==
  ASSUME NEW n \in Nat
  PROVE  \E f : IsRun(f, n)
<1> DEFINE T == {m \in Nat : \E f : IsRun(f, m)}
<1>1. 0 \in T
  <2> DEFINE f == [k \in 0..0 |-> Untouched]
  <2>1. IsRun(f, 0)
    BY DEF IsRun
  <2> QED
    BY <2>1
<1>2. ASSUME NEW m \in Nat, m \in T
      PROVE  m + 1 \in T
  <2>1. PICK f : IsRun(f, m)
    BY <1>2
  <2> DEFINE g == [k \in 0..(m + 1) |->
                     IF k = m + 1 THEN After(f[m], m + 1) ELSE f[k]]
  <2>2. ASSUME NEW k \in 0..m PROVE g[k] = f[k]
    OBVIOUS
  <2>3. ASSUME NEW k \in 0..(m + 1)
        PROVE  g[k] = IF k = 0 THEN Untouched ELSE After(g[k - 1], k)
    <3>1. CASE k = m + 1
      <4>1. g[k] = After(f[m], m + 1) /\ g[k - 1] = f[m] /\ k # 0
        BY <2>2, <3>1
      <4> QED
        BY <3>1, <4>1
    <3>2. CASE k \in 1..m
      <4>1. g[k] = f[k] /\ k - 1 \in 0..m /\ g[k - 1] = f[k - 1]
        BY <2>2, <3>2
      <4>2. f[k] = After(f[k - 1], k)
        BY <2>1, <3>2 DEF IsRun
      <4> QED
        BY <3>2, <4>1, <4>2
    <3>3. CASE k = 0
      BY <2>1, <2>2, <3>3 DEF IsRun
    <3> QED
      BY <3>1, <3>2, <3>3
  <2>4. IsRun(g, m + 1)
    BY <2>3 DEF IsRun
  <2> QED
    BY <2>4
<1> HIDE DEF T
<1>3. Nat \subseteq T
  BY <1>1, <1>2, SetInduction
<1> QED
  BY <1>3 DEF T

LEMMA RunsAgree ==
  ASSUME NEW n \in Nat, NEW m \in Nat, NEW f, NEW g, IsRun(f, n), IsRun(g, m),
         NEW k \in Nat, k <= n, k <= m
  PROVE  f[k] = g[k]
<1> DEFINE T == {i \in Nat : i <= n /\ i <= m => f[i] = g[i]}
<1>1. 0 \in T
  BY DEF IsRun
<1>2. ASSUME NEW i \in Nat, i \in T, i + 1 <= n, i + 1 <= m
      PROVE  f[i + 1] = g[i + 1]
  <2>1. f[i] = g[i]
    BY <1>2
  <2>2. i + 1 \in 0..n /\ i + 1 \in 0..m /\ (i + 1) - 1 = i /\ i + 1 # 0
    BY <1>2
  <2>3. f[i + 1] = After(f[i], i + 1) /\ g[i + 1] = After(g[i], i + 1)
    BY <2>2 DEF IsRun
  <2> QED
    BY <2>1, <2>3
<1>3. ASSUME NEW i \in Nat, i \in T
      PROVE  i + 1 \in T
  BY <1>2, <1>3
<1> HIDE DEF T
<1>4. Nat \subseteq T
  BY <1>1, <1>3, SetInduction
<1> QED
  BY <1>4 DEF T

\* A recursive function is chosen so that it satisfies its equation; this one exists.
LEMMA ExecutedStep ==
  /\ Executed[0] = Untouched
  /\ \A k \in Nat \ {0} : Executed[k] = After(Executed[k - 1], k)
<1> DEFINE Run(n) == CHOOSE f : IsRun(f, n)
           F == [k \in Nat |-> Run(k)[k]]
<1>1. ASSUME NEW n \in Nat PROVE IsRun(Run(n), n)
  BY RunsExist
<1> HIDE DEF Run
<1>2. F[0] = Untouched
  BY <1>1 DEF IsRun
<1>3. ASSUME NEW k \in Nat \ {0}
      PROVE  F[k] = After(F[k - 1], k)
  <2>1. k - 1 \in Nat /\ k - 1 <= k /\ k \in 0..k
    OBVIOUS
  <2>2. Run(k)[k] = After(Run(k)[k - 1], k)
    BY <1>1, <2>1 DEF IsRun
  <2>3. Run(k)[k - 1] = Run(k - 1)[k - 1]
    BY <1>1, <2>1, RunsAgree
  <2> QED
    BY <2>1, <2>2, <2>3
<1> HIDE DEF F
<1>4. F = [k \in Nat |-> IF k = 0 THEN Untouched ELSE After(F[k - 1], k)]
  <2>1. F = [k \in Nat |-> F[k]]
    BY DEF F
  <2> QED
    BY <1>2, <1>3, <2>1
<1>5. Executed = [k \in Nat |-> IF k = 0 THEN Untouched
                                ELSE After(Executed[k - 1], k)]
  <2>1. \E E : E = [k \in Nat |-> IF k = 0 THEN Untouched ELSE After(E[k - 1], k)]
    BY <1>4
  <2>2. Executed = CHOOSE E :
          E = [k \in Nat |-> IF k = 0 THEN Untouched ELSE After(E[k - 1], k)]
    BY DEF Executed, After, Untouched
  <2> QED
    BY <2>1, <2>2
<1> QED
  BY <1>5

-----------------------------------------------------------------------------
(* The inductive invariant *)

DB == [Attributes -> Values]
Filled(values) == \A ch \in Chars : values[Config[ch]] # <<>>

\* No value of a configuration is empty: not one that is stored in either copy,
\* and not one that waits in the prepare queue.
Database ==
  /\ localAttributes \in {None, localServices}
  /\ localServices # None => Filled(localServices) /\ known # None
  /\ scheduledIndications # <<>> \/ openPrepareWriteRequests # <<>> =>
       localAttributes # None
Prepared(w) ==
  /\ w.handle \in Configs => w.value # <<>>
  /\ w.client = remoteDevice
PreparedFilled ==
  \A k \in DOMAIN openPrepareWriteRequests : Prepared(openPrepareWriteRequests[k])

SessionIdle ==
  /\ openPrepareWriteRequests = <<>> /\ scheduledIndications = <<>>
  /\ ~indicationInFlight
  /\ toClient = <<>> /\ ~owed
  /\ remoteDevice = NoClient

\* The controller is connected exactly while its socket is open, and nothing is
\* left of a session that is over.
Connection ==
  /\ state = "Connected" <=> socket = "open"
  /\ state = "Connected" => unwind = "none" /\ remoteDevice \in Clients
  /\ state # "Connected" => SessionIdle

SessionInv == Database /\ PreparedFilled /\ Connection /\ OneIndication
IInv == TypeOK /\ SessionInv

-----------------------------------------------------------------------------
(* Values *)

\* None is the database without attributes.
LEMMA NoneHasNoAttributes ==
  ASSUME NEW values \in DB
  PROVE  values = None <=> Attributes = {}
<1>1. DOMAIN values = Attributes /\ DOMAIN None = {}
  BY DEF DB, None
<1>2. ASSUME Attributes = {}
      PROVE  values = None
  BY <1>2 DEF DB, None
<1> QED
  BY <1>1, <1>2

LEMMA ConfigIsAttribute ==
  /\ \A ch \in Chars : Config[ch] \in Configs /\ Config[ch] \in Attributes
                         /\ ch \in Attributes /\ ch \notin Configs
  /\ \A ch \in Chars : (CHOOSE d \in Chars : Config[d] = Config[ch]) = ch
  /\ \A a \in Configs : \E ch \in Chars : a = Config[ch]
BY ConstantsAssumption DEF Configs, Attributes

LEMMA WrittenType ==
  ASSUME NEW a \in Attributes, NEW old \in Values, NEW value \in Values
  PROVE  /\ Written(a, old, value) \in Values
         /\ value # <<>> => Written(a, old, value) # <<>>
<1> DEFINE rest == SubSeq(old, Len(value) + 1, Len(old))
<1>1. Len(value) \in Nat /\ Len(old) \in Nat
  BY LenProperties DEF Values
<1>2. \A i \in (Len(value) + 1)..Len(old) : old[i] \in Bytes
  BY <1>1, ElementOfSeq DEF Values
<1>3. rest \in Values
  BY <1>1, <1>2, SubSeqProperties DEF Values
<1> HIDE DEF rest
<1>4. value \o rest \in Values /\ (value # <<>> => value \o rest # <<>>)
  BY <1>3, ConcatProperties, ConcatEqualIffEmpty DEF Values
<1> QED
  BY <1>4 DEF Written, rest

\* What one more prepared write makes of values that are sound.
Sound(e) ==
  /\ e \in [values : DB, ok : BOOLEAN, written : SUBSET Attributes]
  /\ Filled(e.values)
  /\ \A a \in Attributes \ e.written : e.values[a] = localAttributes[a]

LEMMA AfterSound ==
  ASSUME TypeOK, PreparedFilled, NEW before, Sound(before),
         NEW k \in 1..Len(openPrepareWriteRequests)
  PROVE  Sound(After(before, k))
<1> DEFINE w == openPrepareWriteRequests[k]
           old == before.values[w.handle]
           start == SubSeq(old, 1, w.valueOffset)
           new == start \o w.value
           all == [before.values EXCEPT ![w.handle] = new]
<1>1. w \in WriteRequests /\ k \in DOMAIN openPrepareWriteRequests
  BY LenProperties, ElementOfSeq DEF TypeOK
<1>2. /\ w.handle \in Attributes /\ w.value \in Values /\ w.valueOffset \in Nat
      /\ w.handle \in Configs => w.value # <<>>
  BY <1>1 DEF WriteRequests, PreparedFilled, Prepared
<1>3. before.values \in DB /\ old \in Values
  BY <1>2 DEF Sound, DB
<1>4. CASE ~before.ok
  BY <1>4 DEF After
<1>5. CASE before.ok /\ (w.valueOffset > Len(old) \/ Len(new) > MaximumLength(w.handle))
  <2>1. After(before, k) = [before EXCEPT !.ok = FALSE]
    BY <1>5 DEF After
  <2> QED
    BY <2>1 DEF Sound
<1>6. CASE before.ok /\ ~(w.valueOffset > Len(old) \/ Len(new) > MaximumLength(w.handle))
  <2>1. After(before, k) = [values |-> all, ok |-> TRUE,
                            written |-> before.written \cup {w.handle}]
    BY <1>6 DEF After
  <2>2. Len(old) \in Nat /\ w.valueOffset <= Len(old)
    BY <1>2, <1>3, <1>6, LenProperties DEF Values
  <2>3. \A i \in 1..w.valueOffset : old[i] \in Bytes
    BY <1>2, <1>3, <2>2, ElementOfSeq DEF Values
  <2>4. start \in Values
    BY <1>2, <2>3, SubSeqProperties DEF Values
  <2> HIDE DEF start
  <2>5. new \in Values /\ (w.value # <<>> => new # <<>>)
    BY <1>2, <2>4, ConcatProperties, ConcatEqualIffEmpty DEF Values
  <2> HIDE DEF new, old, w
  <2>6. all \in DB
    BY <1>3, <2>5 DEF DB
  <2>7. \A a \in Attributes : all[a] = IF a = w.handle THEN new ELSE before.values[a]
    BY <1>3 DEF DB
  <2> HIDE DEF all
  <2>8. Filled(all)
    BY <1>2, <2>5, <2>7, ConfigIsAttribute DEF Filled, Sound
  <2>9. before.written \cup {w.handle} \in SUBSET Attributes
    BY <1>2 DEF Sound
  <2> QED
    BY <2>1, <2>6, <2>7, <2>8, <2>9 DEF Sound
<1> QED
  BY <1>4, <1>5, <1>6

\* The values that an execution leaves, and what it did not write.
LEMMA ExecutedSound ==
  ASSUME TypeOK, PreparedFilled, localAttributes \in DB, Filled(localAttributes)
  PROVE  Sound(Executed[Len(openPrepareWriteRequests)])
<1> DEFINE n == Len(openPrepareWriteRequests)
           T == {k \in Nat : k <= n => Sound(Executed[k])}
<1>1. n \in Nat
  BY LenProperties DEF TypeOK
<1>2. 0 \in T
  <2>1. Sound(Untouched)
    BY DEF Sound, Untouched
  <2> QED
    BY <2>1, ExecutedStep
<1>3. ASSUME NEW k \in Nat, k \in T
      PROVE  k + 1 \in T
  <2>1. CASE k + 1 <= n
    <3>1. Sound(Executed[k]) /\ k + 1 \in 1..n
      BY <1>1, <1>3, <2>1
    <3>2. Executed[k + 1] = After(Executed[k], k + 1)
      BY ExecutedStep
    <3> QED
      BY <3>1, <3>2, AfterSound
  <2> QED
    BY <2>1
<1> HIDE DEF T
<1>4. Nat \subseteq T
  BY <1>2, <1>3, SetInduction
<1> QED
  BY <1>1, <1>4 DEF T

LEMMA FirstByte ==
  ASSUME NEW values \in DB, Filled(values), NEW ch \in Chars
  PROVE  values[Config[ch]][1] \in Bytes
<1>1. values[Config[ch]] \in Seq(Bytes) /\ values[Config[ch]] # <<>>
  BY ConfigIsAttribute DEF DB, Values, Filled
<1>2. 1 \in 1..Len(values[Config[ch]])
  BY <1>1, EmptySeq, LenProperties
<1> QED
  BY <1>1, <1>2, ElementOfSeq

LEMMA StoredType ==
  ASSUME TypeOK, NEW client \in Clients, NEW ch \in Chars
  PROVE  /\ Stored(client, ch).configValue \in Bytes
         /\ Stored(client, ch).charValueWasUpdated \in BOOLEAN
<1> DEFINE Record == [configValue : Bytes, charValueWasUpdated : BOOLEAN]
<1>1. clientConfigData[client] \in [Chars -> Record]
  BY DEF TypeOK
<1>2. clientConfigData[client][ch] \in Record
  BY <1>1
<1>3. NoConfiguration \in Record
  BY DEF NoConfiguration, Bytes
<1>4. Stored(client, ch) \in Record
  BY <1>2, <1>3 DEF Stored
<1> QED
  BY <1>4

\* Only the configurations change, each to the one that is stored.
LEMMA RestoredValues ==
  ASSUME TypeOK, NEW client \in Clients, NEW values \in DB
  PROVE  /\ Restored(client, values) \in DB
         /\ Filled(Restored(client, values))
         /\ \A ch \in Chars : Restored(client, values)[ch] = values[ch]
         /\ \A ch \in Chars : Restored(client, values)[Config[ch]][1]
                                = Stored(client, ch).configValue
<1> DEFINE owner(a) == CHOOSE ch \in Chars : Config[ch] = a
           byte(a) == Stored(client, owner(a)).configValue
<1>1. ASSUME NEW a \in Configs
      PROVE  owner(a) \in Chars /\ byte(a) \in Bytes
             /\ <<byte(a), 0>> \in Values /\ <<byte(a), 0>> # <<>>
  <2>1. owner(a) \in Chars
    BY ConfigIsAttribute
  <2>2. byte(a) \in Bytes
    BY <2>1, StoredType
  <2> QED
    BY <2>1, <2>2 DEF Values, Bytes
<1>2. \A ch \in Chars : owner(Config[ch]) = ch
  BY ConfigIsAttribute
<1> HIDE DEF owner
<1>3. Restored(client, values)
        = [a \in Attributes |-> IF a \in Configs THEN <<byte(a), 0>> ELSE values[a]]
  BY DEF Restored, DB, owner
<1> HIDE DEF byte
<1>4. Restored(client, values) \in DB
  BY <1>1, <1>3 DEF DB
<1>5. \A ch \in Chars : Restored(client, values)[ch] = values[ch]
  BY <1>3, ConfigIsAttribute
<1>6. \A ch \in Chars : Restored(client, values)[Config[ch]] = <<byte(Config[ch]), 0>>
  BY <1>3, ConfigIsAttribute
<1>7. \A ch \in Chars : byte(Config[ch]) = Stored(client, ch).configValue
  BY <1>2 DEF byte
<1>8. Filled(Restored(client, values))
  BY <1>1, <1>6, ConfigIsAttribute DEF Filled
<1>9. ASSUME NEW ch \in Chars
      PROVE  Restored(client, values)[Config[ch]][1] = Stored(client, ch).configValue
  <2>1. Restored(client, values)[Config[ch]] = <<byte(Config[ch]), 0>>
    BY <1>6
  <2>2. byte(Config[ch]) = Stored(client, ch).configValue
    BY <1>7
  <2> QED
    BY <2>1, <2>2
<1> QED
  BY <1>4, <1>5, <1>8, <1>9

LEMMA RestoredNone ==
  ASSUME NEW client
  PROVE  Restored(client, None) = None
BY DEF Restored, None

\* An iteration order of a hash lists each of its keys.
LEMMA HashOrderLists ==
  ASSUME NEW S \in SUBSET Chars, NEW f \in HashOrders(S)
  PROVE  /\ f \in Seq(S) /\ f \in Seq(Chars)
         /\ \A ch \in S : \E k \in DOMAIN f : f[k] = ch
<1> DEFINE n == Cardinality(S)
<1>1. IsFiniteSet(S) /\ n \in Nat
  BY ConstantsAssumption, FS_Subset, FS_CardinalityType
<1>2. f \in [1..n -> S] /\ \A i, j \in 1..n : f[i] = f[j] => i = j
  BY DEF HashOrders
<1>3. f \in Seq(S)
  BY <1>1, <1>2, SeqDef
<1>4. f \in Injection(1..n, S)
  BY <1>2 DEF Injection, IsInjective
<1>5. Cardinality(1..n) = n
  BY <1>1, FS_Interval
<1>6. f \in Surjection(1..n, S)
  BY <1>1, <1>4, <1>5, FS_Injection
<1> QED
  BY <1>2, <1>3, <1>6, SeqMonotonic DEF Surjection

\* The number of indications in flight is a count over the packets.
IndicationPackets == {p \in Packets : p.kind = "indication"}

LEMMA IndicationsCounted ==
  ASSUME NEW s \in Seq(Packets)
  PROVE  {k \in DOMAIN s : s[k].kind = "indication"} = Places(s, IndicationPackets)
<1>1. \A k \in DOMAIN s : s[k] \in Packets
  BY LenProperties, ElementOfSeq
<1> QED
  BY <1>1 DEF Places, IndicationPackets

LEMMA PacketType ==
  ASSUME NEW ch \in Chars, NEW value \in Values
  PROVE  /\ Packet("notification", ch, value) \in Packets \ IndicationPackets
         /\ Packet("indication", ch, value) \in IndicationPackets
         /\ IndicationPackets \subseteq Packets
         /\ \A kind : /\ Packet(kind, ch, value).char = ch
                      /\ Packet(kind, ch, value).value = value
BY DEF Packet, Packets, IndicationPackets

-----------------------------------------------------------------------------
(* The end of a session *)

LEMMA IdleInv ==
  ASSUME SessionIdle', state' # "Connected", socket' # "open",
         localAttributes' \in {None, localServices'},
         localServices' # None => Filled(localServices') /\ known' # None
  PROVE  SessionInv'
<1>1. Cardinality(Indications') = 0
  <2>1. Indications' = {}
    BY DEF SessionIdle, Indications
  <2> QED
    BY <2>1, FS_EmptySet
<1>2. OneIndication'
  BY <1>1 DEF SessionIdle, OneIndication
<1>3. Database' /\ PreparedFilled' /\ Connection'
  BY DEF Database, PreparedFilled, Connection, SessionIdle
<1> QED
  BY <1>2, <1>3 DEF SessionInv

LEMMA EndSessionType ==
  ASSUME TypeOK, EndSession
  PROVE  /\ asked' \in [Clients -> [Chars -> Bytes]]
         /\ due' \in [Clients -> SUBSET Chars]
         /\ known' = known /\ wanted' = wanted /\ writes' = writes
BY DEF TypeOK, EndSession, Bytes

LEMMA ResetType ==
  ASSUME ResetController
  PROVE  /\ advertiser' \in AdvData \cup {NoData}
         /\ localAttributes' = None
         /\ openPrepareWriteRequests' = <<>> /\ scheduledIndications' = <<>>
         /\ indicationInFlight' = FALSE
BY DEF ResetController, ResetSession

LEMMA StoreType ==
  ASSUME TypeOK, Database, NEW services \in {None, localServices},
         StoreClientConfigurations(services)
  PROVE  clientConfigData' \in
           [Clients -> [Chars -> [configValue : Bytes, charValueWasUpdated : BOOLEAN]]]
<1>1. services # None => services \in DB /\ Filled(services)
  BY DEF TypeOK, Database, DB
<1>2. ASSUME NEW ch \in Chars, services # None
      PROVE  Configuration(services[Config[ch]][1]) \in
               [configValue : Bytes, charValueWasUpdated : BOOLEAN]
  BY <1>1, <1>2, FirstByte DEF Configuration
<1>3. NoConfiguration \in [configValue : Bytes, charValueWasUpdated : BOOLEAN]
  BY DEF NoConfiguration, Bytes
<1> DEFINE new == [ch \in Chars |->
                    IF remoteDevice \in Bonded /\ services # None
                      THEN Configuration(services[Config[ch]][1])
                      ELSE NoConfiguration]
<1>4. new \in [Chars -> [configValue : Bytes, charValueWasUpdated : BOOLEAN]]
  BY <1>2, <1>3
<1>5. clientConfigData' = IF remoteDevice = NoClient THEN clientConfigData
                          ELSE [clientConfigData EXCEPT ![remoteDevice] = new]
  BY DEF StoreClientConfigurations
<1> HIDE DEF new
<1> QED
  BY <1>4, <1>5 DEF TypeOK

LEMMA SessionEnds ==
  ASSUME IInv, NEW services \in {None, localServices}, L2cpDisconnected(services),
         socket' \in {"none", "dead", "closed"},
         unwind' \in {"none", "disconnected", "reset"}, listening' \in BOOLEAN
  PROVE  IInv'
<1>1. TypeOK'
  <2>1. /\ clientConfigData' \in
             [Clients -> [Chars -> [configValue : Bytes, charValueWasUpdated : BOOLEAN]]]
        /\ asked' \in [Clients -> [Chars -> Bytes]] /\ due' \in [Clients -> SUBSET Chars]
        /\ known' = known /\ wanted' = wanted /\ writes' = writes
    BY StoreType, EndSessionType DEF IInv, SessionInv, L2cpDisconnected
  <2>2. /\ advertiser' \in AdvData \cup {NoData}
        /\ openPrepareWriteRequests' = <<>> /\ scheduledIndications' = <<>>
        /\ indicationInFlight' = FALSE /\ localAttributes' = None
    BY ResetType DEF L2cpDisconnected
  <2> QED
    BY <2>1, <2>2, EmptySeq
    DEF IInv, TypeOK, L2cpDisconnected, InvalidateServices, CloseChannel
<1>2. SessionInv'
  <2>1. SessionIdle' /\ state' # "Connected" /\ socket' # "open"
        /\ localAttributes' = None /\ localServices' = None
    BY ResetType DEF L2cpDisconnected, CloseChannel, SessionIdle, InvalidateServices
  <2> QED
    BY <2>1, IdleInv
<1> QED
  BY <1>1, <1>2 DEF IInv

LEMMA ErrorEnds ==
  ASSUME IInv, L2cpErrorChanged, socket' \in {"dead", "closed"},
         unwind' \in {"none", "disconnected", "reset"}
  PROVE  IInv'
<1>1. TypeOK'
  BY EndSessionType, ResetType, EmptySeq
  DEF IInv, TypeOK, L2cpErrorChanged, InvalidateServices, CloseChannel
<1>2. SessionInv'
  <2>1. SessionIdle' /\ state' # "Connected" /\ socket' # "open"
        /\ localAttributes' = None /\ localServices' = None
    BY ResetType DEF L2cpErrorChanged, CloseChannel, SessionIdle, InvalidateServices
  <2> QED
    BY <2>1, IdleInv
<1> QED
  BY <1>1, <1>2 DEF IInv

-----------------------------------------------------------------------------
(* The invariant is kept: services, advertising, connections *)

LEMMA AddServiceKeeps ==
  ASSUME IInv, AddService
  PROVE  IInv'
<1>1. localServices' \in DB /\ Filled(localServices')
  <2>1. DefaultConfig \in Values /\ DefaultConfig # <<>>
    BY DEF DefaultConfig, Values, Bytes
  <2>2. \A ch \in Chars : Initial[ch] \in Values
    BY ConstantsAssumption
  <2> QED
    BY <2>1, <2>2, ConfigIsAttribute DEF AddService, DB, Filled
<1>2. TypeOK'
  BY <1>1 DEF IInv, TypeOK, AddService, DB, session, channel
<1>3. SessionInv'
  <2>1. SessionIdle' /\ state' # "Connected" /\ socket' # "open"
        /\ localAttributes' = localServices' /\ known' = localServices'
    BY DEF IInv, SessionInv, Connection, SessionIdle, AddService, session, channel
  <2> QED
    BY <1>1, <2>1, IdleInv
<1> QED
  BY <1>2, <1>3 DEF IInv

LEMMA StartAdvertisingKeeps ==
  ASSUME IInv, NEW data \in AdvData, NEW connectable \in BOOLEAN,
         StartAdvertising(data, connectable)
  PROVE  IInv'
<1>1. TypeOK'
  BY DEF IInv, TypeOK, StartAdvertising, database, session, channel
<1>2. SessionIdle' /\ state' # "Connected" /\ socket' # "open"
  BY DEF IInv, SessionInv, Connection, SessionIdle, StartAdvertising, session, channel
<1>3. SessionInv'
  BY <1>2, IdleInv DEF IInv, SessionInv, Database, StartAdvertising, database, Filled
<1> QED
  BY <1>1, <1>3 DEF IInv

LEMMA StopAdvertisingKeeps ==
  ASSUME IInv, StopAdvertising
  PROVE  IInv'
<1>1. TypeOK'
  BY DEF IInv, TypeOK, StopAdvertising, database, session, channel, observer
<1>2. SessionIdle' /\ state' # "Connected" /\ socket' # "open"
  BY DEF IInv, SessionInv, Connection, SessionIdle, StopAdvertising, session, channel
<1>3. SessionInv'
  BY <1>2, IdleInv DEF IInv, SessionInv, Database, StopAdvertising, database,
                       observer, Filled
<1> QED
  BY <1>1, <1>3 DEF IInv

\* What a client that connects is sent: notifications, then one indication if any
\* waits, the others behind it.
LEMMA MissedUpdatesSent ==
  ASSUME IInv, NEW client \in Clients, scheduledIndications = <<>>,
         ~indicationInFlight, owed' = FALSE,
         DOMAIN localServices \subseteq DOMAIN localAttributes,
         SendMissedUpdates(client)
  PROVE  /\ toClient' \in Seq(Packets) /\ scheduledIndications' \in Seq(Chars)
         /\ indicationInFlight' \in BOOLEAN
         /\ OneIndication'
         /\ scheduledIndications' # <<>> => localAttributes # None
<1> DEFINE missed == {ch \in Chars \cap DOMAIN localServices :
                        Stored(client, ch).charValueWasUpdated}
           notify == {ch \in missed : Notifies(Stored(client, ch).configValue)}
<1>1. PICK n \in HashOrders(notify), i \in HashOrders(missed \ notify) :
        LET waiting == scheduledIndications \o i
            told == [k \in DOMAIN n |->
                       Packet("notification", n[k], localAttributes[n[k]])]
        IN IF waiting = <<>>
             THEN toClient' = told
                  /\ UNCHANGED <<scheduledIndications, indicationInFlight>>
             ELSE /\ toClient' = Append(told, Packet("indication", Head(waiting),
                                                    localAttributes[Head(waiting)]))
                  /\ scheduledIndications' = Tail(waiting)
                  /\ indicationInFlight' = TRUE
  BY DEF SendMissedUpdates
<1> DEFINE told == [k \in DOMAIN n |->
                      Packet("notification", n[k], localAttributes[n[k]])]
<1>2. /\ n \in Seq(notify) /\ n \in Seq(Chars)
      /\ i \in Seq(missed \ notify) /\ i \in Seq(Chars)
  BY HashOrderLists
<1>3. ASSUME NEW ch \in missed
      PROVE  localAttributes # None /\ localAttributes[ch] \in Values /\ ch \in Chars
  <2>1. ch \in DOMAIN localAttributes /\ ch \in Chars
    BY <1>3
  <2>2. localAttributes # None
    BY <2>1 DEF None
  <2> QED
    BY <2>1, <2>2 DEF IInv, TypeOK
<1>4. DOMAIN n = 1..Len(n) /\ Len(n) \in Nat /\ \A k \in DOMAIN n : n[k] \in missed
  BY <1>2, LenProperties, ElementOfSeq
<1>5. \A k \in 1..Len(n) : told[k] \in Packets \ IndicationPackets
  BY <1>3, <1>4, PacketType
<1>6. told \in Seq(Packets) /\ Len(told) = Len(n)
  <2>1. told \in [1..Len(n) -> Packets]
    BY <1>4, <1>5
  <2>2. told \in Seq(Packets)
    BY <1>4, <2>1, SeqDef
  <2>3. DOMAIN told = 1..Len(n) /\ DOMAIN told = 1..Len(told) /\ Len(told) \in Nat
    BY <1>4, <2>2, LenProperties
  <2> QED
    BY <1>4, <2>2, <2>3
<1> HIDE DEF told, missed
<1>7. Count(told, IndicationPackets) = 0
  BY <1>5, <1>6, CountNone
<1>8. scheduledIndications \o i = i
  BY <1>2, ConcatEmptySeq
<1>9. CASE i = <<>>
  <2>1. toClient' = told /\ scheduledIndications' = <<>> /\ ~indicationInFlight'
    BY <1>1, <1>8, <1>9 DEF told
  <2>2. Cardinality(Indications') = 0
    BY <1>6, <1>7, <2>1, IndicationsCounted DEF Indications, Count
  <2>3. OneIndication'
    BY <2>1, <2>2 DEF OneIndication
  <2> QED
    BY <1>1, <1>6, <1>8, <1>9, <2>1, <2>3, EmptySeq DEF IInv, TypeOK
<1>10. CASE i # <<>>
  <2> DEFINE p == Packet("indication", Head(i), localAttributes[Head(i)])
  <2>1. toClient' = Append(told, p) /\ scheduledIndications' = Tail(i)
        /\ indicationInFlight' = TRUE
    BY <1>1, <1>8, <1>10 DEF told
  <2>2. Head(i) \in missed /\ Tail(i) \in Seq(Chars)
    BY <1>2, <1>10, HeadTailProperties
  <2>3. p \in Packets /\ p \in IndicationPackets
    BY <1>3, <2>2, PacketType
  <2> HIDE DEF p
  <2>4. toClient' \in Seq(Packets)
    BY <1>6, <2>1, <2>3, AppendProperties
  <2>5. Count(toClient', IndicationPackets) = 1
    BY <1>6, <1>7, <2>1, <2>3, CountAppend
  <2>6. Cardinality(Indications') = 1
    BY <2>4, <2>5, IndicationsCounted DEF Indications, Count
  <2>7. OneIndication'
    BY <2>1, <2>6 DEF OneIndication
  <2> QED
    BY <1>3, <2>1, <2>2, <2>4, <2>7
<1> QED
  BY <1>9, <1>10

LEMMA ConnectionRequestKeeps ==
  ASSUME IInv, NEW client \in Clients, ConnectionRequest(client)
  PROVE  IInv'
<1>1. /\ scheduledIndications = <<>> /\ ~indicationInFlight
      /\ openPrepareWriteRequests = <<>>
  BY DEF IInv, SessionInv, Connection, SessionIdle, ConnectionRequest
<1>2. /\ toClient' \in Seq(Packets) /\ scheduledIndications' \in Seq(Chars)
      /\ indicationInFlight' \in BOOLEAN
      /\ OneIndication'
      /\ scheduledIndications' # <<>> => localAttributes # None
  BY <1>1, MissedUpdatesSent DEF ConnectionRequest
<1>3. /\ localServices' = Restored(client, localServices)
      /\ localAttributes' = Restored(client, localAttributes)
  BY DEF ConnectionRequest, RestoreClientConfigurations
<1>4. /\ localServices = None => localServices' = None
      /\ localServices # None => /\ localServices' \in DB /\ Filled(localServices')
                                 /\ localServices' # None
  <2>1. CASE localServices = None
    BY <1>3, <2>1, RestoredNone
  <2>2. CASE localServices # None
    <3>1. localServices \in DB /\ TypeOK
      BY <2>2 DEF IInv, TypeOK, DB
    <3>2. localServices' \in DB /\ Filled(localServices')
      BY <1>3, <3>1, RestoredValues
    <3> QED
      BY <2>2, <3>1, <3>2, NoneHasNoAttributes
  <2> QED
    BY <2>1, <2>2
<1>5. /\ localAttributes' \in {None, localServices'}
      /\ localAttributes # None => localAttributes' # None
  <2>1. localAttributes \in {None, localServices}
    BY DEF IInv, SessionInv, Database
  <2> QED
    BY <1>3, <1>4, <2>1, RestoredNone
<1>6. /\ asked' \in [Clients -> [Chars -> Bytes]]
      /\ due' \in [Clients -> SUBSET Chars]
      /\ known' \in DB \cup {None} /\ (localServices' # None => known' # None)
      /\ wanted' = wanted /\ writes' = writes
  <2>1. asked \in [Clients -> [Chars -> Bytes]] /\ due \in [Clients -> SUBSET Chars]
        /\ known \in DB \cup {None}
    BY DEF IInv, TypeOK, DB
  <2>2. CASE localServices = None
    <3>1. [ch \in Chars |-> 0] \in [Chars -> Bytes]
      BY DEF Bytes
    <3> QED
      BY <1>4, <2>1, <2>2, <3>1 DEF ConnectionRequest, Forget
  <2>3. CASE localServices # None
    BY <1>4, <2>1, <2>3 DEF ConnectionRequest
  <2> QED
    BY <2>2, <2>3
<1>7. /\ state' = "Connected" /\ socket' = "open" /\ unwind' = "none"
      /\ remoteDevice' = client /\ owed' = FALSE /\ listening' = FALSE
      /\ openPrepareWriteRequests' = <<>> /\ advertiser' = advertiser
      /\ clientConfigData' = clientConfigData
  BY <1>1 DEF ConnectionRequest
<1>8. TypeOK'
  BY <1>2, <1>4, <1>5, <1>6, <1>7, EmptySeq DEF IInv, TypeOK, DB
<1>9. Database' /\ PreparedFilled' /\ Connection'
  BY <1>2, <1>4, <1>5, <1>6, <1>7 DEF Database, PreparedFilled, Connection
<1> QED
  BY <1>2, <1>8, <1>9 DEF IInv, SessionInv

LEMMA DisconnectFromDeviceKeeps ==
  ASSUME IInv, DisconnectFromDevice
  PROVE  IInv'
<1>1. listening' \in BOOLEAN /\ listening' = listening
  BY DEF IInv, TypeOK, DisconnectFromDevice
<1>2. CASE L2cpDisconnected(None) /\ socket' = "closed" /\ unwind' = "reset"
  BY <1>1, <1>2, SessionEnds
<1>3. CASE L2cpDisconnected(None) /\ socket' = "none" /\ unwind' = "none"
  BY <1>1, <1>3, SessionEnds
<1>4. CASE /\ socket = "closed" /\ InvalidateServices /\ ResetController
           /\ state' = "Closing"
           /\ UNCHANGED <<socket, unwind, clientConfigData, remoteDevice, channel,
                          observer>>
  <2>1. TypeOK'
    BY <1>1, <1>4, ResetType, EmptySeq
    DEF IInv, TypeOK, InvalidateServices, channel, observer
  <2>2. SessionIdle' /\ state' # "Connected" /\ socket' # "open"
        /\ localAttributes' = None /\ localServices' = None
    BY <1>4, ResetType
    DEF IInv, SessionInv, Connection, SessionIdle, InvalidateServices, channel
  <2> QED
    BY <2>1, <2>2, IdleInv DEF IInv
<1> QED
  BY <1>2, <1>3, <1>4 DEF DisconnectFromDevice

LEMMA UnexpectedPacketKeeps ==
  ASSUME IInv, UnexpectedPacket
  PROVE  IInv'
BY SessionEnds DEF UnexpectedPacket, IInv, TypeOK

LEMMA NetworkErrorKeeps ==
  ASSUME IInv, NetworkError
  PROVE  IInv'
BY ErrorEnds DEF NetworkError

LEMMA RemoteHostClosedKeeps ==
  ASSUME IInv, RemoteHostClosed
  PROVE  IInv'
BY ErrorEnds DEF RemoteHostClosed

LEMMA UnwindKeeps ==
  ASSUME IInv, Unwind
  PROVE  IInv'
<1>1. state # "Connected" /\ SessionIdle /\ socket # "open" /\ TypeOK
  BY DEF IInv, SessionInv, Connection, Unwind
<1>2. CASE /\ L2cpDisconnected(localServices) /\ unwind' = "none"
           /\ UNCHANGED <<socket, listening>>
  BY <1>1, <1>2, SessionEnds DEF TypeOK
<1>3. CASE /\ ResetController /\ unwind' = "none"
           /\ UNCHANGED <<state, socket, listening, localServices, clientConfigData,
                          remoteDevice, channel, observer>>
  <2>1. TypeOK'
    BY <1>1, <1>3, ResetType, EmptySeq DEF TypeOK, channel, observer
  <2>2. SessionIdle' /\ state' # "Connected" /\ socket' # "open"
        /\ localAttributes' = None
    BY <1>1, <1>3, ResetType DEF SessionIdle, channel
  <2>3. localServices' # None => Filled(localServices') /\ known' # None
    BY <1>3 DEF IInv, SessionInv, Database, observer, Filled
  <2> QED
    BY <2>1, <2>2, <2>3, IdleInv DEF IInv
<1> QED
  BY <1>2, <1>3 DEF Unwind

-----------------------------------------------------------------------------
(* The invariant is kept: indications *)

LEMMA OneIndicationCounts ==
  ASSUME TypeOK, OneIndication
  PROVE  /\ Count(toClient, IndicationPackets) \in Nat
         /\ Count(toClient, IndicationPackets) + (IF owed THEN 1 ELSE 0) =
              (IF indicationInFlight THEN 1 ELSE 0)
         /\ scheduledIndications # <<>> => indicationInFlight
<1>1. toClient \in Seq(Packets)
  BY DEF TypeOK
<1>2. Cardinality(Indications) = Count(toClient, IndicationPackets)
  BY <1>1, IndicationsCounted DEF Indications, Count
<1> QED
  BY <1>1, <1>2, CountType DEF OneIndication

LEMMA CountsOneIndication ==
  ASSUME toClient' \in Seq(Packets),
         Count(toClient', IndicationPackets) + (IF owed' THEN 1 ELSE 0) =
           (IF indicationInFlight' THEN 1 ELSE 0),
         scheduledIndications' # <<>> => indicationInFlight'
  PROVE  OneIndication'
<1>1. Cardinality(Indications') = Count(toClient', IndicationPackets)
  BY IndicationsCounted DEF Indications, Count
<1> QED
  BY <1>1 DEF OneIndication

\* A packet that is sent, or an indication that is sent or waits.
LEMMA PacketSent ==
  ASSUME TypeOK, OneIndication, NEW ch \in Chars, NEW value \in Values,
         owed' = owed,
         \/ /\ toClient' = Append(toClient, Packet("notification", ch, value))
            /\ UNCHANGED <<scheduledIndications, indicationInFlight>>
         \/ SendOrScheduleIndication(ch, value)
         \/ UNCHANGED <<scheduledIndications, indicationInFlight, toClient>>
  PROVE  /\ toClient' \in Seq(Packets) /\ scheduledIndications' \in Seq(Chars)
         /\ indicationInFlight' \in BOOLEAN
         /\ OneIndication'
<1> DEFINE note == Packet("notification", ch, value)
           ind == Packet("indication", ch, value)
<1>1. /\ note \in Packets /\ note \notin IndicationPackets
      /\ ind \in Packets /\ ind \in IndicationPackets
  BY PacketType
<1>2. /\ toClient \in Seq(Packets) /\ scheduledIndications \in Seq(Chars)
      /\ indicationInFlight \in BOOLEAN /\ owed \in BOOLEAN
  BY DEF TypeOK
<1>3. CASE /\ toClient' = Append(toClient, note)
           /\ UNCHANGED <<scheduledIndications, indicationInFlight>>
  <2> HIDE DEF note
  <2>1. toClient' \in Seq(Packets)
    BY <1>1, <1>2, <1>3, AppendProperties
  <2>2. Count(toClient', IndicationPackets) = Count(toClient, IndicationPackets)
    BY <1>1, <1>2, <1>3, CountAppend, CountType
  <2> QED
    BY <1>2, <1>3, <2>1, <2>2, OneIndicationCounts, CountsOneIndication
<1>4. CASE /\ indicationInFlight
           /\ scheduledIndications' = Append(scheduledIndications, ch)
           /\ UNCHANGED <<indicationInFlight, toClient>>
  <2>1. scheduledIndications' \in Seq(Chars)
    BY <1>2, <1>4, AppendProperties
  <2> QED
    BY <1>2, <1>4, <2>1, OneIndicationCounts, CountsOneIndication
<1>5. CASE /\ ~indicationInFlight
           /\ toClient' = Append(toClient, ind)
           /\ indicationInFlight' = TRUE
           /\ UNCHANGED scheduledIndications
  <2> HIDE DEF ind
  <2>1. toClient' \in Seq(Packets)
    BY <1>1, <1>2, <1>5, AppendProperties
  <2>2. Count(toClient', IndicationPackets) = Count(toClient, IndicationPackets) + 1
    BY <1>1, <1>2, <1>5, CountAppend
  <2> QED
    BY <1>2, <1>5, <2>1, <2>2, OneIndicationCounts, CountsOneIndication
<1>6. CASE UNCHANGED <<scheduledIndications, indicationInFlight, toClient>>
  BY <1>2, <1>6, OneIndicationCounts, CountsOneIndication
<1> QED
  BY <1>3, <1>4, <1>5, <1>6 DEF SendOrScheduleIndication

LEMMA WriteCharacteristicKeeps ==
  ASSUME IInv, NEW ch \in Chars, NEW value \in AppValues,
         WriteCharacteristic(ch, value)
  PROVE  IInv'
<1>1. TypeOK /\ Database /\ PreparedFilled /\ Connection /\ OneIndication
  BY DEF IInv, SessionInv
<1>2. value \in Values /\ ch \in Attributes /\ ch \notin Configs
  BY ConstantsAssumption, ConfigIsAttribute
<1>3. /\ localServices \in DB /\ localServices # None
      /\ localAttributes = localServices /\ known \in DB
  <2>1. ch \in DOMAIN localAttributes /\ localServices # None
    BY DEF WriteCharacteristic
  <2>2. localAttributes # None
    BY <2>1 DEF None
  <2> QED
    BY <1>1, <2>1, <2>2 DEF TypeOK, DB, Database
<1>4. /\ localServices' = [localServices EXCEPT ![ch] = value]
      /\ localAttributes' = localServices'
      /\ known' = [known EXCEPT ![ch] = value]
  BY <1>3 DEF WriteCharacteristic
<1>5. /\ localServices' \in DB /\ localServices' # None
      /\ known' \in DB /\ known' # None
      /\ Filled(localServices')
  <2>1. localServices' \in DB /\ known' \in DB
    BY <1>2, <1>3, <1>4 DEF DB
  <2>2. Filled(localServices)
    BY <1>1, <1>3 DEF Database
  <2>3. Filled(localServices')
    BY <1>2, <1>3, <1>4, <2>2, ConfigIsAttribute DEF Filled, DB
  <2> QED
    BY <1>2, <2>1, <2>3, NoneHasNoAttributes
<1>6. /\ owed' = owed
      /\ \/ /\ toClient' = Append(toClient, Packet("notification", ch, value))
            /\ UNCHANGED <<scheduledIndications, indicationInFlight>>
            /\ state = "Connected"
         \/ SendOrScheduleIndication(ch, value) /\ state = "Connected"
         \/ UNCHANGED <<scheduledIndications, indicationInFlight, toClient>>
  BY DEF WriteCharacteristic
<1>7. /\ toClient' \in Seq(Packets) /\ scheduledIndications' \in Seq(Chars)
      /\ indicationInFlight' \in BOOLEAN
      /\ OneIndication'
  BY <1>1, <1>2, <1>6, PacketSent
<1>8. clientConfigData' \in
        [Clients -> [Chars -> [configValue : Bytes, charValueWasUpdated : BOOLEAN]]]
  <2> DEFINE Record == [configValue : Bytes, charValueWasUpdated : BOOLEAN]
             marked(c) == [clientConfigData[c] EXCEPT ![ch].charValueWasUpdated = TRUE]
  <2>1. clientConfigData \in [Clients -> [Chars -> Record]]
    BY <1>1 DEF TypeOK
  <2>2. ASSUME NEW c \in Clients
        PROVE  marked(c) \in [Chars -> Record]
    <3>1. clientConfigData[c] \in [Chars -> Record] /\ clientConfigData[c][ch] \in Record
      BY <2>1
    <3>2. [clientConfigData[c][ch] EXCEPT !.charValueWasUpdated = TRUE] \in Record
      BY <3>1
    <3> HIDE DEF Record
    <3> QED
      BY <3>1, <3>2
  <2>3. MarkMissed(ch)
    BY DEF WriteCharacteristic
  <2> HIDE DEF Record
  <2> QED
    BY <2>1, <2>2, <2>3 DEF MarkMissed, Record
<1>9. due' \in [Clients -> SUBSET Chars]
  <2>1. due \in [Clients -> SUBSET Chars]
    BY <1>1 DEF TypeOK
  <2> QED
    BY <2>1 DEF WriteCharacteristic
<1>10. /\ writes' \in 0..MaxWrites
       /\ UNCHANGED <<state, socket, listening, advertiser, unwind,
                      openPrepareWriteRequests, remoteDevice, owed, asked, wanted>>
  BY <1>1, ConstantsAssumption DEF WriteCharacteristic, TypeOK
<1>11. TypeOK'
  BY <1>1, <1>4, <1>5, <1>7, <1>8, <1>9, <1>10 DEF TypeOK, DB
<1>12. Database' /\ PreparedFilled'
  BY <1>1, <1>4, <1>5, <1>10 DEF Database, PreparedFilled, Prepared
<1>13. Connection'
  <2>1. CASE state = "Connected"
    BY <1>1, <1>10, <2>1 DEF Connection
  <2>2. CASE state # "Connected"
    BY <1>1, <1>6, <1>10, <2>2 DEF Connection, SessionIdle
  <2> QED
    BY <2>1, <2>2
<1> QED
  BY <1>7, <1>11, <1>12, <1>13 DEF IInv, SessionInv

-----------------------------------------------------------------------------
(* The invariant is kept: the client *)

LEMMA ReceivingIsConnected ==
  ASSUME IInv, Receiving
  PROVE  state = "Connected" /\ remoteDevice \in Clients /\ unwind = "none"
BY DEF IInv, SessionInv, Connection, Receiving

LEMMA ClientReceivesKeeps ==
  ASSUME IInv, ClientReceives
  PROVE  IInv'
<1> DEFINE p == Head(toClient)
<1>1. TypeOK /\ Database /\ PreparedFilled /\ Connection /\ OneIndication
  BY DEF IInv, SessionInv
<1>2. state = "Connected" /\ remoteDevice \in Clients
  BY ReceivingIsConnected DEF ClientReceives
<1>3. /\ toClient \in Seq(Packets) /\ toClient # <<>> /\ toClient' = Tail(toClient)
      /\ owed' = (owed \/ p.kind = "indication") /\ owed \in BOOLEAN
      /\ UNCHANGED <<state, socket, listening, advertiser, unwind, database, session,
                     clientConfigData, remoteDevice, asked, known, wanted, writes>>
  BY <1>1 DEF ClientReceives, TypeOK
<1>4. p \in Packets /\ Tail(toClient) \in Seq(Packets)
  BY <1>3, HeadTailProperties
<1>5. p \in IndicationPackets <=> p.kind = "indication"
  BY <1>4 DEF IndicationPackets
<1>6. Count(toClient, IndicationPackets)
        = Count(toClient', IndicationPackets) + (IF p \in IndicationPackets THEN 1 ELSE 0)
  BY <1>3, CountTail
<1>7. due' \in [Clients -> SUBSET Chars]
  <2>1. due \in [Clients -> SUBSET Chars]
    BY <1>1 DEF TypeOK
  <2> QED
    BY <2>1 DEF ClientReceives
<1> HIDE DEF p
<1>8. OneIndication'
  <2>1. Count(toClient', IndicationPackets) \in Nat
    BY <1>3, <1>4, CountType
  <2>2. UNCHANGED <<scheduledIndications, indicationInFlight>>
    BY <1>3 DEF session
  <2>3. /\ Count(toClient, IndicationPackets) + (IF owed THEN 1 ELSE 0) =
              (IF indicationInFlight THEN 1 ELSE 0)
        /\ scheduledIndications # <<>> => indicationInFlight
    BY <1>1, OneIndicationCounts
  <2>4. owed' <=> owed \/ p \in IndicationPackets
    BY <1>3, <1>5
  <2>5. Count(toClient', IndicationPackets) + (IF owed' THEN 1 ELSE 0) =
          (IF indicationInFlight THEN 1 ELSE 0)
    BY <1>6, <2>1, <2>3, <2>4
  <2>6. toClient' \in Seq(Packets)
    BY <1>3, <1>4
  <2> QED
    BY <2>2, <2>3, <2>5, <2>6, CountsOneIndication
<1>9. TypeOK'
  BY <1>1, <1>3, <1>4, <1>7 DEF TypeOK, database, session
<1>10. Database' /\ PreparedFilled' /\ Connection'
  BY <1>1, <1>2, <1>3
  DEF Database, PreparedFilled, Prepared, Connection, database, session, Filled
<1> QED
  BY <1>8, <1>9, <1>10 DEF IInv, SessionInv

LEMMA ConfirmationKeeps ==
  ASSUME IInv, Confirmation
  PROVE  IInv'
<1>1. TypeOK /\ Database /\ PreparedFilled /\ Connection /\ OneIndication
  BY DEF IInv, SessionInv
<1>2. state = "Connected" /\ remoteDevice \in Clients
  BY ReceivingIsConnected DEF Confirmation
<1>3. /\ owed /\ owed' = FALSE
      /\ UNCHANGED <<state, socket, listening, advertiser, unwind, database,
                     openPrepareWriteRequests, clientConfigData, remoteDevice,
                     observer>>
  BY DEF Confirmation
<1>4. /\ toClient \in Seq(Packets) /\ scheduledIndications \in Seq(Chars)
      /\ indicationInFlight \in BOOLEAN
  BY <1>1 DEF TypeOK
<1>5. indicationInFlight /\ Count(toClient, IndicationPackets) = 0
  BY <1>1, <1>3, OneIndicationCounts
<1>6. SendNextIndication
  BY <1>5 DEF Confirmation
<1>7. /\ toClient' \in Seq(Packets) /\ scheduledIndications' \in Seq(Chars)
      /\ indicationInFlight' \in BOOLEAN
      /\ OneIndication'
      /\ scheduledIndications' # <<>> => scheduledIndications # <<>>
  <2>1. CASE scheduledIndications = <<>>
    <3>1. /\ indicationInFlight' = FALSE
          /\ UNCHANGED <<scheduledIndications, toClient>>
      BY <1>6, <2>1 DEF SendNextIndication
    <3>2. ~owed' /\ ~indicationInFlight' /\ scheduledIndications' = <<>>
      BY <1>3, <2>1, <3>1
    <3>3. toClient' \in Seq(Packets) /\ Count(toClient', IndicationPackets) = 0
      BY <1>4, <1>5, <3>1
    <3>4. OneIndication'
      BY <3>2, <3>3, CountsOneIndication
    <3>5. scheduledIndications' \in Seq(Chars) /\ indicationInFlight' \in BOOLEAN
      BY <1>4, <3>1
    <3> QED
      BY <3>2, <3>3, <3>4, <3>5
  <2>2. CASE scheduledIndications # <<>>
    <3> DEFINE ch == Head(scheduledIndications)
               p == Packet("indication", ch, localAttributes[ch])
    <3>1. /\ indicationInFlight' = TRUE
          /\ scheduledIndications' = Tail(scheduledIndications)
          /\ toClient' = Append(toClient, p)
      BY <1>6, <2>2 DEF SendNextIndication
    <3>2. ch \in Chars /\ Tail(scheduledIndications) \in Seq(Chars)
      BY <1>4, <2>2, HeadTailProperties
    <3>3. localAttributes[ch] \in Values
      BY <1>1, <2>2, <3>2, ConfigIsAttribute DEF Database, TypeOK
    <3> HIDE DEF ch
    <3>4. p \in Packets /\ p \in IndicationPackets
      BY <3>2, <3>3, PacketType
    <3> HIDE DEF p
    <3>5. toClient' \in Seq(Packets)
      BY <1>4, <3>1, <3>4, AppendProperties
    <3>6. Count(toClient', IndicationPackets) = 1
      BY <1>4, <1>5, <3>1, <3>4, CountAppend
    <3> QED
      BY <1>3, <2>2, <3>1, <3>2, <3>5, <3>6, CountsOneIndication
  <2> QED
    BY <2>1, <2>2
<1>8. TypeOK'
  <2>1. owed' \in BOOLEAN
    BY <1>3
  <2> QED
    BY <1>1, <1>3, <1>7, <2>1 DEF TypeOK, database, observer
<1>9. Database' /\ PreparedFilled' /\ Connection'
  BY <1>1, <1>2, <1>3, <1>7
  DEF Database, PreparedFilled, Prepared, Connection, database, observer, Filled
<1> QED
  BY <1>7, <1>8, <1>9 DEF IInv, SessionInv

\* Both copies take the values that are written, and the client knows of them.
LEMMA AttributesWritten ==
  ASSUME IInv, state = "Connected", localServices # None,
         localAttributes = localServices,
         NEW attributes \in SUBSET Attributes, NEW values \in DB, Filled(values),
         \A a \in Attributes \ attributes : values[a] = localAttributes[a],
         UpdateLocalAttributeValues(attributes, values),
         ClientWrote(attributes, values)
  PROVE  /\ localServices' = values /\ localAttributes' = values
         /\ values # None
         /\ asked' \in [Clients -> [Chars -> Bytes]]
         /\ due' \in [Clients -> SUBSET Chars]
         /\ UNCHANGED <<wanted, writes>>
<1>1. localServices \in DB /\ TypeOK /\ remoteDevice \in Clients
  BY DEF IInv, SessionInv, TypeOK, DB, Connection
<1>2. localServices' = values
  <2>1. localServices' = [a \in Attributes |->
                            IF a \in attributes THEN values[a] ELSE localServices[a]]
    BY <1>1 DEF UpdateLocalAttributeValues, DB
  <2> QED
    BY <2>1 DEF DB
<1>3. values # None
  BY <1>1, NoneHasNoAttributes
<1>4. asked' \in [Clients -> [Chars -> Bytes]]
  <2>1. asked[remoteDevice] \in [Chars -> Bytes]
    BY <1>1 DEF TypeOK
  <2>2. [ch \in Chars |-> IF Config[ch] \in attributes
                            THEN values[Config[ch]][1] ELSE asked[remoteDevice][ch]]
          \in [Chars -> Bytes]
    BY <2>1, FirstByte
  <2> QED
    BY <1>1, <2>2 DEF ClientWrote, TypeOK
<1>5. due' \in [Clients -> SUBSET Chars]
  <2>1. due \in [Clients -> SUBSET Chars]
    BY <1>1 DEF TypeOK
  <2> QED
    BY <2>1 DEF ClientWrote
<1> QED
  BY <1>2, <1>3, <1>4, <1>5 DEF UpdateLocalAttributeValues, ClientWrote

\* The invariant follows when the queues of the session shrink or stay.
LEMMA WrittenKeeps ==
  ASSUME IInv, state = "Connected", localServices' \in DB, localServices' # None,
         Filled(localServices'), localAttributes' = localServices',
         known' \in DB, known' # None,
         asked' \in [Clients -> [Chars -> Bytes]],
         due' \in [Clients -> SUBSET Chars],
         openPrepareWriteRequests' \in {<<>>, openPrepareWriteRequests},
         UNCHANGED <<state, socket, listening, advertiser, unwind,
                     scheduledIndications, indicationInFlight, clientConfigData,
                     remoteDevice, channel, wanted, writes>>
  PROVE  IInv'
<1>1. TypeOK /\ Database /\ PreparedFilled /\ Connection /\ OneIndication
  BY DEF IInv, SessionInv
<1>2. TypeOK'
  <2>1. openPrepareWriteRequests' \in Seq(WriteRequests)
    BY <1>1, EmptySeq DEF TypeOK
  <2> QED
    BY <1>1, <2>1 DEF TypeOK, DB, channel
<1>3. OneIndication'
  BY <1>1 DEF OneIndication, Indications, channel
<1>4. PreparedFilled'
  BY <1>1 DEF PreparedFilled, Prepared
<1>5. Database' /\ Connection'
  BY <1>1 DEF Database, Connection
<1> QED
  BY <1>2, <1>3, <1>4, <1>5 DEF IInv, SessionInv

LEMMA BothCopies ==
  ASSUME IInv, localAttributes # None
  PROVE  /\ localServices \in DB /\ localServices # None
         /\ localAttributes = localServices /\ Filled(localServices)
         /\ known \in DB /\ known # None
BY DEF IInv, SessionInv, Database, TypeOK, DB

LEMMA WritesOfType ==
  ASSUME NEW a \in Attributes, NEW value \in WritesOf(a)
  PROVE  value \in Values /\ (a \in Configs => value # <<>>)
BY ConstantsAssumption DEF WritesOf

LEMMA WriteRequestWrites ==
  ASSUME IInv, NEW a \in Attributes, NEW value \in WritesOf(a),
         WriteRequestOrCommand(a, value)
  PROVE  LET new == Written(a, localAttributes[a], value)
             all == [localAttributes EXCEPT ![a] = new]
         IN /\ all \in DB /\ Filled(all)
            /\ \A b \in Attributes \ {a} : all[b] = localAttributes[b]
            /\ localServices' = all /\ localAttributes' = all /\ all # None
            /\ known' \in DB /\ known' # None
            /\ ClientWrote({a}, all)
            /\ asked' \in [Clients -> [Chars -> Bytes]]
            /\ due' \in [Clients -> SUBSET Chars]
            /\ UNCHANGED <<wanted, writes>>
<1> DEFINE new == Written(a, localAttributes[a], value)
           all == [localAttributes EXCEPT ![a] = new]
<1>1. state = "Connected"
  BY ReceivingIsConnected DEF WriteRequestOrCommand
<1>2. localAttributes # None
  BY DEF WriteRequestOrCommand, None
<1>3. /\ localServices \in DB /\ localServices # None
      /\ localAttributes = localServices /\ Filled(localServices)
      /\ known \in DB /\ known # None
  BY <1>2, BothCopies
<1>4. value \in Values /\ (a \in Configs => value # <<>>)
  BY WritesOfType
<1>5. new \in Values /\ (a \in Configs => new # <<>>)
  <2>1. localAttributes[a] \in Values
    BY <1>3 DEF DB
  <2> QED
    BY <1>4, <2>1, WrittenType
<1>6. /\ UpdateLocalAttributeValues({a}, all)
      /\ known' = [known EXCEPT ![a] = new]
      /\ ClientWrote({a}, all)
  BY DEF WriteRequestOrCommand
<1> HIDE DEF new
<1>7. all \in DB /\ known' \in DB
  BY <1>3, <1>5, <1>6 DEF DB
<1>8. \A b \in Attributes : all[b] = IF b = a THEN new ELSE localAttributes[b]
  BY <1>3 DEF DB
<1> HIDE DEF all
<1>9. Filled(all)
  BY <1>3, <1>5, <1>8, ConfigIsAttribute DEF Filled
<1>10. \A b \in Attributes \ {a} : all[b] = localAttributes[b]
  BY <1>8
<1>11. {a} \in SUBSET Attributes
  OBVIOUS
<1>12. /\ localServices' = all /\ localAttributes' = all /\ all # None
       /\ asked' \in [Clients -> [Chars -> Bytes]]
       /\ due' \in [Clients -> SUBSET Chars]
       /\ UNCHANGED <<wanted, writes>>
  BY <1>1, <1>3, <1>6, <1>7, <1>9, <1>10, <1>11, AttributesWritten
<1>13. known' # None
  BY <1>3, <1>7, NoneHasNoAttributes
<1> QED
  BY <1>6, <1>7, <1>9, <1>10, <1>12, <1>13 DEF all, new

LEMMA WriteRequestOrCommandKeeps ==
  ASSUME IInv, NEW a \in Attributes, NEW value \in WritesOf(a),
         WriteRequestOrCommand(a, value)
  PROVE  IInv'
<1> DEFINE all == [localAttributes EXCEPT ![a] = Written(a, localAttributes[a], value)]
<1>1. /\ all \in DB /\ Filled(all)
      /\ localServices' = all /\ localAttributes' = all /\ all # None
      /\ known' \in DB /\ known' # None
      /\ asked' \in [Clients -> [Chars -> Bytes]]
      /\ due' \in [Clients -> SUBSET Chars]
      /\ UNCHANGED <<wanted, writes>>
  BY WriteRequestWrites
<1> HIDE DEF all
<1>2. Filled(localServices')
  BY <1>1 DEF Filled
<1>3. state = "Connected"
  BY ReceivingIsConnected DEF WriteRequestOrCommand
<1>4. UNCHANGED <<state, socket, listening, advertiser, unwind, session,
                  clientConfigData, remoteDevice, channel>>
  BY DEF WriteRequestOrCommand
<1> QED
  BY <1>1, <1>2, <1>3, <1>4, WrittenKeeps DEF session

LEMMA PrepareWriteRequestKeeps ==
  ASSUME IInv, NEW a \in Attributes, NEW value \in WritesOf(a),
         NEW offset \in 0..MaxLength, PrepareWriteRequest(a, offset, value)
  PROVE  IInv'
<1> DEFINE w == [handle |-> a, valueOffset |-> offset, value |-> value,
                 client |-> remoteDevice]
<1>1. TypeOK /\ Database /\ PreparedFilled /\ Connection /\ OneIndication
  BY DEF IInv, SessionInv
<1>2. state = "Connected" /\ remoteDevice \in Clients /\ localAttributes # None
  BY ReceivingIsConnected DEF PrepareWriteRequest, None
<1>3. /\ openPrepareWriteRequests \in Seq(WriteRequests)
      /\ openPrepareWriteRequests' = Append(openPrepareWriteRequests, w)
  BY <1>1 DEF PrepareWriteRequest, TypeOK
<1>4. UNCHANGED <<state, socket, listening, advertiser, unwind, database,
                  scheduledIndications, indicationInFlight, clientConfigData,
                  remoteDevice, channel, observer>>
  BY DEF PrepareWriteRequest
<1>5. w \in WriteRequests /\ Prepared(w)
  <2>1. value \in Values /\ (a \in Configs => value # <<>>) /\ offset \in Nat
    BY WritesOfType, ConstantsAssumption
  <2> QED
    BY <1>2, <2>1 DEF WriteRequests, Prepared
<1> HIDE DEF w
<1>6. /\ openPrepareWriteRequests' \in Seq(WriteRequests)
      /\ \A k \in DOMAIN openPrepareWriteRequests' :
           \/ openPrepareWriteRequests'[k] = w
           \/ /\ k \in DOMAIN openPrepareWriteRequests
              /\ openPrepareWriteRequests'[k] = openPrepareWriteRequests[k]
  <2>1. /\ Append(openPrepareWriteRequests, w) \in Seq(WriteRequests)
        /\ Len(Append(openPrepareWriteRequests, w)) = Len(openPrepareWriteRequests) + 1
        /\ \A k \in 1..Len(openPrepareWriteRequests) :
             Append(openPrepareWriteRequests, w)[k] = openPrepareWriteRequests[k]
        /\ Append(openPrepareWriteRequests, w)[Len(openPrepareWriteRequests) + 1] = w
    BY <1>3, <1>5, AppendProperties
  <2>2. /\ DOMAIN openPrepareWriteRequests = 1..Len(openPrepareWriteRequests)
        /\ Len(openPrepareWriteRequests) \in Nat
        /\ DOMAIN Append(openPrepareWriteRequests, w)
             = 1..(Len(openPrepareWriteRequests) + 1)
    BY <1>3, <2>1, LenProperties
  <2> QED
    BY <1>3, <2>1, <2>2
<1>7. PreparedFilled'
  <2>1. remoteDevice' = remoteDevice
    BY <1>4
  <2>2. \A k \in DOMAIN openPrepareWriteRequests' : Prepared(openPrepareWriteRequests'[k])
    BY <1>1, <1>5, <1>6 DEF PreparedFilled
  <2> QED
    BY <2>1, <2>2 DEF PreparedFilled, Prepared
<1>8. TypeOK'
  BY <1>1, <1>4, <1>6 DEF TypeOK, database, channel, observer
<1>9. OneIndication'
  BY <1>1, <1>4 DEF OneIndication, Indications, channel
<1>10. Database' /\ Connection'
  BY <1>1, <1>2, <1>4 DEF Database, Connection, database, observer, Filled
<1> QED
  BY <1>7, <1>8, <1>9, <1>10 DEF IInv, SessionInv

LEMMA ExecuteWrites ==
  ASSUME IInv, ExecuteWriteRequest(TRUE)
  PROVE  LET done == Executed[Len(openPrepareWriteRequests)]
         IN /\ Sound(done)
            /\ localServices' = done.values /\ localAttributes' = done.values
            /\ done.values # None
            /\ known' \in DB /\ known' # None
            /\ ClientWrote(done.written, done.values)
            /\ asked' \in [Clients -> [Chars -> Bytes]]
            /\ due' \in [Clients -> SUBSET Chars]
            /\ UNCHANGED <<wanted, writes>>
<1> DEFINE done == Executed[Len(openPrepareWriteRequests)]
<1>1. state = "Connected"
  BY ReceivingIsConnected DEF ExecuteWriteRequest
<1>2. localAttributes # None
  BY DEF ExecuteWriteRequest, IInv, SessionInv, Database
<1>3. /\ localServices \in DB /\ localServices # None
      /\ localAttributes = localServices /\ Filled(localServices)
      /\ known \in DB /\ known # None
  BY <1>2, BothCopies
<1>4. Sound(done)
  BY <1>3, ExecutedSound DEF IInv, SessionInv
<1>5. /\ UpdateLocalAttributeValues(done.written, done.values)
      /\ known' = IF done.ok THEN done.values ELSE known
      /\ ClientWrote(done.written, done.values)
  BY DEF ExecuteWriteRequest
<1> HIDE DEF done
<1>6. /\ done.values \in DB /\ Filled(done.values)
      /\ done.written \in SUBSET Attributes
      /\ \A a \in Attributes \ done.written : done.values[a] = localAttributes[a]
  BY <1>4 DEF Sound
<1>7. /\ localServices' = done.values /\ localAttributes' = done.values
      /\ done.values # None
      /\ asked' \in [Clients -> [Chars -> Bytes]]
      /\ due' \in [Clients -> SUBSET Chars]
      /\ UNCHANGED <<wanted, writes>>
  BY <1>1, <1>3, <1>5, <1>6, AttributesWritten
<1>8. known' \in DB /\ known' # None
  BY <1>3, <1>5, <1>6, <1>7
<1> QED
  BY <1>4, <1>5, <1>7, <1>8 DEF done

LEMMA ExecuteWriteRequestKeeps ==
  ASSUME IInv, NEW flush \in BOOLEAN, ExecuteWriteRequest(flush)
  PROVE  IInv'
<1>1. state = "Connected" /\ localAttributes # None
  BY ReceivingIsConnected DEF ExecuteWriteRequest, IInv, SessionInv, Database
<1>2. /\ openPrepareWriteRequests' = <<>>
      /\ UNCHANGED <<state, socket, listening, advertiser, unwind,
                     scheduledIndications, indicationInFlight, clientConfigData,
                     remoteDevice, channel>>
  BY DEF ExecuteWriteRequest
<1>3. CASE flush
  <2> DEFINE done == Executed[Len(openPrepareWriteRequests)]
  <2>1. flush = TRUE
    BY <1>3
  <2>2. /\ Sound(done)
        /\ localServices' = done.values /\ localAttributes' = done.values
        /\ done.values # None
        /\ known' \in DB /\ known' # None
        /\ asked' \in [Clients -> [Chars -> Bytes]]
        /\ due' \in [Clients -> SUBSET Chars]
        /\ UNCHANGED <<wanted, writes>>
    BY <2>1, ExecuteWrites
  <2> HIDE DEF done
  <2>3. localServices' \in DB /\ Filled(localServices')
    BY <2>2 DEF Sound, Filled
  <2> QED
    BY <1>1, <1>2, <2>2, <2>3, WrittenKeeps
<1>4. CASE ~flush
  <2>1. UNCHANGED <<database, observer>>
    BY <1>4 DEF ExecuteWriteRequest
  <2>2. /\ localServices \in DB /\ localServices # None
        /\ localAttributes = localServices /\ Filled(localServices)
        /\ known \in DB /\ known # None /\ TypeOK
    BY <1>1, BothCopies DEF IInv
  <2>3. /\ localServices' = localServices /\ localAttributes' = localAttributes
        /\ known' = known /\ asked' = asked /\ due' = due
        /\ UNCHANGED <<wanted, writes>>
    BY <2>1 DEF database, observer
  <2>4. Filled(localServices')
    BY <2>2, <2>3 DEF Filled
  <2> QED
    BY <1>1, <1>2, <2>2, <2>3, <2>4, WrittenKeeps DEF TypeOK
<1> QED
  BY <1>3, <1>4

-----------------------------------------------------------------------------
(* Theorems *)

LEMMA Initially ==
  ASSUME Init
  PROVE  IInv
<1>1. TypeOK
  <2>1. NoConfiguration \in [configValue : Bytes, charValueWasUpdated : BOOLEAN]
    BY DEF NoConfiguration, Bytes
  <2>2. clientConfigData \in
          [Clients -> [Chars -> [configValue : Bytes, charValueWasUpdated : BOOLEAN]]]
    BY <2>1 DEF Init
  <2>3. asked \in [Clients -> [Chars -> Bytes]]
    BY DEF Init, Bytes
  <2>4. due \in [Clients -> SUBSET Chars] /\ writes \in 0..MaxWrites
    BY ConstantsAssumption DEF Init
  <2> QED
    BY <2>2, <2>3, <2>4, EmptySeq DEF Init, TypeOK
<1>2. Cardinality(Indications) = 0
  <2>1. Indications = {}
    BY DEF Init, Indications
  <2> QED
    BY <2>1, FS_EmptySet
<1>3. SessionInv
  BY <1>2 DEF Init, SessionInv, Database, PreparedFilled, Connection, SessionIdle,
              OneIndication
<1> QED
  BY <1>1, <1>3 DEF IInv

LEMMA NextKeeps ==
  ASSUME IInv, [Next]_vars
  PROVE  IInv'
<1>1. CASE UNCHANGED vars
  BY <1>1 DEF IInv, SessionInv, TypeOK, Database, PreparedFilled, Prepared,
              Connection, SessionIdle, OneIndication, Indications, Filled,
              vars, session, channel, database, observer
<1>2. CASE AddService
  BY <1>2, AddServiceKeeps
<1>3. CASE \E data \in AdvData, connectable \in BOOLEAN :
             StartAdvertising(data, connectable)
  BY <1>3, StartAdvertisingKeeps
<1>4. CASE StopAdvertising
  BY <1>4, StopAdvertisingKeeps
<1>5. CASE \E client \in Clients : ConnectionRequest(client)
  BY <1>5, ConnectionRequestKeeps
<1>6. CASE DisconnectFromDevice
  BY <1>6, DisconnectFromDeviceKeeps
<1>7. CASE UnexpectedPacket
  BY <1>7, UnexpectedPacketKeeps
<1>8. CASE NetworkError
  BY <1>8, NetworkErrorKeeps
<1>9. CASE RemoteHostClosed
  BY <1>9, RemoteHostClosedKeeps
<1>10. CASE Unwind
  BY <1>10, UnwindKeeps
<1>11. CASE \E ch \in Chars, value \in AppValues : WriteCharacteristic(ch, value)
  BY <1>11, WriteCharacteristicKeeps
<1>12. CASE ClientReceives
  BY <1>12, ClientReceivesKeeps
<1>13. CASE Confirmation
  BY <1>13, ConfirmationKeeps
<1>14. CASE \E a \in Attributes : \E value \in WritesOf(a) :
              WriteRequestOrCommand(a, value)
  BY <1>14, WriteRequestOrCommandKeeps
<1>15. CASE \E a \in Attributes : \E value \in WritesOf(a) :
              \E offset \in 0..MaxLength : PrepareWriteRequest(a, offset, value)
  BY <1>15, PrepareWriteRequestKeeps
<1>16. CASE \E flush \in BOOLEAN : ExecuteWriteRequest(flush)
  BY <1>16, ExecuteWriteRequestKeeps
<1> QED
  BY <1>1, <1>2, <1>3, <1>4, <1>5, <1>6, <1>7, <1>8, <1>9, <1>10, <1>11, <1>12,
     <1>13, <1>14, <1>15, <1>16 DEF Next

\* In every state the program can reach, the controller is connected exactly while
\* its socket is open, nothing is left of a session that is over, and the copies of
\* the values that exist are the same.
THEOREM Invariance == Spec => []IInv
<1>1. Init => IInv
  BY Initially
<1>2. IInv /\ [Next]_vars => IInv'
  BY NextKeeps
<1> QED
  BY <1>1, <1>2, PTL DEF Spec

\* Every variable keeps its type: the first byte of a configuration, which
\* storeClientConfigurations() and the notifications read, is always there.
THEOREM TypeCorrect == Spec => []TypeOK
<1>1. IInv => TypeOK
  BY DEF IInv
<1> QED
  BY <1>1, Invariance, PTL

\* sendOrScheduleIndication(), sendNextIndication() and handleConnectionRequest():
\* the client is never sent an indication while it has another to confirm, and
\* what waits does so behind one that is in flight.
THEOREM IndicationsAlternate == Spec => []OneIndication
<1>1. IInv => OneIndication
  BY DEF IInv, SessionInv
<1> QED
  BY <1>1, Invariance, PTL

\* The prepared writes and the waiting indications are those of the client that is
\* connected: none is left to the next one, whichever way the session ended.
THEOREM QueuesOwned == Spec => []QueuesAreTheClients
<1>1. IInv => QueuesAreTheClients
  BY DEF IInv, SessionInv, Connection, SessionIdle, PreparedFilled, Prepared,
         QueuesAreTheClients
<1> QED
  BY <1>1, Invariance, PTL

-----------------------------------------------------------------------------
(* The two copies of the values *)

\* While no slot runs between two steps of a handler, the copies are the same or
\* the service objects are gone already.
MapsInv ==
  IF unwind = "none" THEN localAttributes = localServices ELSE localServices = None

LEMMA MapsKept ==
  ASSUME "slot" \notin Environment, IInv, MapsInv, [Next]_vars
  PROVE  MapsInv'
<1>1. CASE UNCHANGED vars
  BY <1>1 DEF MapsInv, vars, database
<1>2. CASE AddService
  BY <1>2 DEF MapsInv, AddService, ApplicationRuns
<1>3. CASE \E data \in AdvData, connectable \in BOOLEAN :
             StartAdvertising(data, connectable)
  BY <1>3 DEF MapsInv, StartAdvertising, database
<1>4. CASE StopAdvertising
  BY <1>4 DEF MapsInv, StopAdvertising, database
<1>5. CASE \E client \in Clients : ConnectionRequest(client)
  BY <1>5 DEF MapsInv, ConnectionRequest, RestoreClientConfigurations
<1>6. CASE DisconnectFromDevice
  BY <1>6 DEF MapsInv, DisconnectFromDevice, L2cpDisconnected, InvalidateServices,
              ResetController
<1>7. CASE UnexpectedPacket
  BY <1>7 DEF MapsInv, UnexpectedPacket, L2cpDisconnected, InvalidateServices,
              ResetController
<1>8. CASE NetworkError
  BY <1>8 DEF MapsInv, NetworkError, L2cpErrorChanged, InvalidateServices,
              ResetController
<1>9. CASE RemoteHostClosed
  BY <1>9 DEF MapsInv, RemoteHostClosed, L2cpErrorChanged, InvalidateServices,
              ResetController
<1>10. CASE Unwind
  BY <1>10 DEF MapsInv, Unwind, L2cpDisconnected, InvalidateServices, ResetController
<1>11. CASE \E ch \in Chars, value \in AppValues : WriteCharacteristic(ch, value)
  <2>1. PICK ch \in Chars, value \in AppValues : WriteCharacteristic(ch, value)
    BY <1>11
  <2>2. unwind = "none" /\ unwind' = "none"
    BY <2>1 DEF WriteCharacteristic, ApplicationRuns
  <2> QED
    BY <2>1, <2>2 DEF MapsInv, WriteCharacteristic
<1>12. CASE ClientReceives
  BY <1>12 DEF MapsInv, ClientReceives, database
<1>13. CASE Confirmation
  BY <1>13 DEF MapsInv, Confirmation, database
<1>14. CASE \E a \in Attributes : \E value \in WritesOf(a) :
              WriteRequestOrCommand(a, value)
  <2>1. PICK a \in Attributes : \E value \in WritesOf(a) : WriteRequestOrCommand(a, value)
    BY <1>14
  <2>2. PICK value \in WritesOf(a) : WriteRequestOrCommand(a, value)
    BY <2>1
  <2> DEFINE all == [localAttributes EXCEPT
                       ![a] = Written(a, localAttributes[a], value)]
  <2>3. localServices' = all /\ localAttributes' = all
    BY <2>2, WriteRequestWrites
  <2> HIDE DEF all
  <2>4. unwind' = "none"
    BY <2>2 DEF WriteRequestOrCommand, Receiving
  <2> QED
    BY <2>3, <2>4 DEF MapsInv
<1>15. CASE \E a \in Attributes : \E value \in WritesOf(a) :
              \E offset \in 0..MaxLength : PrepareWriteRequest(a, offset, value)
  BY <1>15 DEF MapsInv, PrepareWriteRequest, database
<1>16. CASE \E flush \in BOOLEAN : ExecuteWriteRequest(flush)
  <2>1. PICK flush \in BOOLEAN : ExecuteWriteRequest(flush)
    BY <1>16
  <2>2. CASE flush
    <3>1. ExecuteWriteRequest(TRUE)
      BY <2>1, <2>2
    <3>2. localAttributes' = localServices'
      BY <3>1, ExecuteWrites
    <3>3. unwind' = "none"
      BY <3>1 DEF ExecuteWriteRequest, Receiving
    <3> QED
      BY <3>2, <3>3 DEF MapsInv
  <2>3. CASE ~flush
    BY <2>1, <2>3 DEF MapsInv, ExecuteWriteRequest, database
  <2> QED
    BY <2>2, <2>3
<1> QED
  BY <1>1, <1>2, <1>3, <1>4, <1>5, <1>6, <1>7, <1>8, <1>9, <1>10, <1>11, <1>12,
     <1>13, <1>14, <1>15, <1>16 DEF Next

LEMMA MapsInvariance ==
  ASSUME "slot" \notin Environment
  PROVE  Spec => []MapsInv
<1>1. Init => MapsInv
  BY DEF Init, MapsInv
<1>2. IInv /\ MapsInv /\ [Next]_vars => MapsInv'
  BY MapsKept
<1> QED
  BY <1>1, <1>2, Invariance, PTL DEF Spec

\* Between two events the service objects and localAttributes hold the same values,
\* after any sequence of writes, prepared writes, resets and connections: the
\* application and the client never see different ones.  An application that reacts
\* to UnconnectedState in a slot is left out: it adds services of which the handler
\* that called it then clears one copy.
THEOREM CopiesStayEqual ==
  ASSUME "slot" \notin Environment
  PROVE  Spec => []CopiesAgree
<1>1. MapsInv => CopiesAgree
  BY DEF MapsInv, CopiesAgree
<1> QED
  BY <1>1, MapsInvariance, PTL

\* A session is over with nothing left of it, and its prepared writes change both
\* copies of the values or none.
THEOREM SessionsStayApart ==
  ASSUME "slot" \notin Environment
  PROVE  Spec => []SessionsApart
<1>1. QueuesAreTheClients /\ CopiesAgree => SessionsApart
  BY DEF SessionsApart
<1> QED
  BY <1>1, QueuesOwned, CopiesStayEqual, PTL

-----------------------------------------------------------------------------
(* The configurations of bonded clients: a client that comes back finds    *)
(* what it has set, and what the application writes to a characteristic is *)
(* on its way to the subscribed client.                                    *)
(*                                                                         *)
(* This holds where storeClientConfigurations() finds the services: no     *)
(* client is bonded, or no session ends by disconnectFromDevice() or with  *)
(* the connection, whose handlers delete the services first.               *)

ConfigsStored ==
  Bonded = {} \/ Environment \cap {"localClose", "remoteClose", "netError"} = {}

Unset == [ch \in Chars |-> 0]

\* A client without a bond that is not connected has nothing to come back to.
Strangers ==
  \A c \in Clients : c \notin Bonded /\ c # remoteDevice =>
    due[c] = {} /\ asked[c] = Unset

\* The connected client has the configuration it asked for, and is owed nothing
\* it has not subscribed to.
InForce ==
  state = "Connected" =>
    /\ localServices # None =>
         \A ch \in Chars : localServices[Config[ch]][1] = asked[remoteDevice][ch]
    /\ localServices = None => due[remoteDevice] = {} /\ asked[remoteDevice] = Unset
    /\ \A ch \in due[remoteDevice] : Subscribed(ch, asked[remoteDevice][ch])

\* What a bonded client asked for is stored while it is away, with a mark on
\* everything it has yet to be told of.
KeptFor(c) ==
  \A ch \in Chars :
    /\ clientConfigData[c][ch].configValue = asked[c][ch]
    /\ ch \in due[c] => /\ clientConfigData[c][ch].charValueWasUpdated
                        /\ Subscribed(ch, asked[c][ch])
StoredAway == \A c \in Bonded : c # remoteDevice => KeptFor(c)

BondInv == Strangers /\ InForce /\ StoredAway /\ UpdateOnItsWay

-----------------------------------------------------------------------------
(* Places in sequences *)

LEMMA AppendPlaces ==
  ASSUME NEW S, NEW s \in Seq(S), NEW e \in S
  PROVE  /\ \A k \in DOMAIN s : k \in DOMAIN Append(s, e) /\ Append(s, e)[k] = s[k]
         /\ \E k \in DOMAIN Append(s, e) : Append(s, e)[k] = e
<1>1. /\ Append(s, e) \in Seq(S) /\ Len(Append(s, e)) = Len(s) + 1
      /\ \A i \in 1..Len(s) : Append(s, e)[i] = s[i]
      /\ Append(s, e)[Len(s) + 1] = e
  BY AppendProperties
<1>2. /\ DOMAIN s = 1..Len(s) /\ Len(s) \in Nat
      /\ DOMAIN Append(s, e) = 1..(Len(s) + 1)
  BY <1>1, LenProperties
<1> QED
  BY <1>1, <1>2

LEMMA TailPlaces ==
  ASSUME NEW S, NEW s \in Seq(S), s # <<>>, NEW k \in DOMAIN s, s[k] # Head(s)
  PROVE  \E j \in DOMAIN Tail(s) : Tail(s)[j] = s[k]
<1>1. /\ Tail(s) \in Seq(S) /\ Len(Tail(s)) = Len(s) - 1
      /\ \A i \in 1..Len(Tail(s)) : Tail(s)[i] = s[i + 1]
      /\ Len(s) \in Nat \ {0}
  BY HeadTailProperties, EmptySeq
<1>2. DOMAIN s = 1..Len(s) /\ DOMAIN Tail(s) = 1..Len(Tail(s)) /\ Head(s) = s[1]
  BY <1>1, LenProperties
<1>3. k # 1
  BY <1>2
<1>4. k - 1 \in DOMAIN Tail(s) /\ Tail(s)[k - 1] = s[k]
  BY <1>1, <1>2, <1>3
<1> QED
  BY <1>4

-----------------------------------------------------------------------------
(* The end of a session *)

LEMMA Idle ==
  ASSUME IInv
  PROVE  /\ TypeOK /\ remoteDevice \in Clients \cup {NoClient}
         /\ state # "Connected" => remoteDevice = NoClient
         /\ remoteDevice # NoClient => state = "Connected" /\ remoteDevice \in Clients
         /\ state = "Connected" => remoteDevice \in Clients
         /\ Bonded \subseteq Clients /\ NoClient \notin Clients
BY ConstantsAssumption DEF IInv, SessionInv, TypeOK, Connection, SessionIdle

LEMMA SessionEndsBond ==
  ASSUME IInv, BondInv, EndSession, remoteDevice' = NoClient, state' # "Connected",
         \/ StoreClientConfigurations(localServices)
         \/ Bonded = {}
         \/ remoteDevice = NoClient /\ clientConfigData' = clientConfigData
  PROVE  BondInv'
<1>1. Strangers'
  <2>1. SUFFICES ASSUME NEW c \in Clients, c \notin Bonded
                 PROVE  due'[c] = {} /\ asked'[c] = Unset
    BY DEF Strangers, Unset
  <2>2. CASE c = remoteDevice
    BY <2>1, <2>2 DEF EndSession, Unset
  <2>3. CASE c # remoteDevice
    BY <2>1, <2>3 DEF EndSession, BondInv, Strangers
  <2> QED
    BY <2>2, <2>3
<1>2. InForce' /\ UpdateOnItsWay'
  BY DEF InForce, UpdateOnItsWay
<1>3. StoredAway'
  <2>1. SUFFICES ASSUME NEW c \in Bonded
                 PROVE  KeptFor(c)'
    BY DEF StoredAway
  <2>2. c \in Clients /\ c # NoClient
    BY <2>1, Idle
  <2>3. asked'[c] = asked[c] /\ due'[c] = IF c = remoteDevice THEN {} ELSE due[c]
    BY <2>1, <2>2 DEF EndSession
  <2>4. CASE c # remoteDevice
    <3>1. KeptFor(c)
      BY <2>1, <2>4 DEF BondInv, StoredAway
    <3>2. clientConfigData'[c] = clientConfigData[c]
      BY <2>1, <2>2, <2>4, Idle DEF StoreClientConfigurations, TypeOK
    <3> QED
      BY <2>3, <2>4, <3>1, <3>2 DEF KeptFor
  <2>5. CASE c = remoteDevice
    <3>1. state = "Connected" /\ StoreClientConfigurations(localServices)
      BY <2>1, <2>2, <2>5, Idle
    <3>2. clientConfigData'[c] = [ch \in Chars |->
             IF localServices # None THEN Configuration(localServices[Config[ch]][1])
             ELSE NoConfiguration]
      BY <2>1, <2>2, <2>5, <3>1, Idle DEF StoreClientConfigurations, TypeOK
    <3>3. ASSUME NEW ch \in Chars
          PROVE  clientConfigData'[c][ch].configValue = asked[c][ch]
      <4>1. CASE localServices # None
        <5>1. clientConfigData'[c][ch] = Configuration(localServices[Config[ch]][1])
          BY <3>2, <4>1
        <5>2. localServices[Config[ch]][1] = asked[c][ch]
          BY <2>5, <3>1, <4>1 DEF BondInv, InForce
        <5> QED
          BY <5>1, <5>2 DEF Configuration
      <4>2. CASE localServices = None
        <5>1. clientConfigData'[c][ch] = NoConfiguration
          BY <3>2, <4>2
        <5>2. asked[c][ch] = 0
          BY <2>5, <3>1, <4>2 DEF BondInv, InForce, Unset
        <5> QED
          BY <5>1, <5>2 DEF NoConfiguration
      <4> QED
        BY <4>1, <4>2
    <3> QED
      BY <2>3, <2>5, <3>3 DEF KeptFor
  <2> QED
    BY <2>4, <2>5
<1> QED
  BY <1>1, <1>2, <1>3 DEF BondInv

\* Steps that change neither a session nor what clients asked for.
LEMMA BondUnchanged ==
  ASSUME IInv, BondInv, state # "Connected", state' # "Connected",
         UNCHANGED <<clientConfigData, remoteDevice, asked, due>>
  PROVE  BondInv'
BY DEF BondInv, Strangers, InForce, StoredAway, KeptFor, UpdateOnItsWay, Unset

LEMMA NotConnectedKeeps ==
  ASSUME IInv, BondInv,
         \/ AddService \/ StopAdvertising
         \/ \E data \in AdvData, connectable \in BOOLEAN :
              StartAdvertising(data, connectable)
  PROVE  BondInv'
<1>1. state # "Connected" /\ state' # "Connected"
  BY DEF AddService, StopAdvertising, StartAdvertising
<1>2. UNCHANGED <<clientConfigData, remoteDevice, asked, due>>
  BY DEF AddService, StopAdvertising, StartAdvertising, observer
<1> QED
  BY <1>1, <1>2, BondUnchanged

LEMMA EndsKeep ==
  ASSUME ConfigsStored, IInv, BondInv,
         \/ DisconnectFromDevice \/ UnexpectedPacket
         \/ NetworkError \/ RemoteHostClosed \/ Unwind
  PROVE  BondInv'
<1>1. CASE DisconnectFromDevice
  <2>1. Bonded = {}
    BY <1>1 DEF ConfigsStored, DisconnectFromDevice
  <2>2. CASE L2cpDisconnected(None)
    BY <2>1, <2>2, SessionEndsBond DEF L2cpDisconnected
  <2>3. CASE /\ socket = "closed" /\ state' = "Closing"
             /\ UNCHANGED <<clientConfigData, remoteDevice, observer>>
    <3>1. state # "Connected"
      BY <2>3 DEF IInv, SessionInv, Connection
    <3> QED
      BY <2>3, <3>1, BondUnchanged DEF observer
  <2> QED
    BY <1>1, <2>2, <2>3 DEF DisconnectFromDevice
<1>2. CASE UnexpectedPacket
  BY <1>2, SessionEndsBond DEF UnexpectedPacket, L2cpDisconnected
<1>3. CASE NetworkError
  <2>1. Bonded = {}
    BY <1>3 DEF ConfigsStored, NetworkError
  <2> QED
    BY <1>3, <2>1, SessionEndsBond DEF NetworkError, L2cpErrorChanged
<1>4. CASE RemoteHostClosed
  <2>1. Bonded = {} \/ remoteDevice = NoClient
    BY <1>4, Idle DEF ConfigsStored, RemoteHostClosed, IInv, SessionInv, Connection
  <2> QED
    BY <1>4, <2>1, SessionEndsBond DEF RemoteHostClosed, L2cpErrorChanged
<1>5. CASE Unwind
  <2>1. state # "Connected"
    BY <1>5 DEF Unwind, IInv, SessionInv, Connection
  <2>2. CASE L2cpDisconnected(localServices)
    BY <2>2, SessionEndsBond DEF L2cpDisconnected
  <2>3. CASE UNCHANGED <<state, clientConfigData, remoteDevice, observer>>
    BY <2>1, <2>3, BondUnchanged DEF observer
  <2> QED
    BY <1>5, <2>2, <2>3 DEF Unwind
<1> QED
  BY <1>1, <1>2, <1>3, <1>4, <1>5

-----------------------------------------------------------------------------
(* A client connects *)

\* Everything that is marked for the client is sent to it or waits to be.
LEMMA MissedAreOnTheirWay ==
  ASSUME IInv, NEW client \in Clients, scheduledIndications = <<>>,
         DOMAIN localServices \subseteq DOMAIN localAttributes,
         SendMissedUpdates(client),
         NEW ch \in Chars, localServices # None,
         Stored(client, ch).charValueWasUpdated
  PROVE  \/ \E k \in DOMAIN scheduledIndications' : scheduledIndications'[k] = ch
         \/ \E k \in DOMAIN toClient' :
              toClient'[k].char = ch /\ toClient'[k].value = localAttributes[ch]
<1> DEFINE missed == {c \in Chars \cap DOMAIN localServices :
                        Stored(client, c).charValueWasUpdated}
           notify == {c \in missed : Notifies(Stored(client, c).configValue)}
<1>1. PICK n \in HashOrders(notify), i \in HashOrders(missed \ notify) :
        LET waiting == scheduledIndications \o i
            told == [k \in DOMAIN n |->
                       Packet("notification", n[k], localAttributes[n[k]])]
        IN IF waiting = <<>>
             THEN toClient' = told
                  /\ UNCHANGED <<scheduledIndications, indicationInFlight>>
             ELSE /\ toClient' = Append(told, Packet("indication", Head(waiting),
                                                    localAttributes[Head(waiting)]))
                  /\ scheduledIndications' = Tail(waiting)
                  /\ indicationInFlight' = TRUE
  BY DEF SendMissedUpdates
<1> DEFINE told == [k \in DOMAIN n |->
                      Packet("notification", n[k], localAttributes[n[k]])]
           p == Packet("indication", Head(i), localAttributes[Head(i)])
<1>2. ch \in missed
  <2>1. DOMAIN localServices = Attributes
    BY DEF IInv, TypeOK
  <2> QED
    BY <2>1, ConfigIsAttribute
<1>3. /\ n \in Seq(Chars) /\ i \in Seq(Chars)
      /\ ch \in notify => \E k \in DOMAIN n : n[k] = ch
      /\ ch \notin notify => \E k \in DOMAIN i : i[k] = ch
      /\ i \in Seq(missed \ notify) /\ n \in Seq(notify)
  <2>1. notify \in SUBSET Chars /\ missed \ notify \in SUBSET Chars
    OBVIOUS
  <2>2. ch \notin notify => ch \in missed \ notify
    BY <1>2
  <2> HIDE DEF missed, notify
  <2>3. n \in Seq(Chars) /\ n \in Seq(notify) /\ \A c \in notify : \E k \in DOMAIN n : n[k] = c
    BY <2>1, HashOrderLists
  <2>4. /\ i \in Seq(Chars) /\ i \in Seq(missed \ notify)
        /\ \A c \in missed \ notify : \E k \in DOMAIN i : i[k] = c
    BY <2>1, HashOrderLists
  <2> QED
    BY <2>2, <2>3, <2>4
<1>4. \A c \in missed : localAttributes[c] \in Values
  BY ConfigIsAttribute DEF IInv, SessionInv, Database, TypeOK, None
<1>5. scheduledIndications \o i = i
  BY <1>3, ConcatEmptySeq
<1>6. told \in Seq(Packets)
  <2>1. DOMAIN n = 1..Len(n) /\ Len(n) \in Nat /\ \A k \in DOMAIN n : n[k] \in missed
    BY <1>3, LenProperties, ElementOfSeq
  <2>2. \A k \in DOMAIN n : told[k] \in Packets
    BY <1>4, <2>1, PacketType
  <2>3. told \in [1..Len(n) -> Packets]
    BY <2>1, <2>2
  <2> QED
    BY <2>1, <2>3, SeqDef
<1>7. \A c \in missed : \A kind : /\ Packet(kind, c, localAttributes[c]).char = c
                                  /\ Packet(kind, c, localAttributes[c]).value
                                       = localAttributes[c]
  BY DEF Packet
<1>8. ASSUME ch \in notify
      PROVE  \E k \in DOMAIN told :
               told[k].char = ch /\ told[k].value = localAttributes[ch]
  <2>1. PICK k \in DOMAIN n : n[k] = ch
    BY <1>3, <1>8
  <2>2. k \in DOMAIN told /\ told[k] = Packet("notification", ch, localAttributes[ch])
    BY <2>1
  <2> QED
    BY <1>2, <1>7, <2>2
<1> HIDE DEF told, missed, notify
<1>9. CASE i = <<>>
  <2>1. toClient' = told
    BY <1>1, <1>5, <1>9 DEF told
  <2>2. ch \in notify
    BY <1>3, <1>9
  <2> QED
    BY <1>8, <2>1, <2>2
<1>10. CASE i # <<>>
  <2>1. toClient' = Append(told, p) /\ scheduledIndications' = Tail(i)
    BY <1>1, <1>5, <1>10 DEF told
  <2>2. Head(i) \in missed /\ Head(i) \in Chars
    BY <1>3, <1>10, HeadTailProperties
  <2>3. p \in Packets /\ p.char = Head(i) /\ p.value = localAttributes[Head(i)]
    BY <1>4, <1>7, <2>2, PacketType
  <2> HIDE DEF p
  <2>4. /\ \A k \in DOMAIN told : k \in DOMAIN toClient' /\ toClient'[k] = told[k]
        /\ \E k \in DOMAIN toClient' : toClient'[k] = p
    BY <1>6, <2>1, <2>3, AppendPlaces
  <2>5. CASE ch \in notify
    BY <1>8, <2>4, <2>5
  <2>6. CASE ch \notin notify
    <3>1. PICK k \in DOMAIN i : i[k] = ch
      BY <1>3, <2>6
    <3>2. CASE ch = Head(i)
      BY <2>3, <2>4, <3>2
    <3>3. CASE ch # Head(i)
      BY <1>3, <1>10, <2>1, <3>1, <3>3, TailPlaces
    <3> QED
      BY <3>2, <3>3
  <2> QED
    BY <2>5, <2>6
<1> QED
  BY <1>9, <1>10

LEMMA ConnectionRequestKeepsBond ==
  ASSUME IInv, BondInv, NEW client \in Clients, ConnectionRequest(client)
  PROVE  BondInv'
<1>1. /\ remoteDevice = NoClient /\ scheduledIndications = <<>> /\ client # NoClient
      /\ remoteDevice' = client
      /\ clientConfigData' = clientConfigData
      /\ DOMAIN localServices \subseteq DOMAIN localAttributes
      /\ SendMissedUpdates(client)
      /\ localServices' = Restored(client, localServices)
      /\ localAttributes' = Restored(client, localAttributes)
  BY ConstantsAssumption
  DEF ConnectionRequest, RestoreClientConfigurations, IInv, SessionInv, Connection,
      SessionIdle
<1>2. /\ asked \in [Clients -> [Chars -> Bytes]] /\ due \in [Clients -> SUBSET Chars]
      /\ Bonded \subseteq Clients /\ NoClient \notin Clients /\ TypeOK
  BY ConstantsAssumption DEF IInv, TypeOK
<1>3. CASE localServices = None
  <2>1. /\ asked' = [asked EXCEPT ![client] = Unset]
        /\ due' = [due EXCEPT ![client] = {}]
    BY <1>3 DEF ConnectionRequest, Forget, Unset
  <2>2. localServices' = None
    BY <1>1, <1>3, RestoredNone
  <2>3. /\ asked'[client] = Unset /\ due'[client] = {}
        /\ \A c \in Clients : c # client => asked'[c] = asked[c] /\ due'[c] = due[c]
    BY <1>2, <2>1
  <2>4. Strangers'
    BY <1>1, <1>2, <2>3 DEF BondInv, Strangers, Unset
  <2>5. InForce' /\ UpdateOnItsWay'
    BY <1>1, <2>2, <2>3 DEF InForce, UpdateOnItsWay, Unset
  <2>6. StoredAway'
    BY <1>1, <1>2, <2>3 DEF BondInv, StoredAway, KeptFor
  <2> QED
    BY <2>4, <2>5, <2>6 DEF BondInv
<1>4. CASE localServices # None
  <2>1. asked' = asked /\ due' = due
    BY <1>4 DEF ConnectionRequest
  <2>2. localServices \in DB
    BY <1>2, <1>4 DEF TypeOK, DB
  <2>3. ASSUME NEW ch \in Chars
        PROVE  /\ Stored(client, ch).configValue = asked[client][ch]
               /\ ch \in due[client] => Stored(client, ch).charValueWasUpdated
                                        /\ Subscribed(ch, asked[client][ch])
    <3>1. CASE client \in Bonded
      <4>1. KeptFor(client)
        BY <1>1, <3>1 DEF BondInv, StoredAway
      <4> QED
        BY <3>1, <4>1 DEF KeptFor, Stored
    <3>2. CASE client \notin Bonded
      <4>1. due[client] = {} /\ asked[client] = Unset
        BY <1>1, <3>2 DEF BondInv, Strangers
      <4> QED
        BY <3>2, <4>1 DEF Stored, NoConfiguration, Unset
    <3> QED
      BY <3>1, <3>2
  <2>4. Strangers'
    BY <1>1, <1>2, <2>1 DEF BondInv, Strangers, Unset
  <2>5. StoredAway'
    BY <1>1, <1>2, <2>1 DEF BondInv, StoredAway, KeptFor
  <2>6. localServices' # None
    BY <1>1, <1>2, <1>4, <2>2, RestoredValues, NoneHasNoAttributes
  <2>7. InForce'
    <3>1. ASSUME NEW ch \in Chars
          PROVE  localServices'[Config[ch]][1] = asked[client][ch]
      BY <1>1, <1>2, <2>2, <2>3, RestoredValues
    <3>2. due[client] \subseteq Chars
      BY <1>2
    <3> QED
      BY <1>1, <2>1, <2>3, <2>6, <3>1, <3>2 DEF InForce
  <2>8. UpdateOnItsWay'
    <3>1. SUFFICES ASSUME NEW ch \in due[client]
                   PROVE  \/ \E k \in DOMAIN scheduledIndications' :
                               scheduledIndications'[k] = ch
                          \/ \E k \in DOMAIN toClient' :
                               /\ toClient'[k].char = ch
                               /\ toClient'[k].value = localAttributes'[ch]
      BY <1>1, <2>1 DEF UpdateOnItsWay
    <3>2. ch \in Chars
      BY <1>2
    <3>3. Stored(client, ch).charValueWasUpdated
      BY <2>3, <3>2
    <3>4. \/ \E k \in DOMAIN scheduledIndications' : scheduledIndications'[k] = ch
          \/ \E k \in DOMAIN toClient' :
               toClient'[k].char = ch /\ toClient'[k].value = localAttributes[ch]
      BY <1>1, <1>4, <3>2, <3>3, MissedAreOnTheirWay
    <3>5. localAttributes'[ch] = localAttributes[ch]
      <4>1. ch \in DOMAIN localAttributes
        BY <1>1, <2>2, <3>2, ConfigIsAttribute DEF DB
      <4>2. localAttributes \in DB
        BY <1>2, <4>1 DEF TypeOK, DB, None
      <4> QED
        BY <1>1, <1>2, <3>2, <4>2, RestoredValues
    <3> QED
      BY <3>4, <3>5
  <2> QED
    BY <2>4, <2>5, <2>7, <2>8 DEF BondInv
<1> QED
  BY <1>3, <1>4

-----------------------------------------------------------------------------
(* The application writes a characteristic *)

LEMMA WriteCharacteristicKeepsBond ==
  ASSUME IInv, BondInv, NEW ch \in Chars, NEW value \in AppValues,
         WriteCharacteristic(ch, value)
  PROVE  BondInv'
<1>1. /\ TypeOK /\ value \in Values /\ Bonded \subseteq Clients
      /\ asked \in [Clients -> [Chars -> Bytes]] /\ due \in [Clients -> SUBSET Chars]
      /\ toClient \in Seq(Packets) /\ scheduledIndications \in Seq(Chars)
  BY ConstantsAssumption DEF IInv, TypeOK
<1>2. /\ localServices \in DB /\ localServices # None
      /\ localAttributes = localServices
  <2>1. localAttributes # None
    BY DEF WriteCharacteristic, None
  <2> QED
    BY <2>1, BothCopies
<1>3. /\ localServices' = [localServices EXCEPT ![ch] = value]
      /\ localAttributes' = [localAttributes EXCEPT ![ch] = value]
      /\ asked' = asked /\ remoteDevice' = remoteDevice /\ state' = state
      /\ MarkMissed(ch)
  BY DEF WriteCharacteristic
<1>4. ASSUME NEW c \in Clients
      PROVE  due'[c] = IF Subscribed(ch, asked[c][ch])
                          /\ (c \in Bonded \/ (state = "Connected" /\ c = remoteDevice))
                         THEN due[c] \cup {ch} ELSE due[c]
  BY DEF WriteCharacteristic
<1>5. /\ localAttributes'[ch] = value
      /\ \A a \in Attributes \ {ch} : /\ localAttributes'[a] = localAttributes[a]
                                      /\ localServices'[a] = localServices[a]
  BY <1>2, <1>3, ConfigIsAttribute DEF DB
<1>6. Strangers'
  BY <1>3, <1>4 DEF BondInv, Strangers, Unset
<1>7. StoredAway'
  <2>1. SUFFICES ASSUME NEW c \in Bonded, c # remoteDevice
                 PROVE  KeptFor(c)'
    BY <1>3 DEF StoredAway
  <2>2. c \in Clients /\ KeptFor(c)
    BY <1>1, <2>1 DEF BondInv, StoredAway
  <2>3. Subscribed(ch, clientConfigData[c][ch].configValue)
          <=> Subscribed(ch, asked[c][ch])
    BY <2>2 DEF KeptFor
  <2> DEFINE Record == [configValue : Bytes, charValueWasUpdated : BOOLEAN]
  <2>4. clientConfigData[c] \in [Chars -> Record]
    BY <1>1, <2>2 DEF TypeOK
  <2>5. clientConfigData'[c]
          = IF Subscribed(ch, asked[c][ch])
              THEN [clientConfigData[c] EXCEPT ![ch].charValueWasUpdated = TRUE]
              ELSE clientConfigData[c]
    BY <1>3, <2>1, <2>2, <2>3 DEF MarkMissed
  <2>6. ASSUME NEW d \in Chars
        PROVE  /\ clientConfigData'[c][d].configValue = clientConfigData[c][d].configValue
               /\ clientConfigData[c][d].charValueWasUpdated
                    => clientConfigData'[c][d].charValueWasUpdated
               /\ d = ch /\ Subscribed(ch, asked[c][ch])
                    => clientConfigData'[c][d].charValueWasUpdated
    <3>1. clientConfigData[c][d] \in Record
      BY <2>4
    <3>2. CASE Subscribed(ch, asked[c][ch]) /\ d = ch
      <4>1. clientConfigData'[c][d]
              = [clientConfigData[c][d] EXCEPT !.charValueWasUpdated = TRUE]
        BY <2>4, <2>5, <3>2
      <4> QED
        BY <3>1, <4>1
    <3>3. CASE ~(Subscribed(ch, asked[c][ch]) /\ d = ch)
      <4>1. clientConfigData'[c][d] = clientConfigData[c][d]
        BY <2>4, <2>5, <3>3
      <4> QED
        BY <3>3, <4>1
    <3> QED
      BY <3>2, <3>3
  <2>7. ASSUME NEW d \in Chars, d \in due'[c]
        PROVE  /\ clientConfigData'[c][d].charValueWasUpdated
               /\ Subscribed(d, asked[c][d])
    <3>1. d \in due[c] \/ (d = ch /\ Subscribed(ch, asked[c][ch]))
      BY <1>4, <2>2, <2>7
    <3>2. CASE d \in due[c]
      BY <2>2, <2>6, <3>2 DEF KeptFor
    <3>3. CASE d = ch /\ Subscribed(ch, asked[c][ch])
      BY <2>6, <3>3
    <3> QED
      BY <3>1, <3>2, <3>3
  <2> QED
    BY <1>3, <2>2, <2>6, <2>7 DEF KeptFor
<1>8. CASE state # "Connected"
  BY <1>3, <1>6, <1>7, <1>8 DEF BondInv, InForce, UpdateOnItsWay
<1>9. CASE state = "Connected"
  <2> DEFINE rd == remoteDevice
             byte == localServices[Config[ch]][1]
             note == Packet("notification", ch, value)
             ind == Packet("indication", ch, value)
  <2>1. rd \in Clients
    BY <1>9, Idle
  <2>2. \A d \in Chars : localServices[Config[d]][1] = asked[rd][d]
    BY <1>2, <1>9 DEF BondInv, InForce
  <2>3. \A d \in due'[rd] : /\ d \in Chars /\ Subscribed(d, asked[rd][d])
                            /\ d # ch => d \in due[rd]
    BY <1>1, <1>4, <1>9, <2>1 DEF BondInv, InForce
  <2>4. localServices' # None
    <3>1. localServices' \in DB
      BY <1>1, <1>2, <1>3 DEF DB
    <3> QED
      BY <1>2, <3>1, NoneHasNoAttributes
  <2>5. InForce'
    <3>1. \A d \in Chars : localServices'[Config[d]][1] = asked[rd][d]
      BY <1>5, <2>2, ConfigIsAttribute
    <3> QED
      BY <1>3, <2>3, <2>4, <3>1 DEF InForce
  <2>6. note \in Packets /\ ind \in Packets
        /\ note.char = ch /\ note.value = value /\ ind.char = ch /\ ind.value = value
    BY <1>1, PacketType
  <2>7. \/ toClient' = Append(toClient, note) /\ scheduledIndications' = scheduledIndications
        \/ toClient' = Append(toClient, ind) /\ scheduledIndications' = scheduledIndications
        \/ /\ scheduledIndications' = Append(scheduledIndications, ch)
           /\ toClient' = toClient
        \/ /\ toClient' = toClient /\ scheduledIndications' = scheduledIndications
           /\ ~Subscribed(ch, byte)
    BY <1>9 DEF WriteCharacteristic, SendOrScheduleIndication
  <2> HIDE DEF note, ind
  <2> DEFINE Sent ==
          /\ \A k \in DOMAIN toClient : k \in DOMAIN toClient' /\ toClient'[k] = toClient[k]
          /\ \A k \in DOMAIN scheduledIndications :
               /\ k \in DOMAIN scheduledIndications'
               /\ scheduledIndications'[k] = scheduledIndications[k]
          /\ \/ \E k \in DOMAIN scheduledIndications' : scheduledIndications'[k] = ch
             \/ \E k \in DOMAIN toClient' : toClient'[k].char = ch /\ toClient'[k].value = value
             \/ ~Subscribed(ch, byte)
  <2>8. Sent
    <3>1. ASSUME NEW e \in Packets, e.char = ch, e.value = value,
                 toClient' = Append(toClient, e),
                 scheduledIndications' = scheduledIndications
          PROVE  Sent
      <4>1. /\ \A k \in DOMAIN toClient :
                 k \in DOMAIN toClient' /\ toClient'[k] = toClient[k]
            /\ \E k \in DOMAIN toClient' : toClient'[k] = e
        <5>1. toClient \in Seq(Packets)
          BY <1>1
        <5> QED
          BY <3>1, <5>1, AppendPlaces
      <4> QED
        BY <3>1, <4>1
    <3>2. CASE /\ scheduledIndications' = Append(scheduledIndications, ch)
               /\ toClient' = toClient
      BY <1>1, <3>2, AppendPlaces
    <3>3. CASE /\ toClient' = toClient /\ scheduledIndications' = scheduledIndications
               /\ ~Subscribed(ch, byte)
      BY <3>3
    <3> QED
      BY <2>6, <2>7, <3>1, <3>2, <3>3
  <2>9. UpdateOnItsWay'
    <3>1. SUFFICES ASSUME NEW d \in due'[rd]
                   PROVE  \/ \E k \in DOMAIN scheduledIndications' :
                               scheduledIndications'[k] = d
                          \/ \E k \in DOMAIN toClient' :
                               /\ toClient'[k].char = d
                               /\ toClient'[k].value = localAttributes'[d]
      BY <1>3 DEF UpdateOnItsWay
    <3>2. CASE d = ch
      <4>1. Subscribed(ch, byte)
        BY <2>2, <2>3, <3>2
      <4> QED
        BY <1>5, <2>8, <3>2, <4>1
    <3>3. CASE d # ch
      <4>1. d \in due[rd] /\ d \in Attributes \ {ch}
        BY <2>3, <3>3, ConfigIsAttribute
      <4>2. \/ \E k \in DOMAIN scheduledIndications : scheduledIndications[k] = d
            \/ \E k \in DOMAIN toClient :
                 toClient[k].char = d /\ toClient[k].value = localAttributes[d]
        BY <1>9, <4>1 DEF BondInv, UpdateOnItsWay
      <4>3. localAttributes'[d] = localAttributes[d]
        BY <1>5, <4>1
      <4> QED
        BY <2>8, <4>2, <4>3
    <3> QED
      BY <3>2, <3>3
  <2> QED
    BY <1>6, <1>7, <2>5, <2>9 DEF BondInv
<1> QED
  BY <1>8, <1>9

-----------------------------------------------------------------------------
(* The client is told, and writes *)

\* Only the session of the connected client changes.
LEMMA OthersKept ==
  ASSUME IInv, BondInv, remoteDevice' = remoteDevice,
         clientConfigData' = clientConfigData,
         \A c \in Clients : c # remoteDevice => asked'[c] = asked[c] /\ due'[c] = due[c]
  PROVE  Strangers' /\ StoredAway'
<1>1. Bonded \subseteq Clients
  BY ConstantsAssumption
<1>2. Strangers'
  BY DEF BondInv, Strangers, Unset
<1>3. StoredAway'
  BY <1>1 DEF BondInv, StoredAway, KeptFor
<1> QED
  BY <1>2, <1>3

LEMMA ClientReceivesKeepsBond ==
  ASSUME IInv, BondInv, ClientReceives
  PROVE  BondInv'
<1> DEFINE p == Head(toClient)
           rd == remoteDevice
<1>1. state = "Connected" /\ rd \in Clients
  BY ReceivingIsConnected DEF ClientReceives
<1>2. /\ toClient \in Seq(Packets) /\ toClient # <<>> /\ toClient' = Tail(toClient)
      /\ due \in [Clients -> SUBSET Chars]
      /\ UNCHANGED <<state, scheduledIndications, clientConfigData, remoteDevice, asked>>
      /\ localAttributes' = localAttributes /\ localServices' = localServices
  BY DEF ClientReceives, IInv, TypeOK, session, database
<1>3. /\ due'[rd] = IF p.value = localAttributes[p.char] THEN due[rd] \ {p.char}
                    ELSE due[rd]
      /\ \A c \in Clients : c # rd => due'[c] = due[c]
  BY <1>1, <1>2 DEF ClientReceives
<1>4. Strangers' /\ StoredAway'
  BY <1>2, <1>3, OthersKept
<1>5. InForce'
  BY <1>1, <1>2, <1>3 DEF BondInv, InForce
<1>6. UpdateOnItsWay'
  <2>1. SUFFICES ASSUME NEW ch \in due'[rd]
                 PROVE  \/ \E k \in DOMAIN scheduledIndications :
                             scheduledIndications[k] = ch
                        \/ \E k \in DOMAIN toClient' :
                             /\ toClient'[k].char = ch
                             /\ toClient'[k].value = localAttributes[ch]
    BY <1>2 DEF UpdateOnItsWay
  <2>2. ch \in due[rd] /\ ~(p.char = ch /\ p.value = localAttributes[ch])
    BY <1>3, <2>1
  <2>3. CASE \E k \in DOMAIN scheduledIndications : scheduledIndications[k] = ch
    BY <2>3
  <2>4. CASE \E k \in DOMAIN toClient :
               toClient[k].char = ch /\ toClient[k].value = localAttributes[ch]
    <3>1. PICK k \in DOMAIN toClient :
            toClient[k].char = ch /\ toClient[k].value = localAttributes[ch]
      BY <2>4
    <3>2. toClient[k] # p
      BY <2>2, <3>1
    <3>3. \E j \in DOMAIN Tail(toClient) : Tail(toClient)[j] = toClient[k]
      BY <1>2, <3>2, TailPlaces
    <3> QED
      BY <1>2, <3>1, <3>3
  <2> QED
    BY <1>1, <2>2, <2>3, <2>4 DEF BondInv, UpdateOnItsWay
<1> QED
  BY <1>4, <1>5, <1>6 DEF BondInv

LEMMA ConfirmationKeepsBond ==
  ASSUME IInv, BondInv, Confirmation
  PROVE  BondInv'
<1>1. state = "Connected" /\ remoteDevice \in Clients /\ TypeOK /\ Database
  BY ReceivingIsConnected DEF Confirmation, IInv, SessionInv
<1>2. /\ UNCHANGED <<state, clientConfigData, remoteDevice, asked, due>>
      /\ localAttributes' = localAttributes /\ localServices' = localServices
      /\ toClient \in Seq(Packets) /\ scheduledIndications \in Seq(Chars)
  BY <1>1 DEF Confirmation, TypeOK, database, observer
<1>3. Strangers' /\ StoredAway'
  BY <1>2, OthersKept
<1>4. InForce'
  BY <1>2 DEF BondInv, InForce
<1>5. CASE UNCHANGED <<scheduledIndications, toClient>>
  <2>1. UpdateOnItsWay'
    BY <1>2, <1>5 DEF BondInv, UpdateOnItsWay
  <2> QED
    BY <1>3, <1>4, <2>1 DEF BondInv
<1>6. CASE scheduledIndications # <<>> /\ SendNextIndication
  <2> DEFINE ch == Head(scheduledIndications)
             p == Packet("indication", ch, localAttributes[ch])
  <2>1. /\ scheduledIndications' = Tail(scheduledIndications)
        /\ toClient' = Append(toClient, p)
    BY <1>6 DEF SendNextIndication
  <2>2. ch \in Chars
    BY <1>2, <1>6, HeadTailProperties
  <2>3. localAttributes[ch] \in Values
    BY <1>1, <1>6, <2>2, ConfigIsAttribute DEF Database, TypeOK
  <2> HIDE DEF ch
  <2>4. p \in Packets /\ p.char = ch /\ p.value = localAttributes[ch]
    BY <2>2, <2>3, PacketType
  <2> HIDE DEF p
  <2>5. /\ \A k \in DOMAIN toClient : k \in DOMAIN toClient' /\ toClient'[k] = toClient[k]
        /\ \E k \in DOMAIN toClient' : toClient'[k] = p
    BY <1>2, <2>1, <2>4, AppendPlaces
  <2>6. SUFFICES ASSUME NEW d \in due[remoteDevice]
                 PROVE  \/ \E k \in DOMAIN scheduledIndications' :
                             scheduledIndications'[k] = d
                        \/ \E k \in DOMAIN toClient' :
                             /\ toClient'[k].char = d
                             /\ toClient'[k].value = localAttributes[d]
    BY <1>2, <1>3, <1>4 DEF BondInv, UpdateOnItsWay
  <2>7. CASE d = ch
    BY <2>4, <2>5, <2>7
  <2>8. CASE d # ch /\ \E k \in DOMAIN scheduledIndications : scheduledIndications[k] = d
    <3>1. PICK k \in DOMAIN scheduledIndications : scheduledIndications[k] = d
      BY <2>8
    <3>2. \E j \in DOMAIN Tail(scheduledIndications) : Tail(scheduledIndications)[j] = d
      BY <1>2, <1>6, <2>8, <3>1, TailPlaces DEF ch
    <3> QED
      BY <2>1, <3>2
  <2>9. CASE \E k \in DOMAIN toClient :
               toClient[k].char = d /\ toClient[k].value = localAttributes[d]
    BY <2>5, <2>9
  <2> QED
    BY <1>1, <2>7, <2>8, <2>9 DEF BondInv, UpdateOnItsWay
<1> QED
  BY <1>5, <1>6 DEF Confirmation, SendNextIndication

\* What the client writes to a configuration is in force and asked for; what it
\* writes to a characteristic it need not be told of.
LEMMA ClientWroteKeepsBond ==
  ASSUME IInv, BondInv, state = "Connected", localServices # None,
         localAttributes = localServices,
         NEW attributes \in SUBSET Attributes, NEW values \in DB, values # None,
         \A a \in Attributes \ attributes : values[a] = localAttributes[a],
         localServices' = values, localAttributes' = values,
         ClientWrote(attributes, values),
         UNCHANGED <<state, scheduledIndications, toClient, clientConfigData,
                     remoteDevice>>
  PROVE  BondInv'
<1> DEFINE rd == remoteDevice
<1>1. /\ rd \in Clients /\ asked \in [Clients -> [Chars -> Bytes]]
      /\ due \in [Clients -> SUBSET Chars]
  BY Idle DEF IInv, TypeOK
<1>2. /\ asked'[rd] = [ch \in Chars |-> IF Config[ch] \in attributes
                                          THEN values[Config[ch]][1] ELSE asked[rd][ch]]
      /\ \A c \in Clients : c # rd => asked'[c] = asked[c]
  BY <1>1 DEF ClientWrote
<1>3. /\ due'[rd] = {ch \in due[rd] : ch \notin attributes /\ Subscribed(ch, asked'[rd][ch])}
      /\ \A c \in Clients : c # rd => due'[c] = due[c]
  BY <1>1 DEF ClientWrote
<1>4. Strangers' /\ StoredAway'
  BY <1>2, <1>3, OthersKept
<1>5. ASSUME NEW ch \in Chars
      PROVE  values[Config[ch]][1] = asked'[rd][ch]
  <2>1. CASE Config[ch] \in attributes
    BY <1>2, <2>1
  <2>2. CASE Config[ch] \notin attributes
    <3>1. values[Config[ch]] = localServices[Config[ch]]
      BY <2>2, ConfigIsAttribute
    <3>2. localServices[Config[ch]][1] = asked[rd][ch]
      BY DEF BondInv, InForce
    <3> QED
      BY <1>2, <2>2, <3>1, <3>2
  <2> QED
    BY <2>1, <2>2
<1>6. InForce'
  BY <1>3, <1>5 DEF InForce
<1>7. UpdateOnItsWay'
  <2>1. SUFFICES ASSUME NEW ch \in due'[rd]
                 PROVE  \/ \E k \in DOMAIN scheduledIndications :
                             scheduledIndications[k] = ch
                        \/ \E k \in DOMAIN toClient :
                             toClient[k].char = ch /\ toClient[k].value = values[ch]
    BY DEF UpdateOnItsWay
  <2>2. ch \in due[rd] /\ ch \in Chars /\ ch \notin attributes
    BY <1>1, <1>3, <2>1
  <2>3. values[ch] = localAttributes[ch]
    BY <2>2, ConfigIsAttribute
  <2> QED
    BY <2>2, <2>3 DEF BondInv, UpdateOnItsWay
<1> QED
  BY <1>4, <1>6, <1>7 DEF BondInv

LEMMA WriteRequestKeepsBond ==
  ASSUME IInv, BondInv, NEW a \in Attributes, NEW value \in WritesOf(a),
         WriteRequestOrCommand(a, value)
  PROVE  BondInv'
<1> DEFINE all == [localAttributes EXCEPT ![a] = Written(a, localAttributes[a], value)]
<1>1. /\ all \in DB /\ all # None
      /\ \A b \in Attributes \ {a} : all[b] = localAttributes[b]
      /\ localServices' = all /\ localAttributes' = all
      /\ ClientWrote({a}, all)
  BY WriteRequestWrites
<1> HIDE DEF all
<1>2. state = "Connected"
  BY ReceivingIsConnected DEF WriteRequestOrCommand
<1>3. localServices # None /\ localAttributes = localServices
  BY BothCopies DEF WriteRequestOrCommand, None
<1>4. UNCHANGED <<state, scheduledIndications, toClient, clientConfigData, remoteDevice>>
  BY DEF WriteRequestOrCommand, session, channel
<1>5. {a} \in SUBSET Attributes
  OBVIOUS
<1> QED
  BY <1>1, <1>2, <1>3, <1>4, <1>5, ClientWroteKeepsBond

LEMMA SameSessionKeepsBond ==
  ASSUME BondInv,
         UNCHANGED <<state, database, scheduledIndications, toClient,
                     clientConfigData, remoteDevice, asked, due>>
  PROVE  BondInv'
BY DEF BondInv, Strangers, InForce, StoredAway, KeptFor, UpdateOnItsWay, Unset, database

LEMMA ExecuteKeepsBond ==
  ASSUME IInv, BondInv, NEW flush \in BOOLEAN, ExecuteWriteRequest(flush)
  PROVE  BondInv'
<1>1. UNCHANGED <<state, scheduledIndications, toClient, clientConfigData, remoteDevice>>
  BY DEF ExecuteWriteRequest, channel
<1>2. CASE flush
  <2> DEFINE done == Executed[Len(openPrepareWriteRequests)]
  <2>1. state = "Connected" /\ localAttributes # None
    BY ReceivingIsConnected DEF ExecuteWriteRequest, IInv, SessionInv, Database
  <2>2. localServices # None /\ localAttributes = localServices
    BY <2>1, BothCopies
  <2>3. flush = TRUE
    BY <1>2
  <2>4. /\ Sound(done) /\ done.values # None
        /\ localServices' = done.values /\ localAttributes' = done.values
        /\ ClientWrote(done.written, done.values)
    BY <2>3, ExecuteWrites
  <2> HIDE DEF done
  <2>5. /\ done.values \in DB /\ done.written \in SUBSET Attributes
        /\ \A a \in Attributes \ done.written : done.values[a] = localAttributes[a]
    BY <2>4 DEF Sound
  <2> QED
    BY <1>1, <2>1, <2>2, <2>4, <2>5, ClientWroteKeepsBond
<1>3. CASE ~flush
  BY <1>1, <1>3, SameSessionKeepsBond DEF ExecuteWriteRequest, database, observer
<1> QED
  BY <1>2, <1>3

-----------------------------------------------------------------------------
(* Theorems *)

LEMMA NextKeepsBond ==
  ASSUME ConfigsStored, IInv, BondInv, [Next]_vars
  PROVE  BondInv'
<1>1. CASE UNCHANGED vars
  BY <1>1, SameSessionKeepsBond DEF vars, session, channel, database, observer
<1>2. CASE \/ AddService \/ StopAdvertising
           \/ \E data \in AdvData, connectable \in BOOLEAN :
                StartAdvertising(data, connectable)
  BY <1>2, NotConnectedKeeps
<1>3. CASE \E client \in Clients : ConnectionRequest(client)
  BY <1>3, ConnectionRequestKeepsBond
<1>4. CASE \/ DisconnectFromDevice \/ UnexpectedPacket
           \/ NetworkError \/ RemoteHostClosed \/ Unwind
  BY <1>4, EndsKeep
<1>5. CASE \E ch \in Chars, value \in AppValues : WriteCharacteristic(ch, value)
  BY <1>5, WriteCharacteristicKeepsBond
<1>6. CASE ClientReceives
  BY <1>6, ClientReceivesKeepsBond
<1>7. CASE Confirmation
  BY <1>7, ConfirmationKeepsBond
<1>8. CASE \E a \in Attributes : \E value \in WritesOf(a) :
             WriteRequestOrCommand(a, value)
  BY <1>8, WriteRequestKeepsBond
<1>9. CASE \E a \in Attributes : \E value \in WritesOf(a) :
             \E offset \in 0..MaxLength : PrepareWriteRequest(a, offset, value)
  BY <1>9, SameSessionKeepsBond DEF PrepareWriteRequest, channel, observer
<1>10. CASE \E flush \in BOOLEAN : ExecuteWriteRequest(flush)
  BY <1>10, ExecuteKeepsBond
<1> QED
  BY <1>1, <1>2, <1>3, <1>4, <1>5, <1>6, <1>7, <1>8, <1>9, <1>10 DEF Next

LEMMA BondInvariance ==
  ASSUME ConfigsStored
  PROVE  Spec => []BondInv
<1>1. Init => BondInv
  BY ConstantsAssumption
  DEF Init, BondInv, Strangers, InForce, StoredAway, KeptFor, UpdateOnItsWay, Unset,
      NoConfiguration
<1>2. IInv /\ BondInv /\ [Next]_vars => BondInv'
  BY NextKeepsBond
<1> QED
  BY <1>1, <1>2, Invariance, PTL DEF Spec

\* What the application writes to a characteristic is on its way to the subscribed
\* client that is connected: in a packet with the value the characteristic has now,
\* or behind an indication that is not confirmed.  Nothing overtakes or drops it,
\* whether it was written during this session or while a bonded client was away.
THEOREM UpdatesOnTheirWay ==
  ASSUME ConfigsStored
  PROVE  Spec => []UpdateOnItsWay
<1>1. BondInv => UpdateOnItsWay
  BY DEF BondInv
<1> QED
  BY <1>1, BondInvariance, PTL

\* storeClientConfigurations() and restoreClientConfigurations(): a bonded client
\* that comes back finds the configuration it last wrote in force, one without a
\* bond the default, and what the client has missed is sent to it.
THEOREM BondsKept ==
  ASSUME ConfigsStored
  PROVE  Spec => []BondKept
<1>1. BondInv => BondKept
  BY DEF BondInv, InForce, BondedConfigKept, BondKept
<1> QED
  BY <1>1, BondInvariance, PTL

=============================================================================
