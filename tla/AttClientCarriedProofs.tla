------------------------ MODULE AttClientCarriedProofs ------------------------
(***************************************************************************)
(* Proofs about AttClient for every value of its constants: a call of the  *)
(* application and each discovery hang on exactly one request of the queue,*)
(* and a session leaves nothing behind.  A theorem names the hazards of    *)
(* Environment it excludes; with them the code breaks the property.        *)
(*                                                                         *)
(* The first part is about what an answer does to the queue: the request   *)
(* it answers is followed by one that carries its discovery or its call    *)
(* on, by the value reads of its service, or by nothing when the discovery *)
(* ends or the call is settled.                                            *)
(***************************************************************************)
EXTENDS AttClientProofs, SequenceCounts

-----------------------------------------------------------------------------
(* The requests that are counted *)

CallRequests(i) == {r \in Requests : r.op = i}
GroupRequests == {r \in Requests : r.cmd = "READ_BY_GROUP"}
DiscoveryRequests(s) == {r \in Requests : DiscoveryRequest(r, s)}
Carriers(s) == {r \in Requests : Carries(r, s)}

AccessCommands == {"READ", "READ_BLOB", "WRITE", "PREPARE_WRITE", "EXECUTE_WRITE"}
ReadCommands == {"READ", "READ_BLOB"}

\* A request for a call of the application is an access to a value, a read for
\* one is never taken for the last of a discovery run.
WellFormed ==
  {r \in Requests :
     /\ r.op # 0 => /\ r.cmd \in AccessCommands
                    /\ r.op <= Len(calls)
                    /\ r.cmd \in ReadCommands =>
                         r.arg = "next" /\ svc[ServiceForHandle(r.target)] = "Discovered"
     /\ r.op = 0 /\ r.cmd \in ReadCommands => r.arg \in {"next", "last"}}

Owned(s) == {a \in Handles : ServiceForHandle(a) = s}

\* What an answer can list, as long as the client has not read it.
Listable(r) ==
  IF r.cmd = "READ_BY_GROUP" THEN {s \in Services : svc[s] = "unknown"}
  ELSE IF r.cmd = "READ_BY_TYPE" THEN CharsOf[r.target]
  ELSE IF r.cmd = "FIND_INFORMATION" THEN DescsOf[r.target]
  ELSE {}
AnswerFits(p) == p.items \subseteq Listable(p.req)

\* The carrier of a discovery run is behind its other requests.
QueueShape ==
  /\ openRequests \in Seq(WellFormed)
  /\ \A s \in Services : Closed(openRequests, Carriers(s), DiscoveryRequests(s))
  /\ \A s \in Services : found[s] \subseteq Owned(s)
  /\ rsp # <<>> => AnswerFits(Head(rsp))

\* DetailDiscoveryCarried and ServiceDiscoveryCarried, counted.
DetailsHang ==
  \A s \in Services :
    IF svc[s] = "Discovering" THEN Count(openRequests, Carriers(s)) = 1
                              ELSE Count(openRequests, DiscoveryRequests(s)) = 0
ListingHangs ==
  Count(openRequests, GroupRequests) = IF state = "Discovering" THEN 1 ELSE 0

ChainInv == IInv /\ QueueShape /\ DetailsHang

\* OpenCallQueued, counted.
CallsHang ==
  \A i \in DOMAIN calls :
    Count(openRequests, CallRequests(i)) = IF calls[i].result = "open" THEN 1 ELSE 0

\* Only the first request after a disconnect in a slot can be overdue, and the
\* peer answers every Read Blob request with a value.
BlobsAnswered ==
  /\ "loss" \notin Environment =>
       (requestPending /\ wire = <<>> /\ rsp = <<>> =>
          Head(openRequests).cmd # "READ_BLOB")
  /\ rsp # <<>> /\ Head(rsp).cmd = "READ_BLOB" => Head(rsp).err = "none"

CallsInv == ChainInv /\ CallsHang /\ BlobsAnswered

\* What a session without a channel looks like when no slot has disconnected.
Orphaned ==
  ~socketOpen =>
    /\ openRequests = <<>> /\ ~requestPending
    /\ NothingKnown
    /\ state \in {"Unconnected", "Closing"}

-----------------------------------------------------------------------------
(* The constructors *)

LEMMA Owners ==
  /\ \A s \in Services : CharsOf[s] \subseteq Owned(s)
  /\ \A c \in Chars : DescsOf[c] \subseteq Owned(ServiceForHandle(c))
<1>1. ASSUME NEW s \in Services, NEW a \in CharsOf[s]
      PROVE  a \in Owned(s)
  <2>1. a \in Chars /\ a \in Handles
    BY DEF Chars, Handles
  <2>2. ASSUME NEW t \in Services,
               a \in CharsOf[t] \/ \E c \in CharsOf[t] : a \in DescsOf[c]
        PROVE  t = s
    <3>1. a \notin Descs
      BY <2>1, ConstantsAssumption
    <3>2. ~ \E c \in CharsOf[t] : a \in DescsOf[c]
      BY <3>1 DEF Descs, Chars
    <3> QED
      BY <2>2, <3>2, ConstantsAssumption
  <2>3. ServiceForHandle(a) = s
    BY <2>2 DEF ServiceForHandle
  <2> QED
    BY <2>1, <2>3 DEF Owned
<1>2. ASSUME NEW c \in Chars, NEW d \in DescsOf[c]
      PROVE  d \in Owned(ServiceForHandle(c))
  <2>1. PICK s \in Services : c \in CharsOf[s]
    BY DEF Chars
  <2>2. ServiceForHandle(c) = s
    BY <1>1, <2>1 DEF Owned
  <2>3. d \in Descs /\ d \in Handles /\ d \notin Chars
    BY ConstantsAssumption DEF Descs, Handles
  <2>4. ASSUME NEW t \in Services,
               d \in CharsOf[t] \/ \E e \in CharsOf[t] : d \in DescsOf[e]
        PROVE  t = s
    <3>1. PICK e \in CharsOf[t] : d \in DescsOf[e]
      BY <2>3, <2>4 DEF Chars
    <3>2. e \in Chars
      BY DEF Chars
    <3>3. e = c
      BY <3>1, <3>2, ConstantsAssumption
    <3> QED
      BY <2>1, <3>3, ConstantsAssumption
  <2>5. ServiceForHandle(d) = s
    BY <2>1, <2>4 DEF ServiceForHandle
  <2> QED
    BY <2>2, <2>3, <2>5 DEF Owned
<1> QED
  BY <1>1, <1>2

\* A request belongs to the discovery of one service at most, and for none when
\* it is made for a call.
LEMMA OneDiscovery ==
  ASSUME NEW r \in WellFormed, NEW s \in Services, DiscoveryRequest(r, s)
  PROVE  /\ r.op = 0 /\ r.cmd # "READ_BY_GROUP"
         /\ \A t \in Services : DiscoveryRequest(r, t) => t = s
BY DEF WellFormed, DiscoveryRequest, AccessCommands

LEMMA CarrierIsDiscovery ==
  ASSUME NEW r, NEW s, Carries(r, s)
  PROVE  DiscoveryRequest(r, s)
BY DEF Carries

LEMMA ListRequestsShape ==
  /\ MtuReq \in WellFormed /\ MtuReq.op = 0 /\ MtuReq.cmd = "EXCHANGE_MTU"
  /\ \A type \in Arguments :
       /\ GroupReq(type) \in WellFormed /\ GroupReq(type).op = 0
       /\ GroupReq(type).cmd = "READ_BY_GROUP"
  /\ \A s \in Services, type \in Arguments, page \in Nat :
       LET e == TypeReq(s, type, page) IN
       /\ e \in WellFormed /\ e.op = 0 /\ e.cmd = "READ_BY_TYPE" /\ e.target = s
  /\ \A c \in Chars :
       LET e == FindReq(c) IN
       /\ e \in WellFormed /\ e.op = 0 /\ e.cmd = "FIND_INFORMATION"
       /\ e.target = c
BY ListRequestsTyped
DEF WellFormed, ReadCommands, MtuReq, GroupReq, TypeReq, FindReq, Req

LEMMA DiscoveryReadShape ==
  ASSUME NEW a \in Handles, NEW last \in BOOLEAN
  PROVE  LET e == ReadReq(a, last, 0) IN
         /\ e \in WellFormed /\ e.op = 0 /\ e.cmd = "READ" /\ e.target = a
         /\ \A s \in Services :
              /\ DiscoveryRequest(e, s) <=> ServiceForHandle(a) = s
              /\ Carries(e, s) <=> ServiceForHandle(a) = s /\ last
<1>1. 0 \in 0..MaxCalls
  BY ConstantsAssumption
<1>2. ReadReq(a, last, 0) \in Requests
  BY <1>1, AccessRequestsTyped
<1> QED
  BY <1>2 DEF WellFormed, ReadReq, Req, Carries, DiscoveryRequest

\* A request of another command, or for a call, has no part in a discovery.
LEMMA NoDiscovery ==
  ASSUME NEW r, r.op # 0 \/ r.cmd \notin ReadCommands,
         r.cmd \notin {"READ_BY_TYPE", "FIND_INFORMATION"}
  PROVE  \A s \in Services : ~DiscoveryRequest(r, s) /\ ~Carries(r, s)
BY DEF DiscoveryRequest, Carries, ReadCommands

LEMMA TypeFindDiscovery ==
  ASSUME NEW r, NEW s,
         \/ r.cmd = "READ_BY_TYPE" /\ r.target = s
         \/ r.cmd = "FIND_INFORMATION" /\ ServiceForHandle(r.target) = s
  PROVE  Carries(r, s) /\ DiscoveryRequest(r, s)
BY DEF DiscoveryRequest, Carries

\* Requests stay well formed while discovered services stay discovered.
LEMMA WellFormedGrows ==
  ASSUME \A s \in Services : svc[s] = "Discovered" => svc'[s] = "Discovered",
         Len(calls) \in Nat, Len(calls') \in Nat, Len(calls) <= Len(calls')
  PROVE  WellFormed \subseteq WellFormed'
<1> SUFFICES ASSUME NEW r \in WellFormed PROVE r \in WellFormed'
  OBVIOUS
<1>1. r \in Requests /\ r.op \in Nat
  BY RequestFields, ConstantsAssumption DEF WellFormed
<1>2. r.cmd \in ReadCommands => ServiceForHandle(r.target) \in Services
  BY <1>1, RequestFields, HandleOwner DEF ReadCommands
<1>3. r.op # 0 => r.op <= Len(calls')
  BY <1>1 DEF WellFormed
<1> QED
  BY <1>1, <1>2, <1>3 DEF WellFormed

LEMMA SettleLen ==
  ASSUME calls \in Seq(Calls), NEW op, NEW result \in Results
  PROVE  /\ DOMAIN Settle(op, result) = DOMAIN calls
         /\ Len(Settle(op, result)) = Len(calls)
         /\ \A i \in DOMAIN calls :
              Settle(op, result)[i].result
                 = IF i = op THEN result ELSE calls[i].result
<1>1. CASE op \in DOMAIN calls
  <2>1. op \in 1..Len(calls) /\ DOMAIN calls = 1..Len(calls)
    BY <1>1, LenProperties
  <2>2. calls[op] \in Calls
    BY <2>1, ElementOfSeq
  <2>3. [calls[op] EXCEPT !.result = result] \in Calls
    BY <2>2 DEF Calls
  <2>4. Settle(op, result) = [calls EXCEPT ![op] = [calls[op] EXCEPT !.result = result]]
    BY <1>1 DEF Settle
  <2>5. /\ Settle(op, result) \in Seq(Calls)
        /\ Len(Settle(op, result)) = Len(calls)
        /\ \A i \in 1..Len(calls) :
             Settle(op, result)[i]
                = IF i = op THEN [calls[op] EXCEPT !.result = result] ELSE calls[i]
    BY <2>1, <2>3, <2>4, ExceptSeq
  <2>6. DOMAIN Settle(op, result) = 1..Len(calls)
    BY <2>5, LenProperties
  <2>7. [calls[op] EXCEPT !.result = result].result = result
    BY <2>2 DEF Calls
  <2> QED
    BY <2>1, <2>5, <2>6, <2>7
<1>2. CASE op \notin DOMAIN calls
  BY <1>2 DEF Settle
<1> QED
  BY <1>1, <1>2

-----------------------------------------------------------------------------
(* What an answer to r does to the queue, of which rest is left.             *)

\* Service objects appear, nothing else happens to them.
ServicesListed ==
  \A s \in Services :
    svc'[s] = svc[s] \/ (svc[s] = "unknown" /\ svc'[s] = "RemoteService")

SameChain(e, r) ==
  /\ e.op = r.op
  /\ e.cmd = "READ_BY_GROUP" <=> r.cmd = "READ_BY_GROUP"
  /\ \A s \in Services : /\ DiscoveryRequest(e, s) <=> DiscoveryRequest(r, s)
                         /\ Carries(e, s) <=> Carries(r, s)

\* One request takes the place of r: in front, or behind the others.
Followed(r, rest) ==
  /\ \E e \in WellFormed :
       /\ SameChain(e, r)
       /\ \/ openRequests' = <<e>> \o rest
          \/ /\ openRequests' = Append(rest, e)
             /\ \A s \in Services : DiscoveryRequest(e, s) => Carries(e, s)
  /\ ServicesListed
  /\ UNCHANGED <<state, calls>>

\* The value reads of a service take the place of r.
Spread(r, rest) ==
  /\ \E s \in Services, reads \in Seq(WellFormed) :
       /\ Carries(r, s)
       /\ \A k \in 1..Len(reads) :
            /\ reads[k].op = 0 /\ reads[k].cmd = "READ"
            /\ \A t \in Services : DiscoveryRequest(reads[k], t) => t = s
       /\ Count(reads, Carriers(s)) = 1
       /\ Closed(reads, Carriers(s), DiscoveryRequests(s))
       /\ openRequests' = rest \o reads
  /\ UNCHANGED <<state, svc, calls>>

\* Nothing takes its place: its service is discovered, its listing is complete,
\* or its call is settled.
Finished(r, rest) ==
  /\ \E s \in Services :
       Carries(r, s) /\ svc' = [svc EXCEPT ![s] = "Discovered"]
  /\ openRequests' = rest
  /\ UNCHANGED <<state, calls>>
ListingEnds(r, rest) ==
  /\ r.cmd = "READ_BY_GROUP" /\ state' = "Discovered"
  /\ openRequests' = rest
  /\ ServicesListed
  /\ calls' = calls
Settled(r, p, rest) ==
  /\ r.cmd # "READ_BY_GROUP" /\ \A s \in Services : ~Carries(r, s)
  /\ \/ \E result \in {"ok", "error"} : calls' = Settle(r.op, result)
     \/ r.cmd = "READ_BLOB" /\ p.err # "none" /\ calls' = calls
  /\ openRequests' = rest
  /\ UNCHANGED <<state, svc>>

Advances(r, p, rest) ==
  \/ Followed(r, rest) \/ Spread(r, rest) \/ Finished(r, rest)
  \/ ListingEnds(r, rest) \/ Settled(r, p, rest)

\* What the handlers find: the head of the queue and the answer to it.
Answering(r, p, rest) ==
  /\ TypeOK
  /\ r \in WellFormed /\ rest \in Seq(WellFormed)
  /\ p \in Answers /\ p.cmd = r.cmd /\ p.req = r /\ AnswerFits(p)
  /\ \A s \in Services : found[s] \subseteq Owned(s)
  /\ \A s \in Services : DiscoveryRequest(r, s) => svc[s] = "Discovering"

LEMMA ContinueQueue ==
  ASSUME NEW q, Continue(q)
  PROVE  openRequests' = q
BY DEF Continue, SendNextPendingRequest

LEMMA NothingListed ==
  ASSUME svc' = svc
  PROVE  ServicesListed
BY DEF ServicesListed

\* The search for descriptors follows, or the discovery ends.
LEMMA DescriptorsAdvance ==
  ASSUME NEW r \in WellFormed, NEW p, NEW rest, NEW s \in Services, Carries(r, s),
         NEW chars \in SUBSET Chars, chars \subseteq Owned(s),
         DiscoverServiceDescriptors(s, chars, rest), UNCHANGED <<state, calls>>
  PROVE  Advances(r, p, rest)
<1>1. CASE ServiceDiscovered(s) /\ Continue(rest)
  BY <1>1, ContinueQueue DEF ServiceDiscovered, Finished, Advances
<1>2. CASE /\ \E c \in chars : IsFirst(c, chars) /\ Continue(Append(rest, FindReq(c)))
           /\ svc' = svc
  <2>1. PICK c \in chars : Continue(Append(rest, FindReq(c)))
    BY <1>2
  <2> DEFINE e == FindReq(c)
  <2>2. /\ e \in WellFormed /\ e.op = 0 /\ e.cmd = "FIND_INFORMATION"
        /\ e.target = c /\ ServiceForHandle(c) = s
    BY ListRequestsShape DEF Owned
  <2> HIDE DEF e
  <2>3. Carries(e, s) /\ DiscoveryRequest(e, s) /\ DiscoveryRequest(r, s)
    BY <2>2, TypeFindDiscovery, CarrierIsDiscovery
  <2>4. \A t \in Services :
          /\ DiscoveryRequest(e, t) <=> t = s
          /\ DiscoveryRequest(r, t) <=> t = s
          /\ Carries(e, t) <=> t = s
          /\ Carries(r, t) <=> t = s
    BY <2>2, <2>3, OneDiscovery, CarrierIsDiscovery
  <2>5. SameChain(e, r)
    BY <2>2, <2>3, <2>4, OneDiscovery DEF SameChain
  <2>6. openRequests' = Append(rest, e)
    BY <2>1, ContinueQueue DEF e
  <2>7. Followed(r, rest)
    BY <1>2, <2>2, <2>4, <2>5, <2>6, NothingListed DEF Followed
  <2> QED
    BY <2>7 DEF Advances
<1> QED
  BY <1>1, <1>2 DEF DiscoverServiceDescriptors

\* readServiceValues() flags the last of its reads.
LEMMA ReadsSpread ==
  ASSUME NEW s \in Services, NEW targets \in SUBSET Handles,
         targets \subseteq Owned(s), targets # {},
         NEW reads \in ReadRequests(targets)
  PROVE  /\ reads \in Seq(WellFormed)
         /\ \A k \in 1..Len(reads) :
              /\ reads[k].op = 0 /\ reads[k].cmd = "READ"
              /\ \A t \in Services : DiscoveryRequest(reads[k], t) => t = s
         /\ Count(reads, Carriers(s)) = 1
         /\ Closed(reads, Carriers(s), DiscoveryRequests(s))
<1> DEFINE n == Cardinality(targets)
<1>1. n \in Nat /\ n # 0
  BY ConstantsAssumption, FS_Subset, FS_CardinalityType, FS_EmptySet
<1>2. PICK f \in HashOrders(targets) :
        reads = [i \in 1..n |-> ReadReq(f[i], i = n, 0)]
  BY DEF ReadRequests
<1>3. f \in [1..n -> targets]
  BY <1>2 DEF HashOrders
<1>4. ASSUME NEW i \in 1..n
      PROVE  /\ reads[i] \in WellFormed /\ reads[i] \in Requests
             /\ reads[i].op = 0 /\ reads[i].cmd = "READ"
             /\ \A t \in Services : DiscoveryRequest(reads[i], t) => t = s
             /\ Carries(reads[i], s) <=> i = n
  <2> DEFINE last == i = n
             e == ReadReq(f[i], last, 0)
  <2>1. f[i] \in Handles /\ ServiceForHandle(f[i]) = s /\ last \in BOOLEAN
    BY <1>3 DEF Owned
  <2>2. reads[i] = e
    BY <1>2
  <2> HIDE DEF last
  <2>3. /\ e \in WellFormed /\ e.op = 0 /\ e.cmd = "READ"
        /\ \A t \in Services : DiscoveryRequest(e, t) <=> s = t
        /\ Carries(e, s) <=> last
    BY <2>1, DiscoveryReadShape
  <2>4. e \in Requests
    BY <2>3 DEF WellFormed
  <2> QED
    BY <2>2, <2>3, <2>4 DEF last
<1>5. reads \in [1..n -> WellFormed]
  BY <1>2, <1>4
<1>6. reads \in Seq(WellFormed) /\ Len(reads) = n /\ DOMAIN reads = 1..n
  BY <1>1, <1>5, SeqDef
<1>7. Places(reads, Carriers(s)) = {n}
  BY <1>1, <1>4, <1>6 DEF Places, Carriers
<1>8. Count(reads, Carriers(s)) = 1
  BY <1>6, <1>7, CountOne
<1>9. Closed(reads, Carriers(s), DiscoveryRequests(s))
  BY <1>1, <1>4, <1>6 DEF Closed, Carriers
<1> QED
  BY <1>4, <1>6, <1>8, <1>9

LEMMA ReadValuesAdvance ==
  ASSUME NEW r \in WellFormed, NEW p, NEW rest, NEW s \in Services, Carries(r, s),
         NEW readCharacteristics \in BOOLEAN,
         NEW known \in SUBSET Handles, known \subseteq Owned(s),
         ReadServiceValues(s, readCharacteristics, known, rest),
         UNCHANGED <<state, calls>>
  PROVE  Advances(r, p, rest)
<1> DEFINE targets == IF mode[s] = "skip" THEN {}
                      ELSE IF readCharacteristics THEN known \cap Readable
                      ELSE known \ Chars
<1>1. targets \in SUBSET Handles /\ targets \subseteq Owned(s)
  OBVIOUS
<1>2. CASE /\ targets # {}
           /\ \E reads \in ReadRequests(targets) : Continue(rest \o reads)
           /\ svc' = svc
  <2>1. PICK reads \in ReadRequests(targets) : Continue(rest \o reads)
    BY <1>2
  <2>2. openRequests' = rest \o reads
    BY <2>1, ContinueQueue
  <2> HIDE DEF targets
  <2>3. Spread(r, rest)
    BY <1>1, <1>2, <2>2, ReadsSpread DEF Spread
  <2> QED
    BY <2>3 DEF Advances
<1>3. CASE DiscoverServiceDescriptors(s, known \cap Chars, rest)
  BY <1>3, DescriptorsAdvance
<1>4. CASE ServiceDiscovered(s) /\ Continue(rest)
  BY <1>4, ContinueQueue DEF ServiceDiscovered, Finished, Advances
<1> QED
  BY <1>2, <1>3, <1>4 DEF ReadServiceValues

LEMMA AfterLastReadAdvances ==
  ASSUME NEW r, NEW p, NEW rest, Answering(r, p, rest),
         r.cmd \in ReadCommands, r.op = 0, r.arg = "last",
         AfterLastRead(r, rest), UNCHANGED <<state, calls>>
  PROVE  Advances(r, p, rest)
<1> DEFINE s == ServiceForHandle(r.target)
<1>1. r \in WellFormed /\ r.target \in Handles /\ s \in Services
  BY RequestFields, HandleOwner DEF Answering, WellFormed, ReadCommands
<1>2. Carries(r, s)
  BY DEF Carries, DiscoveryRequest, ReadCommands
<1>3. found[s] \cap Chars \in SUBSET Chars /\ found[s] \cap Chars \subseteq Owned(s)
  BY <1>1 DEF Answering
<1>4. CASE DiscoverServiceDescriptors(s, found[s] \cap Chars, rest)
  BY <1>1, <1>2, <1>3, <1>4, DescriptorsAdvance
<1>5. CASE ServiceDiscovered(s) /\ Continue(rest)
  BY <1>1, <1>2, <1>5, ContinueQueue DEF ServiceDiscovered, Finished, Advances
<1> QED
  BY <1>4, <1>5 DEF AfterLastRead

\* The request is repeated, or the next part of its value is read.
LEMMA RepeatedAdvances ==
  ASSUME NEW r, NEW p, NEW rest, NEW e \in WellFormed, SameChain(e, r),
         openRequests' = <<e>> \o rest, UNCHANGED <<state, svc, calls>>
  PROVE  Advances(r, p, rest)
BY NothingListed DEF Followed, Advances

LEMMA RaiseAdvances ==
  ASSUME NEW r, NEW p, NEW rest, Answering(r, p, rest), RaiseSecurity(r, p, rest)
  PROVE  Advances(r, p, rest)
<1>1. openRequests' = <<r>> \o rest /\ UNCHANGED <<state, svc, calls>>
  BY DEF RaiseSecurity, SendNextPendingRequest
<1>2. SameChain(r, r) /\ r \in WellFormed
  BY DEF SameChain, Answering
<1> QED
  BY <1>1, <1>2, RepeatedAdvances

LEMMA BlobAdvances ==
  ASSUME NEW r, NEW p, NEW rest, Answering(r, p, rest), r.cmd \in ReadCommands,
         Continue(<<BlobReq(r)>> \o rest), UNCHANGED <<state, svc, calls>>
  PROVE  Advances(r, p, rest)
<1> DEFINE e == BlobReq(r)
<1>1. r \in Requests /\ r \in WellFormed
  BY DEF Answering, WellFormed
<1>2. /\ e \in Requests
      /\ e.cmd = "READ_BLOB" /\ e.target = r.target /\ e.arg = r.arg /\ e.op = r.op
  BY <1>1, BlobTyped DEF BlobReq, Req, ReadCommands
<1> HIDE DEF e
<1>3. e \in WellFormed
  BY <1>1, <1>2 DEF WellFormed, AccessCommands, ReadCommands
<1>4. SameChain(e, r)
  BY <1>2 DEF SameChain, DiscoveryRequest, Carries, ReadCommands
<1>5. openRequests' = <<e>> \o rest
  BY ContinueQueue DEF e
<1> QED
  BY <1>3, <1>4, <1>5, RepeatedAdvances

-----------------------------------------------------------------------------
(* processReply(), one lemma per opcode                                      *)

FoundKept == \A s \in Services : found'[s] \subseteq Owned(s)

LEMMA FoundUnchanged ==
  ASSUME NEW r, NEW p, NEW rest, Answering(r, p, rest), found' = found
  PROVE  FoundKept
BY DEF Answering, FoundKept

LEMMA GroupAdvances ==
  ASSUME NEW r, NEW p, NEW rest, Answering(r, p, rest),
         r.cmd = "READ_BY_GROUP", ReadByGroupReply(r, p, rest)
  PROVE  Advances(r, p, rest) /\ FoundKept
<1>1. r \in WellFormed /\ r.arg \in Arguments /\ r.op = 0
      /\ "secondary" \in Arguments
  BY RequestFields DEF Answering, WellFormed, AccessCommands, Arguments
<1>2. FoundKept /\ calls' = calls
  BY FoundUnchanged DEF ReadByGroupReply
<1>3. p.items \subseteq {s \in Services : svc[s] = "unknown"}
  BY DEF Answering, AnswerFits, Listable
<1>4. ServicesListed
  BY <1>3 DEF ReadByGroupReply, ServicesListed
<1>5. ASSUME NEW type \in Arguments, Continue(Append(rest, GroupReq(type))),
             state' = state
      PROVE  Advances(r, p, rest)
  <2> DEFINE e == GroupReq(type)
  <2>1. e \in WellFormed /\ e.op = 0 /\ e.cmd = "READ_BY_GROUP"
    BY ListRequestsShape
  <2>2. openRequests' = Append(rest, e)
    BY <1>5, ContinueQueue
  <2> HIDE DEF e
  <2>3. \A s \in Services : /\ ~DiscoveryRequest(e, s) /\ ~Carries(e, s)
                            /\ ~DiscoveryRequest(r, s) /\ ~Carries(r, s)
    BY <2>1, NoDiscovery DEF ReadCommands
  <2>4. SameChain(e, r)
    BY <1>1, <2>1, <2>3 DEF SameChain
  <2> QED
    BY <1>2, <1>4, <1>5, <2>1, <2>2, <2>3, <2>4 DEF Followed, Advances
<1>6. ASSUME Continue(rest), state' = "Discovered"
      PROVE  Advances(r, p, rest)
  BY <1>2, <1>4, <1>6, ContinueQueue DEF ListingEnds, Advances
<1> QED
  BY <1>1, <1>2, <1>5, <1>6 DEF ReadByGroupReply

LEMMA TypeAdvances ==
  ASSUME NEW r, NEW p, NEW rest, Answering(r, p, rest),
         r.cmd = "READ_BY_TYPE", ReadByTypeReply(r, p, rest)
  PROVE  Advances(r, p, rest) /\ FoundKept
<1> DEFINE s == r.target
           known == found[s] \cup p.items
<1>1. /\ r \in WellFormed /\ r \in Requests /\ s \in Services
      /\ r.arg \in Arguments /\ r.op = 0 /\ r.off + 1 \in Nat
      /\ "characteristic" \in Arguments /\ 0 \in Nat
  BY RequestFields DEF Answering, WellFormed, AccessCommands, Arguments
<1>2. p.items \subseteq CharsOf[s]
  BY DEF Answering, AnswerFits, Listable
<1>3. known \subseteq Owned(s) /\ known \in SUBSET Handles
  BY <1>1, <1>2, Owners DEF Answering, Owned
<1>4. FoundKept
  BY <1>1, <1>3 DEF ReadByTypeReply, FoundKept, Answering, TypeOK
<1> SUFFICES Advances(r, p, rest)
  BY <1>4
<1>5. Carries(r, s) /\ UNCHANGED <<state, calls>>
  BY TypeFindDiscovery DEF ReadByTypeReply
<1>6. ASSUME NEW type \in Arguments, NEW page \in Nat,
             Continue(Append(rest, TypeReq(s, type, page))), svc' = svc
      PROVE  Advances(r, p, rest)
  <2> DEFINE e == TypeReq(s, type, page)
  <2>1. e \in WellFormed /\ e.op = 0 /\ e.cmd = "READ_BY_TYPE" /\ e.target = s
    BY <1>1, ListRequestsShape
  <2>2. openRequests' = Append(rest, e)
    BY <1>6, ContinueQueue
  <2> HIDE DEF e
  <2>3. SameChain(e, r) /\ \A t \in Services : DiscoveryRequest(e, t) => Carries(e, t)
    BY <1>1, <2>1 DEF SameChain, DiscoveryRequest, Carries
  <2> QED
    BY <1>5, <1>6, <2>1, <2>2, <2>3, NothingListed DEF Followed, Advances
<1>7. CASE ReadServiceValues(s, TRUE, known, rest)
  BY <1>1, <1>3, <1>5, <1>7, ReadValuesAdvance
<1>8. CASE ServiceDiscovered(s) /\ Continue(rest)
  BY <1>1, <1>5, <1>8, ContinueQueue DEF ServiceDiscovered, Finished, Advances
<1> QED
  BY <1>1, <1>4, <1>6, <1>7, <1>8 DEF ReadByTypeReply

LEMMA FindAdvances ==
  ASSUME NEW r, NEW p, NEW rest, Answering(r, p, rest),
         r.cmd = "FIND_INFORMATION", FindInformationReply(r, p, rest)
  PROVE  Advances(r, p, rest) /\ FoundKept
<1> DEFINE s == ServiceForHandle(r.target)
           known == found[s] \cup p.items
           later == {c \in found[s] \cap Chars : c > r.target}
<1>1. /\ r \in WellFormed /\ r.target \in Chars /\ s \in Services /\ r.op = 0
  BY RequestFields, CharOwner DEF Answering, WellFormed, AccessCommands
<1>2. p.items \subseteq DescsOf[r.target]
  BY DEF Answering, AnswerFits, Listable
<1>3. known \subseteq Owned(s) /\ known \in SUBSET Handles
  BY <1>1, <1>2, Owners DEF Answering, Owned
<1>4. FoundKept
  BY <1>1, <1>3 DEF FindInformationReply, FoundKept, Answering, TypeOK
<1> SUFFICES Advances(r, p, rest)
  BY <1>4
<1>5. Carries(r, s) /\ DiscoveryRequest(r, s) /\ UNCHANGED <<state, calls>>
  BY TypeFindDiscovery DEF FindInformationReply
<1>6. ASSUME NEW c \in Chars, ServiceForHandle(c) = s,
             Continue(Append(rest, FindReq(c))), svc' = svc
      PROVE  Advances(r, p, rest)
  <2> DEFINE e == FindReq(c)
  <2>1. /\ e \in WellFormed /\ e.op = 0 /\ e.cmd = "FIND_INFORMATION"
        /\ ServiceForHandle(e.target) = s
    BY <1>6, ListRequestsShape
  <2>2. openRequests' = Append(rest, e)
    BY <1>6, ContinueQueue
  <2> HIDE DEF e
  <2>3. SameChain(e, r) /\ \A t \in Services : DiscoveryRequest(e, t) => Carries(e, t)
    BY <1>1, <2>1 DEF SameChain, DiscoveryRequest, Carries
  <2> QED
    BY <1>5, <1>6, <2>1, <2>2, <2>3, NothingListed DEF Followed, Advances
<1>7. CASE ReadServiceValues(s, FALSE, known, rest)
  BY <1>1, <1>3, <1>5, <1>7, ReadValuesAdvance
<1>8. \A c \in later : c \in Chars /\ ServiceForHandle(c) = s
  BY <1>1 DEF Answering, Owned
<1> QED
  BY <1>1, <1>4, <1>6, <1>7, <1>8 DEF FindInformationReply

\* A request that carries no discovery is settled.
LEMMA SettledAdvances ==
  ASSUME NEW r, NEW p, NEW rest, Answering(r, p, rest),
         r.cmd # "READ_BY_GROUP", \A s \in Services : ~Carries(r, s),
         NEW result \in {"ok", "error"}, calls' = Settle(r.op, result),
         Continue(rest), UNCHANGED <<state, svc>>
  PROVE  Advances(r, p, rest)
<1>1. openRequests' = rest
  BY ContinueQueue
<1> QED
  BY <1>1 DEF Settled, Advances

LEMMA NothingToSettle ==
  ASSUME calls \in Seq(Calls), NEW result
  PROVE  Settle(0, result) = calls
<1>1. 0 \notin DOMAIN calls
  BY LenProperties
<1> QED
  BY <1>1 DEF Settle

LEMMA ReadAdvances ==
  ASSUME NEW r, NEW p, NEW rest, Answering(r, p, rest), r.cmd = "READ",
         ReadReply(r, p, rest)
  PROVE  Advances(r, p, rest) /\ FoundKept
<1> DEFINE s == ServiceForHandle(r.target)
           discoveryRun == svc[s] # "Discovered"
           result == IF p.err = "none" THEN "ok" ELSE "error"
<1>1. r \in WellFormed /\ r.target \in Handles /\ s \in Services
  BY RequestFields, HandleOwner DEF Answering, WellFormed
<1>2. /\ r.op = 0 => discoveryRun /\ r.arg \in {"next", "last"}
      /\ r.op # 0 => ~discoveryRun /\ r.arg = "next"
  BY <1>1 DEF Answering, DiscoveryRequest, WellFormed, ReadCommands
<1>3. FoundKept
  BY FoundUnchanged DEF ReadReply, RaiseSecurity
<1> SUFFICES Advances(r, p, rest)
  BY <1>3
<1>4. CASE RaiseSecurity(r, p, rest)
  BY <1>4, RaiseAdvances
<1>5. CASE Continue(<<BlobReq(r)>> \o rest) /\ UNCHANGED <<state, svc, found, calls>>
  BY <1>5, BlobAdvances DEF ReadCommands
<1>6. CASE /\ IF discoveryRun /\ r.arg = "last"
                THEN AfterLastRead(r, rest)
                ELSE Continue(rest) /\ svc' = svc
           /\ calls' = IF discoveryRun THEN calls ELSE Settle(r.op, result)
           /\ UNCHANGED <<state, found>>
  <2>1. CASE discoveryRun /\ r.arg = "last"
    BY <1>2, <1>6, <2>1, AfterLastReadAdvances DEF ReadCommands
  <2>2. CASE ~(discoveryRun /\ r.arg = "last")
    <3>1. r.arg # "last"
      BY <1>2, <2>2
    <3>2. \A t \in Services : ~Carries(r, t)
      BY <3>1 DEF Carries
    <3>3. result \in {"ok", "error"} /\ calls \in Seq(Calls)
      BY DEF Answering, TypeOK
    <3>4. calls' = Settle(r.op, result)
      BY <1>2, <1>6, <3>3, NothingToSettle
    <3> HIDE DEF result
    <3> QED
      BY <1>6, <2>2, <3>2, <3>3, <3>4, SettledAdvances
  <2> QED
    BY <2>1, <2>2
<1> QED
  BY <1>3, <1>4, <1>5, <1>6 DEF ReadReply

LEMMA ReadBlobAdvances ==
  ASSUME NEW r, NEW p, NEW rest, Answering(r, p, rest), r.cmd = "READ_BLOB",
         ReadBlobReply(r, p, rest)
  PROVE  Advances(r, p, rest) /\ FoundKept
<1> DEFINE s == ServiceForHandle(r.target)
           discoveryRun == svc[s] # "Discovered"
<1>1. r \in WellFormed /\ r.target \in Handles /\ s \in Services
      /\ calls \in Seq(Calls)
  BY RequestFields, HandleOwner DEF Answering, WellFormed, TypeOK
<1>2. /\ r.op = 0 => discoveryRun /\ r.arg \in {"next", "last"}
      /\ r.op # 0 => ~discoveryRun /\ r.arg = "next"
  BY <1>1 DEF Answering, DiscoveryRequest, WellFormed, ReadCommands
<1>3. FoundKept /\ state' = state
  BY FoundUnchanged DEF ReadBlobReply
<1> SUFFICES Advances(r, p, rest)
  BY <1>3
<1>4. CASE Continue(<<BlobReq(r)>> \o rest) /\ UNCHANGED <<state, svc, found, calls>>
  BY <1>4, BlobAdvances DEF ReadCommands
<1>5. CASE /\ ~discoveryRun /\ calls' = Settle(r.op, "ok")
           /\ Continue(rest) /\ UNCHANGED <<state, svc, found>>
  <2>1. \A t \in Services : ~Carries(r, t)
    BY <1>2, <1>5 DEF Carries
  <2> QED
    BY <1>5, <2>1, SettledAdvances
<1>6. CASE /\ p.err # "none" \/ discoveryRun
           /\ IF r.arg = "last" THEN AfterLastRead(r, rest)
                                ELSE Continue(rest) /\ svc' = svc
           /\ UNCHANGED <<state, found, calls>>
  <2>1. CASE r.arg = "last"
    BY <1>2, <1>6, <2>1, AfterLastReadAdvances DEF ReadCommands
  <2>2. CASE r.arg # "last"
    <3>1. \A t \in Services : ~Carries(r, t)
      BY <2>2 DEF Carries
    <3>2. openRequests' = rest
      BY <1>6, <2>2, ContinueQueue
    <3>3. CASE r.op = 0
      BY <1>1, <1>6, <2>2, <3>1, <3>3, NothingToSettle, SettledAdvances
    <3>4. CASE r.op # 0
      BY <1>2, <1>6, <2>2, <3>1, <3>2, <3>4 DEF Settled, Advances
    <3> QED
      BY <3>3, <3>4
  <2> QED
    BY <2>1, <2>2
<1> QED
  BY <1>3, <1>4, <1>5, <1>6 DEF ReadBlobReply

\* The writes and the MTU exchange have no part in a discovery.
LEMMA WritesAdvance ==
  ASSUME NEW r, NEW p, NEW rest, Answering(r, p, rest),
         \/ r.cmd = "WRITE" /\ WriteReply(r, p, rest)
         \/ r.cmd = "PREPARE_WRITE" /\ PrepareWriteReply(r, p, rest)
         \/ r.cmd = "EXECUTE_WRITE" /\ ExecuteWriteReply(r, p, rest)
         \/ r.cmd = "EXCHANGE_MTU" /\ ExchangeMtuReply(rest)
  PROVE  Advances(r, p, rest) /\ FoundKept
<1>1. r \in WellFormed /\ r \in Requests /\ calls \in Seq(Calls)
  BY DEF Answering, WellFormed, TypeOK
<1>2. \A s \in Services : ~DiscoveryRequest(r, s) /\ ~Carries(r, s)
  BY NoDiscovery DEF ReadCommands
<1>3. FoundKept
  BY FoundUnchanged
  DEF WriteReply, PrepareWriteReply, ExecuteWriteReply, ExchangeMtuReply,
      RaiseSecurity
<1> SUFFICES Advances(r, p, rest)
  BY <1>3
<1>4. ASSUME r.cmd \in {"WRITE", "PREPARE_WRITE", "EXECUTE_WRITE", "EXCHANGE_MTU"},
             NEW result \in {"ok", "error"}, calls' = Settle(r.op, result),
             Continue(rest), UNCHANGED <<state, svc>>
      PROVE  Advances(r, p, rest)
  BY <1>2, <1>4, SettledAdvances
<1>5. CASE r.cmd = "WRITE" /\ WriteReply(r, p, rest)
  BY <1>4, <1>5, RaiseAdvances DEF WriteReply
<1>6. CASE r.cmd = "EXECUTE_WRITE" /\ ExecuteWriteReply(r, p, rest)
  BY <1>4, <1>6 DEF ExecuteWriteReply
<1>7. CASE r.cmd = "EXCHANGE_MTU" /\ ExchangeMtuReply(rest)
  <2>1. r.op = 0
    BY <1>1, <1>7 DEF WellFormed, AccessCommands
  <2> QED
    BY <1>1, <1>4, <1>7, <2>1, NothingToSettle DEF ExchangeMtuReply
<1>8. CASE r.cmd = "PREPARE_WRITE" /\ PrepareWriteReply(r, p, rest)
  <2>1. r.target \in Handles /\ r.op \in 0..MaxCalls /\ r.off + 1 \in Nat
    BY <1>1, <1>8, RequestFields
  <2>2. ASSUME NEW e \in Requests, e.op = r.op,
               e.cmd \in {"PREPARE_WRITE", "EXECUTE_WRITE"}
        PROVE  /\ e \in WellFormed /\ SameChain(e, r)
               /\ \A s \in Services : ~DiscoveryRequest(e, s)
    <3>1. \A s \in Services : ~DiscoveryRequest(e, s) /\ ~Carries(e, s)
      BY <2>2, NoDiscovery DEF ReadCommands
    <3> QED
      BY <1>1, <1>2, <1>8, <2>2, <3>1
      DEF SameChain, WellFormed, AccessCommands, ReadCommands
  <2>3. ASSUME NEW flag \in Arguments, UNCHANGED <<state, svc, calls>>,
               Continue(<<ExecuteReq(r.target, r.op, flag)>> \o rest)
        PROVE  Advances(r, p, rest)
    <3> DEFINE e == ExecuteReq(r.target, r.op, flag)
    <3>1. e \in Requests /\ e.op = r.op /\ e.cmd = "EXECUTE_WRITE"
      BY <2>1, AccessRequestsTyped DEF ExecuteReq, Req
    <3>2. openRequests' = <<e>> \o rest
      BY <2>3, ContinueQueue
    <3> HIDE DEF e
    <3> QED
      BY <2>2, <2>3, <3>1, <3>2, RepeatedAdvances
  <2>4. ASSUME UNCHANGED <<state, svc, calls>>,
               Continue(Append(rest, PrepareReq(r.target, r.op, r.off + 1)))
        PROVE  Advances(r, p, rest)
    <3> DEFINE e == PrepareReq(r.target, r.op, r.off + 1)
    <3>1. e \in Requests /\ e.op = r.op /\ e.cmd = "PREPARE_WRITE"
      BY <2>1, AccessRequestsTyped DEF PrepareReq, Req
    <3>2. openRequests' = Append(rest, e)
      BY <2>4, ContinueQueue
    <3> HIDE DEF e
    <3> QED
      BY <2>2, <2>4, <3>1, <3>2, NothingListed DEF Followed, Advances
  <2>5. "cancel" \in Arguments /\ "commit" \in Arguments
    BY DEF Arguments
  <2> QED
    BY <1>8, <2>3, <2>4, <2>5, RaiseAdvances DEF PrepareWriteReply
<1> QED
  BY <1>3, <1>5, <1>6, <1>7, <1>8

LEMMA ReplyAdvances ==
  ASSUME NEW r, NEW p, NEW rest, Answering(r, p, rest), ProcessReply(r, p, rest)
  PROVE  Advances(r, p, rest) /\ FoundKept
<1>1. p.cmd = r.cmd
  BY DEF Answering
<1> QED
  BY <1>1, GroupAdvances, TypeAdvances, FindAdvances, ReadAdvances,
     ReadBlobAdvances, WritesAdvance
  DEF ProcessReply

-----------------------------------------------------------------------------
(* An answer preserves the chains                                            *)

\* What the invariant says of the head of the queue and of the rest.
Front(r, rest) ==
  openRequests # <<>> /\ r = Head(openRequests) /\ rest = Tail(openRequests)

LEMMA FrontTyped ==
  ASSUME ChainInv, NEW r, NEW rest, Front(r, rest)
  PROVE  r \in WellFormed /\ r \in Requests /\ rest \in Seq(WellFormed)
<1>1. openRequests \in Seq(WellFormed)
  BY DEF ChainInv, QueueShape
<1> QED
  BY <1>1, HeadTailSeq DEF Front, WellFormed

LEMMA FrontCount ==
  ASSUME ChainInv, NEW r, NEW rest, Front(r, rest), NEW R
  PROVE  /\ Count(openRequests, R) = Count(rest, R) + (IF r \in R THEN 1 ELSE 0)
         /\ Count(rest, R) \in Nat
<1>1. openRequests \in Seq(WellFormed) /\ openRequests # <<>>
  BY DEF ChainInv, QueueShape, Front
<1>2. Count(openRequests, R)
        = Count(Tail(openRequests), R) + (IF Head(openRequests) \in R THEN 1 ELSE 0)
  BY <1>1, CountTail
<1>3. Count(rest, R) \in Nat
  BY FrontTyped, CountType
<1> QED
  BY <1>2, <1>3 DEF Front

LEMMA FrontChain ==
  ASSUME ChainInv, NEW r, NEW rest, Front(r, rest), NEW s \in Services
  PROVE  /\ Closed(rest, Carriers(s), DiscoveryRequests(s))
         /\ DiscoveryRequest(r, s) => svc[s] = "Discovering"
         /\ Carries(r, s) => /\ Count(rest, Carriers(s)) = 0
                             /\ Count(rest, DiscoveryRequests(s)) = 0
         /\ svc[s] = "Discovering" /\ ~Carries(r, s) =>
              Count(rest, Carriers(s)) = 1
         /\ svc[s] # "Discovering" => /\ Count(rest, DiscoveryRequests(s)) = 0
                                      /\ Count(rest, Carriers(s)) = 0
<1>1. openRequests \in Seq(WellFormed) /\ openRequests # <<>>
  BY DEF ChainInv, QueueShape, Front
<1>2. r \in Requests /\ rest \in Seq(WellFormed)
  BY FrontTyped
<1>3. Closed(openRequests, Carriers(s), DiscoveryRequests(s))
  BY DEF ChainInv, QueueShape
<1>4. /\ Closed(rest, Carriers(s), DiscoveryRequests(s))
      /\ r \in Carriers(s) => Count(rest, DiscoveryRequests(s)) = 0
  BY <1>1, <1>3, ClosedTail DEF Front
<1>5. /\ r \in Carriers(s) <=> Carries(r, s)
      /\ r \in DiscoveryRequests(s) <=> DiscoveryRequest(r, s)
      /\ Carries(r, s) => DiscoveryRequest(r, s)
  BY <1>2, CarrierIsDiscovery DEF Carriers, DiscoveryRequests
<1>6. WellFormed \cap Carriers(s) \subseteq DiscoveryRequests(s)
  BY CarrierIsDiscovery DEF Carriers, DiscoveryRequests
<1>7. Count(rest, Carriers(s)) <= Count(rest, DiscoveryRequests(s))
  BY <1>2, <1>6, CountMonotone
<1>8. IF svc[s] = "Discovering" THEN Count(openRequests, Carriers(s)) = 1
                                ELSE Count(openRequests, DiscoveryRequests(s)) = 0
  BY DEF ChainInv, DetailsHang
<1>9. /\ Count(openRequests, Carriers(s))
           = Count(rest, Carriers(s)) + (IF r \in Carriers(s) THEN 1 ELSE 0)
      /\ Count(rest, Carriers(s)) \in Nat
  BY FrontCount
<1>10. /\ Count(openRequests, DiscoveryRequests(s))
            = Count(rest, DiscoveryRequests(s))
              + (IF r \in DiscoveryRequests(s) THEN 1 ELSE 0)
       /\ Count(rest, DiscoveryRequests(s)) \in Nat
  BY FrontCount
<1> QED
  BY <1>4, <1>5, <1>7, <1>8, <1>9, <1>10

\* One request in front of the others or behind them counts the same.
LEMMA FollowerCount ==
  ASSUME NEW S, NEW rest \in Seq(S), NEW e \in S, NEW R, NEW q,
         q = <<e>> \o rest \/ q = Append(rest, e)
  PROVE  Count(q, R) = Count(rest, R) + (IF e \in R THEN 1 ELSE 0)
<1>1. CASE q = <<e>> \o rest
  BY <1>1, CountPrepend
<1>2. CASE q = Append(rest, e)
  BY <1>2, CountAppend
<1> QED
  BY <1>1, <1>2

LEMMA AdvanceGrows ==
  ASSUME TypeOK, NEW r, NEW p, NEW rest, Advances(r, p, rest)
  PROVE  /\ WellFormed \subseteq WellFormed'
         /\ Len(calls') = Len(calls) /\ DOMAIN calls' = DOMAIN calls
<1>1. calls \in Seq(Calls) /\ Len(calls) \in Nat
  BY LenProperties DEF TypeOK
<1>2. Len(calls') = Len(calls) /\ DOMAIN calls' = DOMAIN calls
  BY <1>1, SettleLen
  DEF Advances, Followed, Spread, Finished, ListingEnds, Settled, Results
<1>3. \A s \in Services : svc[s] = "Discovered" => svc'[s] = "Discovered"
  BY DEF Advances, Followed, Spread, Finished, ListingEnds, Settled,
         ServicesListed, TypeOK
<1> QED
  BY <1>1, <1>2, <1>3, WellFormedGrows

LEMMA AdvanceKeepsChains ==
  ASSUME ChainInv, NEW r, NEW rest, Front(r, rest), NEW p,
         Advances(r, p, rest), FoundKept, rsp' = <<>>
  PROVE  QueueShape' /\ DetailsHang'
<1>1. /\ r \in WellFormed /\ r \in Requests /\ rest \in Seq(WellFormed)
      /\ \A s \in Services :
           /\ Closed(rest, Carriers(s), DiscoveryRequests(s))
           /\ DiscoveryRequest(r, s) => svc[s] = "Discovering"
           /\ Carries(r, s) => /\ Count(rest, Carriers(s)) = 0
                               /\ Count(rest, DiscoveryRequests(s)) = 0
           /\ svc[s] = "Discovering" /\ ~Carries(r, s) =>
                Count(rest, Carriers(s)) = 1
           /\ svc[s] # "Discovering" => /\ Count(rest, DiscoveryRequests(s)) = 0
                                        /\ Count(rest, Carriers(s)) = 0
  BY FrontTyped, FrontChain
<1>2. WellFormed \subseteq WellFormed' /\ svc \in [Services -> ServiceStates]
  BY AdvanceGrows DEF ChainInv, IInv, TypeOK, ServiceStates
<1>3. \A e \in WellFormed, s \in Services :
        /\ e \in Carriers(s) <=> Carries(e, s)
        /\ e \in DiscoveryRequests(s) <=> DiscoveryRequest(e, s)
        /\ Carries(e, s) => DiscoveryRequest(e, s)
  BY CarrierIsDiscovery DEF Carriers, DiscoveryRequests, WellFormed
<1>4. SUFFICES /\ openRequests' \in Seq(WellFormed)
               /\ \A s \in Services :
                    /\ Closed(openRequests', Carriers(s), DiscoveryRequests(s))
                    /\ IF svc'[s] = "Discovering"
                         THEN Count(openRequests', Carriers(s)) = 1
                         ELSE Count(openRequests', DiscoveryRequests(s)) = 0
  <2>1. ASSUME openRequests' \in Seq(WellFormed)
        PROVE  openRequests' \in Seq(WellFormed')
    BY <1>2, <2>1, SeqMonotonic
  <2> QED
    BY <2>1 DEF QueueShape, DetailsHang, FoundKept
<1>5. CASE Followed(r, rest)
  <2>1. PICK e \in WellFormed :
          /\ SameChain(e, r)
          /\ \/ openRequests' = <<e>> \o rest
             \/ /\ openRequests' = Append(rest, e)
                /\ \A s \in Services : DiscoveryRequest(e, s) => Carries(e, s)
    BY <1>5 DEF Followed
  <2>2. openRequests' \in Seq(WellFormed)
    <3>1. <<e>> \o rest \in Seq(WellFormed)
      BY <1>1, PrependSeq
    <3>2. Append(rest, e) \in Seq(WellFormed)
      BY <1>1, AppendSeq
    <3> QED
      BY <2>1, <3>1, <3>2
  <2>3. ASSUME NEW s \in Services
        PROVE  /\ Closed(openRequests', Carriers(s), DiscoveryRequests(s))
               /\ IF svc'[s] = "Discovering"
                    THEN Count(openRequests', Carriers(s)) = 1
                    ELSE Count(openRequests', DiscoveryRequests(s)) = 0
    <3>0. Count(openRequests', Carriers(s))
            = Count(rest, Carriers(s)) + (IF e \in Carriers(s) THEN 1 ELSE 0)
      BY <1>1, <2>1, FollowerCount
    <3>1. Count(openRequests', DiscoveryRequests(s))
            = Count(rest, DiscoveryRequests(s))
              + (IF e \in DiscoveryRequests(s) THEN 1 ELSE 0)
      BY <1>1, <2>1, FollowerCount
    <3>2. /\ DiscoveryRequest(e, s) <=> DiscoveryRequest(r, s)
          /\ Carries(e, s) <=> Carries(r, s)
      BY <2>1 DEF SameChain
    <3>3. svc'[s] = "Discovering" <=> svc[s] = "Discovering"
      BY <1>5 DEF Followed, ServicesListed
    <3>4. Closed(openRequests', Carriers(s), DiscoveryRequests(s))
      <4>1. CASE openRequests' = <<e>> \o rest
        BY <1>1, <1>3, <3>2, <4>1, ClosedPrepend
      <4>2. CASE /\ openRequests' = Append(rest, e)
                 /\ DiscoveryRequest(e, s) => Carries(e, s)
        BY <1>1, <1>3, <3>2, <4>2, ClosedAppend
      <4> QED
        BY <2>1, <4>1, <4>2
    <3> QED
      BY <1>1, <1>3, <3>0, <3>1, <3>2, <3>3, <3>4
  <2> QED
    BY <2>2, <2>3
<1>6. CASE Spread(r, rest)
  <2>1. PICK s0 \in Services, reads \in Seq(WellFormed) :
          /\ Carries(r, s0)
          /\ \A k \in 1..Len(reads) :
               \A t \in Services : DiscoveryRequest(reads[k], t) => t = s0
          /\ Count(reads, Carriers(s0)) = 1
          /\ Closed(reads, Carriers(s0), DiscoveryRequests(s0))
          /\ openRequests' = rest \o reads
    BY <1>6 DEF Spread
  <2>2. openRequests' \in Seq(WellFormed)
    BY <1>1, <2>1, ConcatProperties
  <2>3. svc' = svc
    BY <1>6 DEF Spread
  <2>4. ASSUME NEW s \in Services, s # s0
        PROVE  /\ Count(reads, DiscoveryRequests(s)) = 0
               /\ Count(reads, Carriers(s)) = 0
               /\ ~Carries(r, s)
               /\ Closed(reads, Carriers(s), DiscoveryRequests(s))
    <3>1. \A k \in 1..Len(reads) :
            reads[k] \notin DiscoveryRequests(s) /\ reads[k] \notin Carriers(s)
      BY <2>1, <2>4, CarrierIsDiscovery DEF DiscoveryRequests, Carriers
    <3>2. DOMAIN reads = 1..Len(reads)
      BY LenProperties
    <3>3. Closed(reads, Carriers(s), DiscoveryRequests(s))
      BY <3>1, <3>2 DEF Closed
    <3>4. ~Carries(r, s)
      BY <1>1, <2>1, <2>4, CarrierIsDiscovery, OneDiscovery
    <3> QED
      BY <3>1, <3>3, <3>4, CountNone
  <2>5. ASSUME NEW s \in Services
        PROVE  /\ Closed(openRequests', Carriers(s), DiscoveryRequests(s))
               /\ IF svc'[s] = "Discovering"
                    THEN Count(openRequests', Carriers(s)) = 1
                    ELSE Count(openRequests', DiscoveryRequests(s)) = 0
    <3>0. Count(rest \o reads, Carriers(s))
            = Count(rest, Carriers(s)) + Count(reads, Carriers(s))
      BY <1>1, <2>1, CountConcat
    <3>1. Count(rest \o reads, DiscoveryRequests(s))
            = Count(rest, DiscoveryRequests(s)) + Count(reads, DiscoveryRequests(s))
      BY <1>1, <2>1, CountConcat
    <3>2. CASE s = s0
      <4>1. Count(rest, Carriers(s)) = 0 /\ svc[s] = "Discovering"
        BY <1>1, <2>1, <3>2, CarrierIsDiscovery
      <4>2. Places(rest, Carriers(s)) = {}
        BY <1>1, <4>1, CountZero
      <4>3. Closed(openRequests', Carriers(s), DiscoveryRequests(s))
        BY <1>1, <2>1, <3>2, <4>2, ClosedConcat
      <4> QED
        BY <2>1, <2>3, <3>0, <3>2, <4>1, <4>3
    <3>3. CASE s # s0
      <4>1. Places(reads, DiscoveryRequests(s)) = {}
        BY <2>4, <3>3, CountZero
      <4>2. Closed(openRequests', Carriers(s), DiscoveryRequests(s))
        BY <1>1, <2>1, <2>4, <3>3, <4>1, ClosedConcat
      <4> QED
        BY <1>1, <2>1, <2>3, <2>4, <3>0, <3>1, <3>3, <4>2
    <3> QED
      BY <3>2, <3>3
  <2> QED
    BY <2>2, <2>5
<1>7. ASSUME openRequests' = rest,
             \A s \in Services :
               \/ Carries(r, s) /\ svc'[s] # "Discovering"
               \/ ~Carries(r, s) /\ (svc'[s] = "Discovering" <=> svc[s] = "Discovering")
      PROVE  /\ openRequests' \in Seq(WellFormed)
             /\ \A s \in Services :
                  /\ Closed(openRequests', Carriers(s), DiscoveryRequests(s))
                  /\ IF svc'[s] = "Discovering"
                       THEN Count(openRequests', Carriers(s)) = 1
                       ELSE Count(openRequests', DiscoveryRequests(s)) = 0
  BY <1>1, <1>7
<1>8. CASE Finished(r, rest)
  <2>1. PICK s0 \in Services : Carries(r, s0) /\ svc' = [svc EXCEPT ![s0] = "Discovered"]
    BY <1>8 DEF Finished
  <2>2. \A s \in Services : Carries(r, s) => s = s0
    BY <1>1, <2>1, CarrierIsDiscovery, OneDiscovery
  <2> QED
    BY <1>2, <1>7, <1>8, <2>1, <2>2 DEF Finished
<1>9. CASE ListingEnds(r, rest)
  <2>1. \A s \in Services : ~Carries(r, s)
    BY <1>1, <1>9, CarrierIsDiscovery, OneDiscovery DEF ListingEnds
  <2> QED
    BY <1>7, <1>9, <2>1 DEF ListingEnds, ServicesListed
<1>10. CASE Settled(r, p, rest)
  BY <1>7, <1>10 DEF Settled
<1> QED
  BY <1>5, <1>6, <1>8, <1>9, <1>10 DEF Advances

LEMMA AdvanceKeepsListing ==
  ASSUME ChainInv, ListingHangs, NEW r, NEW rest, Front(r, rest), NEW p,
         Advances(r, p, rest)
  PROVE  ListingHangs'
<1>1. /\ r \in WellFormed /\ r \in Requests /\ rest \in Seq(WellFormed)
      /\ Count(openRequests, GroupRequests)
           = Count(rest, GroupRequests) + (IF r \in GroupRequests THEN 1 ELSE 0)
  BY FrontTyped, FrontCount
<1>2. Count(rest, GroupRequests) \in Nat
  BY <1>1, CountType
<1>3. r \in GroupRequests <=> r.cmd = "READ_BY_GROUP"
  BY <1>1 DEF GroupRequests
<1>4. CASE Followed(r, rest)
  <2>1. PICK e \in WellFormed :
          /\ e.cmd = "READ_BY_GROUP" <=> r.cmd = "READ_BY_GROUP"
          /\ openRequests' = <<e>> \o rest \/ openRequests' = Append(rest, e)
    BY <1>4 DEF Followed, SameChain
  <2>2. Count(openRequests', GroupRequests)
          = Count(rest, GroupRequests) + (IF e \in GroupRequests THEN 1 ELSE 0)
    BY <1>1, <2>1, FollowerCount
  <2>3. e \in GroupRequests <=> r \in GroupRequests
    BY <1>3, <2>1 DEF GroupRequests, WellFormed
  <2> QED
    BY <1>1, <1>4, <2>2, <2>3 DEF ListingHangs, Followed
<1>5. CASE Spread(r, rest)
  <2>1. PICK s \in Services, reads \in Seq(WellFormed) :
          /\ Carries(r, s)
          /\ \A k \in 1..Len(reads) : reads[k].cmd = "READ"
          /\ openRequests' = rest \o reads
    BY <1>5 DEF Spread
  <2>2. Count(reads, GroupRequests) = 0
    BY <2>1, CountNone DEF GroupRequests
  <2>3. Count(rest \o reads, GroupRequests)
          = Count(rest, GroupRequests) + Count(reads, GroupRequests)
    BY <1>1, <2>1, CountConcat
  <2>4. r \notin GroupRequests
    BY <1>1, <1>3, <2>1, CarrierIsDiscovery, OneDiscovery
  <2> QED
    BY <1>1, <1>2, <1>5, <2>1, <2>2, <2>3, <2>4 DEF ListingHangs, Spread
<1>6. CASE Finished(r, rest)
  <2>1. r \notin GroupRequests
    BY <1>1, <1>3, <1>6, CarrierIsDiscovery, OneDiscovery DEF Finished
  <2> QED
    BY <1>1, <1>2, <1>6, <2>1 DEF ListingHangs, Finished
<1>7. CASE ListingEnds(r, rest)
  BY <1>1, <1>2, <1>3, <1>7 DEF ListingHangs, ListingEnds
<1>8. CASE Settled(r, p, rest)
  BY <1>1, <1>2, <1>3, <1>8 DEF ListingHangs, Settled
<1> QED
  BY <1>4, <1>5, <1>6, <1>7, <1>8 DEF Advances

LEMMA AdvanceKeepsCalls ==
  ASSUME ChainInv, CallsHang, NEW r, NEW rest, Front(r, rest), NEW p,
         Advances(r, p, rest),
         r.cmd = "READ_BLOB" => p.err = "none"
  PROVE  CallsHang'
<1>1. r \in WellFormed /\ r \in Requests /\ rest \in Seq(WellFormed)
  BY FrontTyped
<1>2. calls \in Seq(Calls) /\ DOMAIN calls' = DOMAIN calls
      /\ DOMAIN calls = 1..Len(calls)
  BY AdvanceGrows, LenProperties DEF ChainInv, IInv, TypeOK
<1>3. SUFFICES ASSUME NEW i \in DOMAIN calls
               PROVE  Count(openRequests', CallRequests(i))
                        = IF calls'[i].result = "open" THEN 1 ELSE 0
  BY <1>2 DEF CallsHang
<1>4. /\ Count(openRequests, CallRequests(i))
           = Count(rest, CallRequests(i)) + (IF r \in CallRequests(i) THEN 1 ELSE 0)
      /\ Count(openRequests, CallRequests(i))
           = IF calls[i].result = "open" THEN 1 ELSE 0
      /\ Count(rest, CallRequests(i)) \in Nat
      /\ i # 0
      /\ r \in CallRequests(i) <=> r.op = i
  <2>1. /\ Count(openRequests, CallRequests(i))
             = Count(rest, CallRequests(i)) + (IF r \in CallRequests(i) THEN 1 ELSE 0)
        /\ Count(rest, CallRequests(i)) \in Nat
    BY FrontCount
  <2> QED
    BY <1>1, <1>2, <2>1 DEF CallsHang, CallRequests
<1>5. CASE Followed(r, rest)
  <2>1. PICK e \in WellFormed :
          /\ e.op = r.op
          /\ openRequests' = <<e>> \o rest \/ openRequests' = Append(rest, e)
    BY <1>5 DEF Followed, SameChain
  <2>2. Count(openRequests', CallRequests(i))
          = Count(rest, CallRequests(i)) + (IF e \in CallRequests(i) THEN 1 ELSE 0)
    BY <1>1, <2>1, FollowerCount
  <2>3. e \in CallRequests(i) <=> r \in CallRequests(i)
    BY <1>4, <2>1 DEF CallRequests, WellFormed
  <2> QED
    BY <1>4, <1>5, <2>2, <2>3 DEF Followed
<1>6. CASE Spread(r, rest)
  <2>1. PICK s \in Services, reads \in Seq(WellFormed) :
          /\ Carries(r, s)
          /\ \A k \in 1..Len(reads) : reads[k].op = 0
          /\ openRequests' = rest \o reads
    BY <1>6 DEF Spread
  <2>2. Count(reads, CallRequests(i)) = 0
    BY <1>4, <2>1, CountNone DEF CallRequests
  <2>3. Count(rest \o reads, CallRequests(i))
          = Count(rest, CallRequests(i)) + Count(reads, CallRequests(i))
    BY <1>1, <2>1, CountConcat
  <2>4. r \notin CallRequests(i)
    BY <1>1, <1>4, <2>1, CarrierIsDiscovery, OneDiscovery
  <2> QED
    BY <1>4, <1>6, <2>1, <2>2, <2>3, <2>4 DEF Spread
<1>7. CASE Finished(r, rest)
  <2>1. r \notin CallRequests(i)
    BY <1>1, <1>4, <1>7, CarrierIsDiscovery, OneDiscovery DEF Finished
  <2> QED
    BY <1>4, <1>7, <2>1 DEF Finished
<1>8. CASE ListingEnds(r, rest)
  <2>1. r \notin CallRequests(i)
    BY <1>1, <1>4, <1>8 DEF ListingEnds, WellFormed, AccessCommands
  <2> QED
    BY <1>4, <1>8, <2>1 DEF ListingEnds
<1>9. CASE Settled(r, p, rest)
  <2>1. PICK result \in {"ok", "error"} : calls' = Settle(r.op, result)
    BY <1>9 DEF Settled
  <2>2. calls'[i].result = IF i = r.op THEN result ELSE calls[i].result
    BY <1>2, <2>1, SettleLen DEF Results
  <2> QED
    BY <1>4, <1>9, <2>2 DEF Settled
<1> QED
  BY <1>5, <1>6, <1>7, <1>8, <1>9 DEF Advances

-----------------------------------------------------------------------------
(* The theorems and their invariants *)

\* Hypotheses of the theorems.  An encryption change that fails drops or
\* replaces the request at the head of the queue.
EncryptionSucceeds == MonitorsWired => "authFails" \notin Environment
NoSlotDisconnects == "slot" \notin Environment
BlobsAreServed ==
  /\ "blobError" \notin Environment
  /\ MonitorsWired => "loss" \notin Environment

-----------------------------------------------------------------------------
(* Steps that leave the queue, the services and the calls alone *)

LEMMA QueueKept ==
  ASSUME ChainInv, UNCHANGED <<openRequests, svc, found, calls>>,
         rsp' # <<>> => AnswerFits(Head(rsp'))
  PROVE  QueueShape' /\ DetailsHang'
<1>1. WellFormed' = WellFormed
  BY DEF WellFormed
<1>2. rsp' # <<>> => AnswerFits(Head(rsp))'
  BY DEF AnswerFits, Listable
<1> QED
  BY <1>1, <1>2 DEF ChainInv, QueueShape, DetailsHang

-----------------------------------------------------------------------------
(* Steps that clear the queue *)

Cleared ==
  /\ openRequests' = <<>> /\ requestPending' = FALSE
  /\ InvalidateServices
  /\ rsp' \in {<<>>, rsp}

LEMMA ClearedChains ==
  ASSUME ChainInv, Cleared
  PROVE  QueueShape' /\ DetailsHang'
<1>1. <<>> \in Seq(WellFormed')
  BY EmptySeq
<1>2. \A s \in Services :
        /\ Closed(<<>>, Carriers(s), DiscoveryRequests(s))
        /\ Count(<<>>, DiscoveryRequests(s)) = 0
        /\ svc'[s] = "unknown" /\ found'[s] = {}
  BY CountEmpty DEF Closed, Cleared, InvalidateServices
<1>3. rsp' # <<>> => AnswerFits(Head(rsp))'
  <2>1. CASE rsp' = rsp /\ rsp # <<>>
    <3>1. Head(rsp)' = Head(rsp) /\ AnswerFits(Head(rsp))
      BY <2>1 DEF ChainInv, QueueShape
    <3>2. Listable(Head(rsp).req) \subseteq Listable(Head(rsp).req)'
      BY <1>2, <2>1 DEF Listable
    <3> QED
      BY <2>1, <3>1, <3>2 DEF AnswerFits
  <2> QED
    BY <2>1 DEF Cleared
<1> QED
  BY <1>1, <1>2, <1>3 DEF Cleared, QueueShape, DetailsHang

LEMMA DroppedCalls ==
  ASSUME calls \in Seq(Calls), calls' = DropOpenCalls
  PROVE  \A i \in DOMAIN calls' : i # 0 /\ calls'[i].result # "open"
<1> SUFFICES ASSUME NEW i \in DOMAIN calls'
             PROVE  i # 0 /\ calls'[i].result # "open"
  OBVIOUS
<1>1. i \in 1..Len(calls) /\ i \in DOMAIN calls
  BY LenProperties DEF DropOpenCalls
<1>2. calls[i] \in Calls
  BY <1>1, ElementOfSeq
<1>3. calls[i].result = "open" => [calls[i] EXCEPT !.result = "dropped"].result # "open"
  BY <1>2 DEF Calls
<1> QED
  BY <1>1, <1>3 DEF DropOpenCalls

LEMMA ClearedCalls ==
  ASSUME CallsInv, Cleared
  PROVE  CallsHang' /\ BlobsAnswered'
<1>1. calls \in Seq(Calls) /\ calls' = DropOpenCalls
  BY DEF CallsInv, ChainInv, IInv, TypeOK, Cleared, InvalidateServices
<1>2. \A i \in DOMAIN calls' : calls'[i].result # "open"
  BY <1>1, DroppedCalls
<1>3. \A i : Count(<<>>, CallRequests(i)) = 0
  BY CountEmpty
<1>4. CallsHang'
  BY <1>2, <1>3 DEF Cleared, CallsHang
<1>5. BlobsAnswered'
  BY DEF Cleared, CallsInv, BlobsAnswered
<1> QED
  BY <1>4, <1>5

\* The operations and events that end in a cleared queue.
LEMMA ClearingSteps ==
  ASSUME L2cpConnectedWriteFails \/ DisconnectFromDevice \/ RemoteHostClosed
           \/ NetworkError \/ UnexpectedReply
  PROVE  /\ Cleared
         /\ state' \in {"Unconnected", "Connected", "Closing"}
         /\ ~socketOpen' => state' \in {"Unconnected", "Closing"}
BY DEF L2cpConnectedWriteFails, DisconnectFromDevice, RemoteHostClosed,
       NetworkError, UnexpectedReply, L2cpDisconnected, ResetController,
       CloseChannel, Cleared

\* A disconnect in a slot leaves the queue empty or with one listing request.
LEMMA SlotLeaves ==
  ASSUME IInv, DisconnectInSlot
  PROVE  \/ openRequests' = <<>>
         \/ \E e \in Requests :
              /\ openRequests' = <<e>> /\ e.op = 0
              /\ e.cmd = "READ_BY_GROUP"
<1>1. Head(openRequests).arg \in Arguments /\ "secondary" \in Arguments
  BY InFlight, RequestFields DEF DisconnectInSlot, Arguments
<1>2. \A type \in Arguments :
        /\ GroupReq(type) \in Requests /\ GroupReq(type).op = 0
        /\ GroupReq(type).cmd = "READ_BY_GROUP"
  BY ListRequestsShape, ListRequestsTyped
<1> QED
  BY <1>1, <1>2 DEF DisconnectInSlot

LEMMA SlotChains ==
  ASSUME ChainInv, DisconnectInSlot
  PROVE  QueueShape' /\ DetailsHang'
<1>1. /\ rsp' = <<>>
      /\ \A s \in Services : found'[s] = {} /\ svc'[s] # "Discovering"
  BY DEF DisconnectInSlot, CloseChannel
<1>2. CASE openRequests' = <<>>
  <2>1. <<>> \in Seq(WellFormed')
    BY EmptySeq
  <2>2. \A s \in Services :
          /\ Closed(<<>>, Carriers(s), DiscoveryRequests(s))
          /\ Count(<<>>, DiscoveryRequests(s)) = 0
    BY CountEmpty DEF Closed
  <2> QED
    BY <1>1, <1>2, <2>1, <2>2 DEF QueueShape, DetailsHang
<1>3. ASSUME NEW e \in Requests, openRequests' = <<e>>, e.op = 0,
             e.cmd = "READ_BY_GROUP"
      PROVE  QueueShape' /\ DetailsHang'
  <2>1. e \in WellFormed' /\ <<e>> \in Seq(WellFormed')
    BY <1>3 DEF WellFormed, ReadCommands
  <2>2. ASSUME NEW s \in Services
        PROVE  /\ Closed(<<e>>, Carriers(s), DiscoveryRequests(s))
               /\ Count(<<e>>, DiscoveryRequests(s)) = 0
    <3>1. e \notin DiscoveryRequests(s)
      BY <1>3 DEF DiscoveryRequests, DiscoveryRequest
    <3> QED
      BY <3>1, ClosedSingleton, CountSingleton
  <2> QED
    BY <1>1, <1>3, <2>1, <2>2 DEF QueueShape, DetailsHang
<1> QED
  BY <1>2, <1>3, SlotLeaves DEF ChainInv

LEMMA SlotCalls ==
  ASSUME CallsInv, DisconnectInSlot
  PROVE  CallsHang' /\ BlobsAnswered'
<1>1. calls \in Seq(Calls) /\ calls' = DropOpenCalls /\ IInv
  BY DEF CallsInv, ChainInv, IInv, TypeOK, DisconnectInSlot
<1>2. \A i \in DOMAIN calls' : i # 0 /\ calls'[i].result # "open"
  BY <1>1, DroppedCalls
<1>3. rsp' = <<>> /\ (requestPending' => openRequests' # <<>>)
  BY DEF DisconnectInSlot, CloseChannel
<1>4. CASE openRequests' = <<>>
  <2>1. \A i : Count(<<>>, CallRequests(i)) = 0
    BY CountEmpty
  <2> QED
    BY <1>2, <1>3, <1>4, <2>1 DEF CallsHang, BlobsAnswered
<1>5. ASSUME NEW e \in Requests, openRequests' = <<e>>, e.op = 0,
             e.cmd = "READ_BY_GROUP"
      PROVE  CallsHang' /\ BlobsAnswered'
  <2>1. ASSUME NEW i, i # 0
        PROVE  Count(<<e>>, CallRequests(i)) = 0
    <3>1. e \notin CallRequests(i)
      BY <1>5, <2>1 DEF CallRequests
    <3> QED
      BY <3>1, CountSingleton
  <2>2. Head(<<e>>) = e
    OBVIOUS
  <2> QED
    BY <1>2, <1>3, <1>5, <2>1, <2>2 DEF CallsHang, BlobsAnswered
<1> QED
  BY <1>1, <1>4, <1>5, SlotLeaves

-----------------------------------------------------------------------------
(* Steps that enqueue a request *)

\* The queue gets longer by a request e, and no discovered service is lost.
LEMMA AppendedShape ==
  ASSUME ChainInv, NEW e \in WellFormed', openRequests' = Append(openRequests, e),
         WellFormed \subseteq WellFormed',
         \A s \in Services : DiscoveryRequest(e, s) =>
           Count(openRequests, Carriers(s)) = 0,
         FoundKept, rsp' \in {<<>>, rsp},
         \A s \in Services : svc'[s] = "unknown" <=> svc[s] = "unknown"
  PROVE  QueueShape'
<1>1. openRequests \in Seq(WellFormed') /\ openRequests' \in Seq(WellFormed')
  <2>1. openRequests \in Seq(WellFormed')
    BY SeqMonotonic DEF ChainInv, QueueShape
  <2> QED
    BY <2>1, AppendSeq
<1>2. ASSUME NEW s \in Services
      PROVE  Closed(openRequests', Carriers(s), DiscoveryRequests(s))
  <2>1. Closed(openRequests, Carriers(s), DiscoveryRequests(s))
    BY DEF ChainInv, QueueShape
  <2>2. e \in DiscoveryRequests(s) => Count(openRequests, Carriers(s)) = 0
    BY DEF DiscoveryRequests
  <2>3. Closed(Append(openRequests, e), Carriers(s), DiscoveryRequests(s))
    BY <1>1, <2>1, <2>2, ClosedAppend
  <2> QED
    BY <2>3
<1>3. rsp' # <<>> => AnswerFits(Head(rsp))'
  <2>1. CASE rsp' = rsp /\ rsp # <<>>
    <3>1. Head(rsp)' = Head(rsp) /\ AnswerFits(Head(rsp))
      BY <2>1 DEF ChainInv, QueueShape
    <3>2. Listable(Head(rsp).req) = Listable(Head(rsp).req)'
      BY <2>1 DEF Listable
    <3> QED
      BY <2>1, <3>1, <3>2 DEF AnswerFits
  <2> QED
    BY <2>1
<1> QED
  BY <1>1, <1>2, <1>3 DEF QueueShape, FoundKept

\* A request that is for no discovery leaves the chains alone.
LEMMA OtherAppended ==
  ASSUME ChainInv, NEW e \in WellFormed', openRequests' = Append(openRequests, e),
         \A s \in Services : ~DiscoveryRequest(e, s),
         Len(calls) <= Len(calls'), calls' \in Seq(Calls),
         UNCHANGED <<svc, found>>, rsp' \in {<<>>, rsp}
  PROVE  QueueShape' /\ DetailsHang'
<1>1. calls \in Seq(Calls) /\ Len(calls) \in Nat /\ Len(calls') \in Nat
  BY LenProperties DEF ChainInv, IInv, TypeOK
<1>2. WellFormed \subseteq WellFormed'
  BY <1>1, WellFormedGrows
<1>3. FoundKept
  BY DEF ChainInv, QueueShape, FoundKept
<1>4. QueueShape'
  BY <1>2, <1>3, AppendedShape
<1>5. openRequests \in Seq(WellFormed')
  BY <1>2, SeqMonotonic DEF ChainInv, QueueShape
<1>6. ASSUME NEW s \in Services
      PROVE  /\ Count(openRequests', Carriers(s)) = Count(openRequests, Carriers(s))
             /\ Count(openRequests', DiscoveryRequests(s))
                  = Count(openRequests, DiscoveryRequests(s))
  <2>1. e \notin Carriers(s) /\ e \notin DiscoveryRequests(s)
    BY CarrierIsDiscovery DEF Carriers, DiscoveryRequests
  <2>2. Count(Append(openRequests, e), Carriers(s))
          = Count(openRequests, Carriers(s)) + 0
    BY <1>5, <2>1, CountAppend
  <2>3. Count(Append(openRequests, e), DiscoveryRequests(s))
          = Count(openRequests, DiscoveryRequests(s)) + 0
    BY <1>5, <2>1, CountAppend
  <2>4. /\ Count(openRequests, Carriers(s)) \in Nat
        /\ Count(openRequests, DiscoveryRequests(s)) \in Nat
    BY <1>5, CountType
  <2> QED
    BY <2>2, <2>3, <2>4
<1>7. DetailsHang'
  BY <1>6 DEF ChainInv, DetailsHang
<1> QED
  BY <1>4, <1>7

\* discoverDetails() starts a chain with its first request.
LEMMA DetailsChains ==
  ASSUME ChainInv, NEW s0 \in Services, DiscoverDetails(s0)
  PROVE  QueueShape' /\ DetailsHang'
<1> DEFINE e == TypeReq(s0, "include", 0)
<1>1. /\ svc[s0] = "RemoteService" /\ svc' = [svc EXCEPT ![s0] = "Discovering"]
      /\ svc \in [Services -> ServiceStates]
      /\ openRequests' = Append(openRequests, e)
      /\ rsp' = rsp /\ calls' = calls
  BY DEF DiscoverDetails, Enqueue, SendNextPendingRequest, ChainInv, IInv,
         TypeOK, ServiceStates
<1>2. /\ e \in WellFormed /\ e.op = 0 /\ e.cmd = "READ_BY_TYPE"
      /\ e.target = s0
  BY ListRequestsShape DEF Arguments
<1> HIDE DEF e
<1>3. calls \in Seq(Calls) /\ Len(calls) \in Nat /\ Len(calls') \in Nat
  BY <1>1, LenProperties DEF ChainInv, IInv, TypeOK
<1>4. WellFormed \subseteq WellFormed'
  BY <1>1, <1>3, WellFormedGrows
<1>5. openRequests \in Seq(WellFormed)
  BY DEF ChainInv, QueueShape
<1>6. \A s \in Services : /\ DiscoveryRequest(e, s) <=> s = s0
                          /\ Carries(e, s) <=> s = s0
  BY <1>2 DEF DiscoveryRequest, Carries, ReadCommands
<1>7. ASSUME NEW s \in Services
      PROVE  /\ e \in Carriers(s) <=> s = s0
             /\ e \in DiscoveryRequests(s) <=> s = s0
  BY <1>2, <1>6 DEF Carriers, DiscoveryRequests, WellFormed
<1>8. Count(openRequests, Carriers(s0)) = 0
  <2>1. Count(openRequests, DiscoveryRequests(s0)) = 0
    BY <1>1 DEF ChainInv, DetailsHang
  <2>2. WellFormed \cap Carriers(s0) \subseteq DiscoveryRequests(s0)
    BY CarrierIsDiscovery DEF Carriers, DiscoveryRequests
  <2>3. Count(openRequests, Carriers(s0)) <= Count(openRequests, DiscoveryRequests(s0))
    BY <1>5, <2>2, CountMonotone
  <2>4. Count(openRequests, Carriers(s0)) \in Nat
    BY <1>5, CountType
  <2> QED
    BY <2>1, <2>3, <2>4
<1>9. FoundKept
  BY DEF DiscoverDetails, ChainInv, QueueShape, FoundKept, IInv, TypeOK
<1>10. QueueShape'
  BY <1>1, <1>2, <1>4, <1>6, <1>8, <1>9, AppendedShape DEF ServiceStates
<1>11. ASSUME NEW s \in Services
       PROVE  IF svc'[s] = "Discovering"
                THEN Count(openRequests', Carriers(s)) = 1
                ELSE Count(openRequests', DiscoveryRequests(s)) = 0
  <2>1. Count(Append(openRequests, e), Carriers(s))
          = Count(openRequests, Carriers(s)) + (IF s = s0 THEN 1 ELSE 0)
    BY <1>2, <1>5, <1>7, CountAppend
  <2>2. Count(Append(openRequests, e), DiscoveryRequests(s))
          = Count(openRequests, DiscoveryRequests(s)) + (IF s = s0 THEN 1 ELSE 0)
    BY <1>2, <1>5, <1>7, CountAppend
  <2>3. IF svc[s] = "Discovering"
          THEN Count(openRequests, Carriers(s)) = 1
          ELSE Count(openRequests, DiscoveryRequests(s)) = 0
    BY DEF ChainInv, DetailsHang
  <2> QED
    BY <1>1, <1>8, <2>1, <2>2, <2>3
<1>12. DetailsHang'
  BY <1>11 DEF DetailsHang
<1> QED
  BY <1>10, <1>12

\* What a new read or write call puts into the queue.
CallEnqueued(e) ==
  /\ openRequests' = Append(openRequests, e)
  /\ e \in WellFormed' /\ e.op = Len(calls) + 1
  /\ e.cmd \in AccessCommands /\ e.cmd # "READ_BLOB"
  /\ calls' \in Seq(Calls)
  /\ \E call \in Calls : calls' = Append(calls, call) /\ call.result = "open"
  /\ UNCHANGED <<state, socketOpen, svc, found, rsp>>

LEMMA AccessEnqueues ==
  ASSUME IInv,
         \/ \E a \in Handles : ReadAttribute(a)
         \/ \E a \in Handles, size \in 1..MaxChunks : WriteAttribute(a, size)
  PROVE  \E e \in Requests : CallEnqueued(e) /\ Enqueue(e)
<1>1. TypeOK /\ 1 \in 1..MaxChunks
  BY ConstantsAssumption DEF IInv
<1>2. ASSUME NEW kind \in {"read", "write"}, NEW a \in Handles,
             NEW size \in 1..MaxChunks, NewCall(kind, a, size)
      PROVE  /\ calls' \in Seq(Calls) /\ Len(calls) + 1 \in 0..MaxCalls
             /\ Len(calls) + 1 # 0 /\ Len(calls') = Len(calls) + 1
             /\ \E call \in Calls : calls' = Append(calls, call) /\ call.result = "open"
             /\ svc[ServiceForHandle(a)] = "Discovered"
  <2> DEFINE call == [kind |-> kind, target |-> a, size |-> size, result |-> "open"]
  <2>1. calls' = Append(calls, call) /\ call \in Calls /\ calls \in Seq(Calls)
        /\ call.result = "open" /\ svc[ServiceForHandle(a)] = "Discovered"
    BY <1>1, <1>2 DEF NewCall, Calls, Results, TypeOK
  <2>2. Len(calls') = Len(calls) + 1 /\ Len(calls) \in Nat
    BY <2>1, AppendProperties, LenProperties
  <2>3. calls' \in Seq(Calls) /\ Len(calls) + 1 \in 0..MaxCalls
    BY <1>1, <1>2, NewCallTyped
  <2> QED
    BY <2>1, <2>2, <2>3
<1>3. ASSUME NEW a \in Handles, ReadAttribute(a)
      PROVE  \E e \in Requests : CallEnqueued(e) /\ Enqueue(e)
  <2> DEFINE e == ReadReq(a, FALSE, Len(calls) + 1)
  <2>1. NewCall("read", a, 1) /\ Enqueue(e)
        /\ UNCHANGED <<state, socketOpen, svc, found, rsp>>
    BY <1>3 DEF ReadAttribute
  <2>2. /\ calls' \in Seq(Calls) /\ Len(calls) + 1 \in 0..MaxCalls
        /\ Len(calls) + 1 # 0 /\ Len(calls') = Len(calls) + 1
        /\ \E call \in Calls : calls' = Append(calls, call) /\ call.result = "open"
        /\ svc[ServiceForHandle(a)] = "Discovered"
    BY <1>1, <1>2, <2>1
  <2>3. e \in Requests
    BY <2>2, AccessRequestsTyped
  <2>4. /\ e.cmd = "READ" /\ e.op = Len(calls) + 1 /\ e.arg = "next"
        /\ e.target = a
    BY DEF ReadReq, Req
  <2> HIDE DEF e
  <2>5. e \in WellFormed'
    BY <2>1, <2>2, <2>3, <2>4 DEF WellFormed, AccessCommands, ReadCommands
  <2>6. CallEnqueued(e)
    BY <2>1, <2>2, <2>4, <2>5
    DEF CallEnqueued, AccessCommands, Enqueue, SendNextPendingRequest
  <2> QED
    BY <2>1, <2>3, <2>6
<1>4. ASSUME NEW a \in Handles, NEW size \in 1..MaxChunks, WriteAttribute(a, size)
      PROVE  \E e \in Requests : CallEnqueued(e) /\ Enqueue(e)
  <2> DEFINE e == IF size = 1 THEN Req("WRITE", a, "none", Len(calls) + 1, 0)
                              ELSE PrepareReq(a, Len(calls) + 1, 1)
  <2>1. NewCall("write", a, size) /\ Enqueue(e)
        /\ UNCHANGED <<state, socketOpen, svc, found, rsp>>
    BY <1>4 DEF WriteAttribute
  <2>2. /\ calls' \in Seq(Calls) /\ Len(calls) + 1 \in 0..MaxCalls
        /\ Len(calls) + 1 # 0 /\ Len(calls') = Len(calls) + 1
        /\ \E call \in Calls : calls' = Append(calls, call) /\ call.result = "open"
    BY <1>2, <2>1
  <2>3. e \in Requests
    BY <2>2, AccessRequestsTyped
  <2>4. e.cmd \in {"WRITE", "PREPARE_WRITE"} /\ e.op = Len(calls) + 1
    BY DEF PrepareReq, Req
  <2> HIDE DEF e
  <2>5. e \in WellFormed'
    BY <2>1, <2>2, <2>3, <2>4 DEF WellFormed, AccessCommands, ReadCommands
  <2>6. CallEnqueued(e)
    BY <2>1, <2>2, <2>4, <2>5
    DEF CallEnqueued, AccessCommands, Enqueue, SendNextPendingRequest
  <2> QED
    BY <2>1, <2>3, <2>6
<1> QED
  BY <1>3, <1>4

LEMMA AccessKeepsChains ==
  ASSUME ChainInv, NEW e, CallEnqueued(e)
  PROVE  QueueShape' /\ DetailsHang'
<1>1. calls \in Seq(Calls) /\ Len(calls) \in Nat
  BY LenProperties DEF ChainInv, IInv, TypeOK
<1>2. Len(calls) <= Len(calls') /\ calls' \in Seq(Calls)
  BY <1>1, AppendProperties DEF CallEnqueued
<1>3. \A s \in Services : ~DiscoveryRequest(e, s)
  BY <1>1, NoDiscovery DEF CallEnqueued, AccessCommands
<1> QED
  BY <1>2, <1>3, OtherAppended DEF CallEnqueued

\* The call is open and its request is queued; the other calls keep theirs.
LEMMA AccessKeepsCalls ==
  ASSUME ChainInv, CallsHang, NEW e \in Requests, CallEnqueued(e)
  PROVE  CallsHang'
<1>1. /\ calls \in Seq(Calls) /\ Len(calls) \in Nat /\ DOMAIN calls = 1..Len(calls)
      /\ openRequests \in Seq(Requests) /\ openRequests \in Seq(WellFormed)
  BY LenProperties DEF ChainInv, IInv, TypeOK, QueueShape
<1>2. PICK call \in Calls : calls' = Append(calls, call) /\ call.result = "open"
  BY DEF CallEnqueued
<1>3. /\ DOMAIN calls' = 1..(Len(calls) + 1)
      /\ calls'[Len(calls) + 1].result = "open"
      /\ \A i \in 1..Len(calls) : calls'[i] = calls[i]
  <2>1. /\ calls' \in Seq(Calls) /\ Len(calls') = Len(calls) + 1
        /\ calls'[Len(calls) + 1] = call
        /\ \A i \in 1..Len(calls) : calls'[i] = calls[i]
    BY <1>1, <1>2, AppendProperties
  <2> QED
    BY <1>2, <2>1, LenProperties
<1>4. ASSUME NEW i \in 1..(Len(calls) + 1)
      PROVE  Count(openRequests', CallRequests(i))
               = Count(openRequests, CallRequests(i))
                 + (IF i = Len(calls) + 1 THEN 1 ELSE 0)
  <2>1. e \in CallRequests(i) <=> i = Len(calls) + 1
    BY DEF CallEnqueued, CallRequests
  <2>2. Count(Append(openRequests, e), CallRequests(i))
          = Count(openRequests, CallRequests(i))
            + (IF e \in CallRequests(i) THEN 1 ELSE 0)
    BY <1>1, CountAppend
  <2> QED
    BY <2>1, <2>2 DEF CallEnqueued
<1>5. Count(openRequests, CallRequests(Len(calls) + 1)) = 0
  <2>1. ASSUME NEW k \in 1..Len(openRequests)
        PROVE  openRequests[k] \notin CallRequests(Len(calls) + 1)
    <3>1. openRequests[k] \in WellFormed
      BY <1>1, ElementOfSeq
    <3> QED
      BY <1>1, <3>1 DEF WellFormed, CallRequests
  <2> QED
    BY <1>1, <2>1, CountNone
<1>6. ASSUME NEW i \in 1..Len(calls)
      PROVE  Count(openRequests, CallRequests(i))
               = IF calls[i].result = "open" THEN 1 ELSE 0
  BY <1>1 DEF CallsHang
<1>7. ASSUME NEW i \in DOMAIN calls'
      PROVE  Count(openRequests', CallRequests(i))
               = IF calls'[i].result = "open" THEN 1 ELSE 0
  <2>1. CASE i = Len(calls) + 1
    BY <1>3, <1>4, <1>5, <1>7, <2>1
  <2>2. CASE i # Len(calls) + 1
    <3>1. i \in 1..Len(calls)
      BY <1>1, <1>3, <1>7, <2>2
    <3>2. Count(openRequests', CallRequests(i))
            = Count(openRequests, CallRequests(i)) + 0
      BY <1>3, <1>4, <1>7, <2>2
    <3> QED
      BY <1>3, <1>6, <3>1, <3>2
  <2> QED
    BY <2>1, <2>2
<1> QED
  BY <1>7 DEF CallsHang

\* A request for no call leaves the calls alone.
LEMMA OtherCallsKept ==
  ASSUME ChainInv, CallsHang, NEW e \in Requests, e.op = 0,
         openRequests' = Append(openRequests, e), calls' = calls
  PROVE  CallsHang'
<1>1. /\ openRequests \in Seq(Requests)
      /\ calls \in Seq(Calls) /\ DOMAIN calls = 1..Len(calls)
  BY LenProperties DEF ChainInv, IInv, TypeOK
<1>2. ASSUME NEW i \in DOMAIN calls
      PROVE  Count(openRequests', CallRequests(i))
               = IF calls[i].result = "open" THEN 1 ELSE 0
  <2>1. e \notin CallRequests(i)
    BY <1>1 DEF CallRequests
  <2>2. Count(Append(openRequests, e), CallRequests(i))
          = Count(openRequests, CallRequests(i)) + 0
    BY <1>1, <2>1, CountAppend
  <2> QED
    BY <2>2 DEF CallsHang
<1> QED
  BY <1>2 DEF CallsHang

\* A request that is enqueued does not become overdue in place of another.
LEMMA EnqueuedBlobs ==
  ASSUME IInv, BlobsAnswered, NEW e \in Requests, e.cmd # "READ_BLOB", Enqueue(e),
         rsp' = rsp
  PROVE  BlobsAnswered'
<1>1. openRequests \in Seq(Requests) /\ openRequests' = Append(openRequests, e)
      /\ wire \in Seq(Requests)
  BY DEF IInv, TypeOK, Enqueue, SendNextPendingRequest
<1>2. ASSUME requestPending', wire' = <<>>, rsp' = <<>>, "loss" \notin Environment
      PROVE  Head(openRequests').cmd # "READ_BLOB"
  <2>1. CASE openRequests = <<>>
    BY <1>1, <2>1
  <2>2. CASE openRequests # <<>>
    <3>1. requestPending \/ encryptionChangePending
      BY <2>2 DEF IInv, QueueInv, QueueNeverIdle
    <3>2. requestPending' = requestPending /\ wire' = wire
      BY <3>1 DEF Enqueue, SendNextPendingRequest
    <3>3. Head(openRequests') = Head(openRequests)
      BY <1>1, <2>2, AppendSeq
    <3> QED
      BY <1>2, <3>2, <3>3 DEF BlobsAnswered
  <2> QED
    BY <2>1, <2>2
<1> QED
  BY <1>2 DEF BlobsAnswered

LEMMA ListingCounted ==
  ASSUME ChainInv, ListingHangs, NEW e \in Requests,
         openRequests' = Append(openRequests, e),
         \/ e.cmd = "READ_BY_GROUP" /\ state # "Discovering" /\ state' = "Discovering"
         \/ /\ e.cmd # "READ_BY_GROUP"
            /\ state' = "Discovering" <=> state = "Discovering"
  PROVE  ListingHangs'
<1>1. openRequests \in Seq(Requests)
  BY DEF ChainInv, IInv, TypeOK
<1>2. Count(Append(openRequests, e), GroupRequests)
        = Count(openRequests, GroupRequests) + (IF e \in GroupRequests THEN 1 ELSE 0)
  BY <1>1, CountAppend
<1>3. Count(openRequests, GroupRequests) \in Nat
  BY <1>1, CountType
<1>4. e \in GroupRequests <=> e.cmd = "READ_BY_GROUP"
  BY DEF GroupRequests
<1> QED
  BY <1>2, <1>3, <1>4 DEF ListingHangs

-----------------------------------------------------------------------------
(* The peer, and what its answers do                                         *)

LEMMA PeerChains ==
  ASSUME ChainInv, PeerAnswers \/ RequestLost
  PROVE  QueueShape' /\ DetailsHang'
<1>1. IInv /\ wire # <<>> /\ UNCHANGED <<client, calls>>
  BY DEF ChainInv, PeerAnswers, RequestLost
<1>2. Head(wire) \in Requests /\ rsp = <<>>
  BY <1>1, OnWire
<1>3. ASSUME PeerAnswers
      PROVE  AnswerFits(Head(rsp'))
  <2>1. PICK err \in Errors, items \in SUBSET (Services \cup Handles),
             more \in BOOLEAN :
          /\ MayAnswer(Head(wire), err, items, more)
          /\ rsp' = Append(rsp, Answer(Head(wire), err, items, more))
    BY <1>3 DEF PeerAnswers
  <2> DEFINE p == Answer(Head(wire), err, items, more)
  <2>2. p.items = items /\ p.req = Head(wire) /\ Head(rsp') = p
    BY <1>2, <2>1 DEF Answer
  <2>3. Unlisted(Head(wire)) \subseteq Listable(Head(wire))
    BY <1>2, ConstantsAssumption DEF Unlisted, Listable
  <2>4. items \subseteq Unlisted(Head(wire))
    BY <2>1 DEF MayAnswer
  <2> QED
    BY <2>2, <2>3, <2>4 DEF AnswerFits
<1>4. rsp' # <<>> => AnswerFits(Head(rsp'))
  BY <1>2, <1>3 DEF RequestLost
<1> QED
  BY <1>1, <1>4, QueueKept DEF client

LEMMA PeerBlobs ==
  ASSUME CallsInv, BlobsAreServed, PeerAnswers \/ RequestLost
  PROVE  BlobsAnswered'
<1>1. IInv /\ wire # <<>> /\ UNCHANGED <<client, calls>>
  BY DEF CallsInv, ChainInv, PeerAnswers, RequestLost
<1>2. Head(wire) \in Requests /\ rsp = <<>>
  BY <1>1, OnWire
<1>3. CASE RequestLost
  BY <1>2, <1>3 DEF RequestLost, BlobsAnswered
<1>4. CASE PeerAnswers
  <2>1. PICK err \in Errors, items \in SUBSET (Services \cup Handles),
             more \in BOOLEAN :
          /\ MayAnswer(Head(wire), err, items, more)
          /\ rsp' = Append(rsp, Answer(Head(wire), err, items, more))
    BY <1>4 DEF PeerAnswers
  <2> DEFINE p == Answer(Head(wire), err, items, more)
  <2>2. p.cmd = Head(wire).cmd /\ p.err = err /\ Head(rsp') = p /\ rsp' # <<>>
    BY <1>2, <2>1 DEF Answer
  <2>3. Head(wire).cmd = "READ_BLOB" => err = "none"
    BY <2>1 DEF MayAnswer, BlobsAreServed, AuthCommands
  <2> QED
    BY <2>2, <2>3 DEF BlobsAnswered
<1> QED
  BY <1>3, <1>4

\* The invariant gives the handlers what they rely on.
LEMMA Answered ==
  ASSUME ChainInv, NEW r, NEW rest, Front(r, rest), NEW p \in Answers,
         p.req = r, AnswerFits(p)
  PROVE  Answering(r, p, rest)
<1>1. r \in WellFormed /\ rest \in Seq(WellFormed)
  BY FrontTyped
<1>2. p.cmd = r.cmd
  BY AnswerFields
<1>3. \A s \in Services : DiscoveryRequest(r, s) => svc[s] = "Discovering"
  BY FrontChain
<1> QED
  BY <1>1, <1>2, <1>3 DEF Answering, ChainInv, IInv, QueueShape

\* processReply() runs for an answer the peer sent, or for one the timer makes.
LEMMA ReplyStep ==
  ASSUME NoLateAnswers, ChainInv, ReplyReceived \/ RequestTimeout
  PROVE  \E r, p, rest :
           /\ Front(r, rest) /\ Advances(r, p, rest)
           /\ FoundKept /\ rsp' = <<>>
           /\ r \in Requests /\ p \in Answers /\ p.cmd = r.cmd
           /\ rest \in Seq(Requests)
           /\ Quiet /\ ProcessReply(r, p, rest)
           /\ ReplyReceived => rsp # <<>> /\ p = Head(rsp)
           /\ RequestTimeout =>
                MonitorsWired /\ requestPending /\ wire = <<>> /\ rsp = <<>>
<1> DEFINE r == Head(openRequests)
           rest == Tail(openRequests)
<1>1. IInv /\ socketOpen /\ openRequests # <<>> /\ Front(r, rest)
  BY DEF ChainInv, ReplyReceived, RequestTimeout, Front
<1>2. r \in Requests /\ rest \in Seq(Requests)
  BY <1>1, InFlight
<1>3. CASE ReplyReceived
  <2> DEFINE p == Head(rsp)
  <2>1. /\ rsp # <<>> /\ ProcessReply(r, p, rest) /\ rsp' = Tail(rsp)
    BY <1>3 DEF ReplyReceived
  <2>2. Quiet /\ Tail(rsp) = <<>> /\ p \in Answers /\ p.cmd = r.cmd
    BY <1>1, <2>1, InFlight
  <2>3. p.req = r /\ AnswerFits(p)
    BY <1>1, <2>1 DEF IInv, QueueInv, ReplyMatchesHead, ChainInv, QueueShape
  <2>4. ~RequestTimeout
    BY <2>1 DEF RequestTimeout, NoLateAnswers
  <2>5. Answering(r, p, rest)
    BY <1>1, <2>2, <2>3, Answered
  <2> HIDE DEF r, p, rest
  <2>6. Advances(r, p, rest) /\ FoundKept
    BY <2>1, <2>5, ReplyAdvances
  <2> QED
    BY <1>1, <1>2, <2>1, <2>2, <2>4, <2>6 DEF p
<1>4. CASE RequestTimeout
  <2> DEFINE p == Answer(r, "other", {}, FALSE)
  <2>1. /\ ProcessReply(r, p, rest) /\ rsp' = rsp /\ rsp = <<>>
        /\ MonitorsWired /\ requestPending /\ wire = <<>>
        /\ ~encryptionChangePending
    BY <1>4 DEF RequestTimeout, NoLateAnswers
  <2>2. p \in Answers /\ p.cmd = r.cmd /\ p.req = r /\ AnswerFits(p)
    BY <1>2, RequestFields DEF Answer, Answers, Errors, AnswerFits
  <2>3. Quiet
    BY <1>1, <2>1 DEF IInv, Quiet
  <2>4. ~ReplyReceived
    BY <2>1 DEF ReplyReceived
  <2>5. Answering(r, p, rest)
    BY <1>1, <2>2, Answered
  <2> HIDE DEF r, p, rest
  <2>6. Advances(r, p, rest) /\ FoundKept
    BY <2>1, <2>5, ReplyAdvances
  <2> QED
    BY <1>1, <1>2, <2>1, <2>2, <2>3, <2>4, <2>6
<1> QED
  BY <1>3, <1>4

\* After an answer either a request is on the channel or none is waited for.
LEMMA ReplySends ==
  ASSUME NEW r \in Requests, NEW p \in Answers, p.cmd = r.cmd,
         NEW rest \in Seq(Requests), Quiet, ProcessReply(r, p, rest),
         socketOpen, rsp' = <<>>
  PROVE  BlobsAnswered'
<1>1. PICK q \in Seq(Requests), encrypting \in BOOLEAN :
        SendNextPendingRequest(q, FALSE, encrypting)
  BY ProcessReplyHandled DEF Handled, Proceeds
<1>2. requestPending' => wire' = Append(wire, Head(q)) /\ q # <<>>
  BY <1>1 DEF SendNextPendingRequest
<1>3. q # <<>> => Append(wire, Head(q)) # <<>>
  <2>1. wire \in Seq(Requests)
    BY DEF Quiet, TypeOK
  <2>2. q # <<>> => Head(q) \in Requests
    BY HeadTailSeq
  <2> QED
    BY <2>1, <2>2, AppendSeq
<1> QED
  BY <1>2, <1>3 DEF BlobsAnswered

-----------------------------------------------------------------------------
(* The inductive steps *)

LEMMA EncryptionKeepsQueue ==
  ASSUME EncryptionSucceeds, NEW wasSuccess \in BOOLEAN, EncryptionChanged(wasSuccess)
  PROVE  UNCHANGED <<openRequests, state, socketOpen, svc, found, calls, rsp>>
<1>1. wasSuccess
  BY DEF EncryptionSucceeds, EncryptionChanged
<1> QED
  BY <1>1 DEF EncryptionChanged, SendNextPendingRequest

LEMMA InitChains == Init => ChainInv /\ ListingHangs /\ CallsHang /\ BlobsAnswered
                              /\ Orphaned
<1> SUFFICES ASSUME Init
             PROVE  ChainInv /\ ListingHangs /\ CallsHang /\ BlobsAnswered /\ Orphaned
  OBVIOUS
<1>1. <<>> \in Seq(WellFormed) /\ openRequests = <<>> /\ DOMAIN calls = {}
  BY EmptySeq DEF Init
<1>2. \A s \in Services :
        /\ Closed(<<>>, Carriers(s), DiscoveryRequests(s))
        /\ Count(<<>>, DiscoveryRequests(s)) = 0
  BY CountEmpty DEF Closed
<1>3. Count(<<>>, GroupRequests) = 0
  BY CountEmpty
<1> QED
  BY <1>1, <1>2, <1>3, InitInv
  DEF Init, ChainInv, QueueShape, DetailsHang, ListingHangs, CallsHang,
      BlobsAnswered, Orphaned, NothingKnown

LEMMA ChainStep ==
  NoLateAnswers /\ EncryptionSucceeds /\ ChainInv /\ [Next]_vars => ChainInv'
<1> SUFFICES ASSUME NoLateAnswers, EncryptionSucceeds, ChainInv, [Next]_vars
             PROVE  QueueShape' /\ DetailsHang'
  BY NextPreserves DEF ChainInv
<1>1. rsp # <<>> => AnswerFits(Head(rsp))
  BY DEF ChainInv, QueueShape
<1>2. calls \in Seq(Calls) /\ Len(calls) \in Nat /\ Len(calls) <= Len(calls)
  BY LenProperties DEF ChainInv, IInv, TypeOK
<1>3. CASE L2cpConnected
  <2>1. MtuReq \in WellFormed' /\ \A s \in Services : ~DiscoveryRequest(MtuReq, s)
    BY ListRequestsShape, ListRequestsTyped, NoDiscovery DEF WellFormed, ReadCommands
  <2> QED
    BY <1>2, <1>3, <2>1, OtherAppended DEF L2cpConnected
<1>4. CASE L2cpConnectedWriteFails \/ DisconnectFromDevice \/ RemoteHostClosed
             \/ NetworkError \/ UnexpectedReply
  BY <1>4, ClearingSteps, ClearedChains
<1>5. CASE DiscoverServices
  <2> DEFINE e == GroupReq("primary")
  <2>1. e \in WellFormed' /\ \A s \in Services : ~DiscoveryRequest(e, s)
    BY ListRequestsShape, ListRequestsTyped, NoDiscovery
    DEF WellFormed, ReadCommands, Arguments
  <2>2. openRequests' = Append(openRequests, e) /\ UNCHANGED <<svc, found, calls, rsp>>
    BY <1>5 DEF DiscoverServices, Enqueue, SendNextPendingRequest
  <2> QED
    BY <1>2, <2>1, <2>2, OtherAppended
<1>6. CASE \E s \in Services : DiscoverDetails(s)
  BY <1>6, DetailsChains
<1>7. CASE \/ \E a \in Handles : ReadAttribute(a)
           \/ \E a \in Handles, size \in 1..MaxChunks : WriteAttribute(a, size)
  BY <1>7, AccessEnqueues, AccessKeepsChains DEF ChainInv
<1>8. CASE PeerAnswers \/ RequestLost
  BY <1>8, PeerChains
<1>9. CASE ReplyReceived \/ RequestTimeout
  BY <1>9, ReplyStep, AdvanceKeepsChains
<1>10. CASE DisconnectInSlot
  BY <1>10, SlotChains
<1>11. CASE \E wasSuccess \in BOOLEAN : EncryptionChanged(wasSuccess)
  BY <1>1, <1>11, EncryptionKeepsQueue, QueueKept
<1>12. CASE UNCHANGED vars
  BY <1>1, <1>12, QueueKept DEF vars, client, peer
<1> QED
  BY <1>3, <1>4, <1>5, <1>6, <1>7, <1>8, <1>9, <1>10, <1>11, <1>12 DEF Next

LEMMA ListingStep ==
  /\ NoLateAnswers /\ EncryptionSucceeds /\ NoSlotDisconnects
  /\ ChainInv /\ ListingHangs /\ [Next]_vars
  => ListingHangs'
<1> SUFFICES ASSUME NoLateAnswers, EncryptionSucceeds, NoSlotDisconnects,
                    ChainInv, ListingHangs, [Next]_vars
             PROVE  ListingHangs'
  OBVIOUS
<1>1. UNCHANGED <<openRequests, state>> => ListingHangs'
  BY DEF ListingHangs
<1>2. CASE L2cpConnected
  BY <1>2, ListRequestsShape, ListRequestsTyped, ListingCounted DEF L2cpConnected
<1>3. CASE L2cpConnectedWriteFails \/ DisconnectFromDevice \/ RemoteHostClosed
             \/ NetworkError \/ UnexpectedReply
  <2>1. openRequests' = <<>> /\ state' # "Discovering"
    BY <1>3, ClearingSteps DEF Cleared
  <2>2. Count(<<>>, GroupRequests) = 0
    BY CountEmpty
  <2> QED
    BY <2>1, <2>2 DEF ListingHangs
<1>4. CASE DiscoverServices
  <2>1. /\ openRequests' = Append(openRequests, GroupReq("primary"))
        /\ state = "Connected" /\ state' = "Discovering"
    BY <1>4 DEF DiscoverServices, Enqueue, SendNextPendingRequest
  <2>2. GroupReq("primary") \in Requests /\ GroupReq("primary").cmd = "READ_BY_GROUP"
    BY ListRequestsShape, ListRequestsTyped DEF Arguments
  <2> QED
    BY <2>1, <2>2, ListingCounted
<1>5. ASSUME NEW s \in Services, DiscoverDetails(s)
      PROVE  ListingHangs'
  <2> DEFINE e == TypeReq(s, "include", 0)
  <2>1. openRequests' = Append(openRequests, e) /\ state' = state
    BY <1>5 DEF DiscoverDetails, Enqueue, SendNextPendingRequest
  <2>2. e \in Requests /\ e.cmd = "READ_BY_TYPE"
    BY ListRequestsShape, ListRequestsTyped DEF Arguments
  <2> QED
    BY <2>1, <2>2, ListingCounted
<1>6. CASE \/ \E a \in Handles : ReadAttribute(a)
           \/ \E a \in Handles, size \in 1..MaxChunks : WriteAttribute(a, size)
  <2>1. PICK e \in Requests : CallEnqueued(e)
    BY <1>6, AccessEnqueues DEF ChainInv
  <2> QED
    BY <2>1, ListingCounted DEF CallEnqueued, AccessCommands
<1>7. CASE PeerAnswers \/ RequestLost
  BY <1>1, <1>7 DEF PeerAnswers, RequestLost, client
<1>8. CASE ReplyReceived \/ RequestTimeout
  BY <1>8, ReplyStep, AdvanceKeepsListing
<1>9. ~DisconnectInSlot
  BY DEF NoSlotDisconnects, DisconnectInSlot
<1>10. CASE \E wasSuccess \in BOOLEAN : EncryptionChanged(wasSuccess)
  BY <1>1, <1>10, EncryptionKeepsQueue
<1>11. CASE UNCHANGED vars
  BY <1>1, <1>11 DEF vars, client
<1> QED
  BY <1>2, <1>3, <1>4, <1>5, <1>6, <1>7, <1>8, <1>9, <1>10, <1>11 DEF Next

LEMMA CallsStep ==
  /\ NoLateAnswers /\ EncryptionSucceeds /\ BlobsAreServed
  /\ CallsInv /\ [Next]_vars
  => CallsInv'
<1> SUFFICES ASSUME NoLateAnswers, EncryptionSucceeds, BlobsAreServed, CallsInv, [Next]_vars
             PROVE  CallsHang' /\ BlobsAnswered'
  BY ChainStep DEF CallsInv
<1>1. ChainInv /\ CallsHang /\ BlobsAnswered /\ IInv
  BY DEF CallsInv, ChainInv
<1>2. UNCHANGED <<openRequests, calls>> => CallsHang'
  BY <1>1 DEF CallsHang
<1>3. CASE L2cpConnected
  <2>1. CallsHang'
    BY <1>1, <1>3, ListRequestsShape, ListRequestsTyped, OtherCallsKept
    DEF L2cpConnected
  <2>2. ASSUME wire' = <<>>, "loss" \notin Environment
        PROVE  Head(openRequests').cmd # "READ_BLOB"
    <3>1. requestPending /\ state = "Unconnected"
      BY <1>1, <1>3, <2>2 DEF L2cpConnected, IInv, QueueInv, SessionShape
    <3>2. openRequests # <<>> /\ ~socketOpen /\ wire = <<>> /\ rsp = <<>>
      BY <1>1, <3>1 DEF IInv, QueueInv, SessionShape
    <3>3. Head(openRequests') = Head(openRequests)
      BY <1>1, <1>3, <3>2, ListRequestsTyped, AppendSeq DEF L2cpConnected, IInv, TypeOK
    <3> QED
      BY <1>1, <2>2, <3>1, <3>2, <3>3 DEF BlobsAnswered
  <2> QED
    BY <1>3, <2>1, <2>2 DEF L2cpConnected, BlobsAnswered
<1>4. CASE L2cpConnectedWriteFails \/ DisconnectFromDevice \/ RemoteHostClosed
             \/ NetworkError \/ UnexpectedReply
  BY <1>4, ClearingSteps, ClearedCalls
<1>5. ASSUME NEW e \in Requests, Enqueue(e), e.op = 0, e.cmd # "READ_BLOB",
             UNCHANGED <<calls, rsp>>
      PROVE  CallsHang' /\ BlobsAnswered'
  <2>1. openRequests' = Append(openRequests, e)
    BY <1>5 DEF Enqueue, SendNextPendingRequest
  <2> QED
    BY <1>1, <1>5, <2>1, OtherCallsKept, EnqueuedBlobs
<1>6. CASE DiscoverServices
  <2>1. LET e == GroupReq("primary") IN
        e \in Requests /\ e.op = 0 /\ e.cmd # "READ_BLOB"
    BY ListRequestsShape, ListRequestsTyped DEF Arguments
  <2> QED
    BY <1>5, <1>6, <2>1 DEF DiscoverServices
<1>7. ASSUME NEW s \in Services, DiscoverDetails(s)
      PROVE  CallsHang' /\ BlobsAnswered'
  <2>1. LET e == TypeReq(s, "include", 0) IN
        e \in Requests /\ e.op = 0 /\ e.cmd # "READ_BLOB"
    BY ListRequestsShape, ListRequestsTyped DEF Arguments
  <2> QED
    BY <1>5, <1>7, <2>1 DEF DiscoverDetails
<1>8. CASE \/ \E a \in Handles : ReadAttribute(a)
           \/ \E a \in Handles, size \in 1..MaxChunks : WriteAttribute(a, size)
  <2>1. PICK e \in Requests : CallEnqueued(e) /\ Enqueue(e)
    BY <1>1, <1>8, AccessEnqueues
  <2>2. e.cmd # "READ_BLOB" /\ rsp' = rsp
    BY <2>1 DEF CallEnqueued
  <2> QED
    BY <1>1, <2>1, <2>2, AccessKeepsCalls, EnqueuedBlobs
<1>9. CASE PeerAnswers \/ RequestLost
  BY <1>2, <1>9, PeerBlobs DEF PeerAnswers, RequestLost, client
<1>10. CASE ReplyReceived \/ RequestTimeout
  <2>1. PICK r, p, rest :
          /\ Front(r, rest) /\ Advances(r, p, rest) /\ rsp' = <<>>
          /\ r \in Requests /\ p \in Answers /\ p.cmd = r.cmd
          /\ rest \in Seq(Requests)
          /\ Quiet /\ ProcessReply(r, p, rest)
          /\ ReplyReceived => rsp # <<>> /\ p = Head(rsp)
          /\ RequestTimeout =>
               MonitorsWired /\ requestPending /\ wire = <<>> /\ rsp = <<>>
    BY <1>1, <1>10, ReplyStep
  <2>2. r.cmd = "READ_BLOB" => p.err = "none"
    <3>1. CASE ReplyReceived
      BY <1>1, <2>1, <3>1 DEF BlobsAnswered
    <3>2. CASE RequestTimeout
      BY <1>1, <2>1, <3>2 DEF BlobsAnswered, BlobsAreServed, Front
    <3> QED
      BY <1>10, <3>1, <3>2
  <2>3. CallsHang'
    BY <1>1, <2>1, <2>2, AdvanceKeepsCalls
  <2>4. BlobsAnswered'
    BY <1>10, <2>1, ReplySends DEF ReplyReceived, RequestTimeout
  <2> QED
    BY <2>3, <2>4
<1>11. CASE DisconnectInSlot
  BY <1>11, SlotCalls
<1>12. ASSUME NEW wasSuccess \in BOOLEAN, EncryptionChanged(wasSuccess)
       PROVE  CallsHang' /\ BlobsAnswered'
  <2>1. UNCHANGED <<openRequests, calls>>
    BY <1>12, EncryptionKeepsQueue
  <2>2. rsp' = <<>> /\ ~requestPending /\ socketOpen /\ wire = <<>>
    BY <1>1, <1>12 DEF EncryptionChanged, IInv, QueueInv, EncryptionHoldsQueue
  <2>3. requestPending' => wire' # <<>>
    <3>1. wasSuccess
      BY <1>12 DEF EncryptionSucceeds, EncryptionChanged
    <3>2. SendNextPendingRequest(openRequests, requestPending, FALSE)
      BY <1>12, <3>1 DEF EncryptionChanged
    <3>3. requestPending = FALSE /\ requestPending' \in BOOLEAN
      BY <1>1, <2>2, NextPreserves DEF IInv, TypeOK
    <3>4. requestPending' =>
            openRequests # <<>> /\ wire' = Append(wire, Head(openRequests))
      BY <2>2, <3>2, <3>3 DEF SendNextPendingRequest
    <3>5. openRequests # <<>> => Head(openRequests) \in Requests
      BY <1>1, HeadTailSeq DEF IInv, TypeOK
    <3> QED
      BY <2>2, <3>4, <3>5
  <2> QED
    BY <1>2, <2>1, <2>2, <2>3 DEF BlobsAnswered
<1>13. CASE UNCHANGED vars
  BY <1>1, <1>2, <1>13 DEF vars, client, peer, BlobsAnswered
<1> QED
  BY <1>3, <1>4, <1>6, <1>7, <1>8, <1>9, <1>10, <1>11, <1>12, <1>13 DEF Next

LEMMA OrphanedStep ==
  NoLateAnswers /\ NoSlotDisconnects /\ IInv /\ Orphaned /\ [Next]_vars => Orphaned'
<1> SUFFICES ASSUME NoLateAnswers, NoSlotDisconnects, IInv, Orphaned, [Next]_vars,
                    ~socketOpen'
             PROVE  /\ openRequests' = <<>> /\ ~requestPending'
                    /\ NothingKnown' /\ state' \in {"Unconnected", "Closing"}
  BY DEF Orphaned
<1>0. socketOpen \in BOOLEAN /\ socketOpen' \in BOOLEAN
  BY NextPreserves DEF IInv, TypeOK
<1>1. ~socketOpen => /\ openRequests = <<>> /\ ~requestPending
                     /\ NothingKnown /\ state \in {"Unconnected", "Closing"}
  BY DEF Orphaned
<1>2. UNCHANGED <<openRequests, requestPending, svc, state, socketOpen>>
        => /\ openRequests' = <<>> /\ ~requestPending'
           /\ NothingKnown' /\ state' \in {"Unconnected", "Closing"}
  BY <1>1 DEF NothingKnown
<1>3. CASE L2cpConnectedWriteFails \/ DisconnectFromDevice \/ RemoteHostClosed
             \/ NetworkError \/ UnexpectedReply
  BY <1>3, ClearingSteps DEF Cleared, InvalidateServices, NothingKnown
<1>4. CASE PeerAnswers \/ RequestLost \/ UNCHANGED vars
  BY <1>2, <1>4 DEF PeerAnswers, RequestLost, vars, client
<1>5. ~L2cpConnected /\ ~DisconnectInSlot /\ ~ReplyReceived /\ ~RequestTimeout
  BY <1>0 DEF L2cpConnected, DisconnectInSlot, NoSlotDisconnects, ReplyReceived,
         RequestTimeout
<1>6. ~DiscoverServices
  BY <1>1 DEF DiscoverServices
<1>7. ASSUME NEW s \in Services
      PROVE  ~DiscoverDetails(s)
  BY <1>1 DEF DiscoverDetails, NothingKnown
<1>8. ASSUME NEW a \in Handles
      PROVE  ~ReadAttribute(a) /\ \A size \in 1..MaxChunks : ~WriteAttribute(a, size)
  BY <1>1, HandleOwner DEF ReadAttribute, WriteAttribute, NewCall, NothingKnown
<1>9. ASSUME NEW wasSuccess \in BOOLEAN, EncryptionChanged(wasSuccess)
      PROVE  FALSE
  <2>1. socketOpen /\ socketOpen' = socketOpen
    BY <1>9 DEF EncryptionChanged
  <2> QED
    BY <1>0, <2>1
<1> QED
  BY <1>3, <1>4, <1>5, <1>6, <1>7, <1>8, <1>9 DEF Next

-----------------------------------------------------------------------------
(* The counted invariants are the properties *)

LEMMA ChainCounted == ChainInv => DetailDiscoveryCarried
<1> SUFFICES ASSUME ChainInv, NEW s \in Services
             PROVE  IF svc[s] = "Discovering"
                      THEN Cardinality({k \in DOMAIN openRequests :
                                          Carries(openRequests[k], s)}) = 1
                      ELSE {k \in DOMAIN openRequests :
                              DiscoveryRequest(openRequests[k], s)} = {}
  BY DEF DetailDiscoveryCarried, Queued
<1>1. openRequests \in Seq(Requests)
  BY DEF ChainInv, IInv, TypeOK
<1>2. \A k \in DOMAIN openRequests : openRequests[k] \in Requests
  BY <1>1, LenProperties, ElementOfSeq
<1>3. /\ Places(openRequests, Carriers(s))
           = {k \in DOMAIN openRequests : Carries(openRequests[k], s)}
      /\ Places(openRequests, DiscoveryRequests(s))
           = {k \in DOMAIN openRequests : DiscoveryRequest(openRequests[k], s)}
  BY <1>2 DEF Places, Carriers, DiscoveryRequests
<1>4. svc[s] # "Discovering" => Places(openRequests, DiscoveryRequests(s)) = {}
  BY <1>1, CountZero DEF ChainInv, DetailsHang
<1> QED
  BY <1>3, <1>4 DEF ChainInv, DetailsHang, Count

LEMMA ListingIsCounted == ChainInv /\ ListingHangs => ServiceDiscoveryCarried
<1> SUFFICES ASSUME ChainInv, ListingHangs
             PROVE  Cardinality({k \in DOMAIN openRequests :
                                   openRequests[k].cmd = "READ_BY_GROUP"})
                      = IF state = "Discovering" THEN 1 ELSE 0
  BY DEF ServiceDiscoveryCarried, Queued
<1>1. \A k \in DOMAIN openRequests : openRequests[k] \in Requests
  BY LenProperties, ElementOfSeq DEF ChainInv, IInv, TypeOK
<1>2. Places(openRequests, GroupRequests)
        = {k \in DOMAIN openRequests : openRequests[k].cmd = "READ_BY_GROUP"}
  BY <1>1 DEF Places, GroupRequests
<1> QED
  BY <1>2 DEF ListingHangs, Count

LEMMA CallsCounted == ChainInv /\ CallsHang => OpenCallQueued
<1> SUFFICES ASSUME ChainInv, CallsHang, NEW i \in DOMAIN calls
             PROVE  Cardinality({k \in DOMAIN openRequests : openRequests[k].op = i})
                      = IF calls[i].result = "open" THEN 1 ELSE 0
  BY DEF OpenCallQueued, Queued
<1>1. \A k \in DOMAIN openRequests : openRequests[k] \in Requests
  BY LenProperties, ElementOfSeq DEF ChainInv, IInv, TypeOK
<1>2. Places(openRequests, CallRequests(i))
        = {k \in DOMAIN openRequests : openRequests[k].op = i}
  BY <1>1 DEF Places, CallRequests
<1> QED
  BY <1>2 DEF CallsHang, Count

-----------------------------------------------------------------------------
(* Theorems *)

\* Packets are in flight only on an open channel, and a controller that a failed
\* write has reset knows no service: no handler leaves one without the other.
THEOREM SessionShapes ==
  ASSUME NoLateAnswers
  PROVE  Spec => []SessionShape
<1>1. IInv => SessionShape
  BY DEF IInv, QueueInv
<1> QED
  BY <1>1, Invariance, PTL

\* resetController() and invalidateServices() are reached on every way a channel
\* closes: no request outlives it, unless a slot disconnects in between.
THEOREM NothingSurvives ==
  ASSUME NoLateAnswers, NoSlotDisconnects
  PROVE  Spec => []NoRequestSurvives
<1>1. Init => IInv /\ Orphaned
  BY InitInv, InitChains
<1>2. IInv /\ Orphaned /\ [Next]_vars => IInv' /\ Orphaned'
  BY NextPreserves, OrphanedStep
<1>3. Orphaned => NoRequestSurvives
  BY DEF Orphaned, NoRequestSurvives
<1> QED
  BY <1>1, <1>2, <1>3, PTL DEF Spec

\* Detail discovery is a chain of requests that neither breaks off nor forks,
\* also when a slot has disconnected: svc[s] is "Discovering" exactly as long as
\* one queued request carries the discovery of s on.
THEOREM DetailsCarried ==
  ASSUME NoLateAnswers, EncryptionSucceeds
  PROVE  Spec => []DetailDiscoveryCarried
<1>1. Init => ChainInv
  BY InitChains
<1>2. ChainInv /\ [Next]_vars => ChainInv'
  BY ChainStep
<1>3. ChainInv => DetailDiscoveryCarried
  BY ChainCounted
<1> QED
  BY <1>1, <1>2, <1>3, PTL DEF Spec

\* Both discoveries are such chains: discoverServices() and discoverDetails() go
\* on until the last answer, and leave no request behind.
THEOREM DiscoveriesCarried ==
  ASSUME NoLateAnswers, EncryptionSucceeds, NoSlotDisconnects
  PROVE  Spec => []DiscoveryCarried
<1>1. Init => ChainInv /\ ListingHangs
  BY InitChains
<1>2. ChainInv /\ ListingHangs /\ [Next]_vars => ChainInv' /\ ListingHangs'
  BY ChainStep, ListingStep
<1>3. ChainInv /\ ListingHangs => DiscoveryCarried
  BY ChainCounted, ListingIsCounted DEF DiscoveryCarried
<1> QED
  BY <1>1, <1>2, <1>3, PTL DEF Spec

\* Every read or write call that is open has one request in the queue, every
\* other call none: no handler forgets or doubles the request of a call.
THEOREM OpenCallsQueued ==
  ASSUME NoLateAnswers, EncryptionSucceeds, BlobsAreServed
  PROVE  Spec => []OpenCallQueued
<1>1. Init => CallsInv
  BY InitChains DEF CallsInv
<1>2. CallsInv /\ [Next]_vars => CallsInv'
  BY CallsStep
<1>3. CallsInv => OpenCallQueued
  BY CallsCounted DEF CallsInv
<1> QED
  BY <1>1, <1>2, <1>3, PTL DEF Spec

=============================================================================
