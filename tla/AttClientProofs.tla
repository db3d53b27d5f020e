--------------------------- MODULE AttClientProofs ---------------------------
(***************************************************************************)
(* Proofs about AttClient for every value of its constants: the queue      *)
(* never idles, an answer is processed against the request it answers, and *)
(* an encryption change holds the queue with the right request in front.   *)
(* The inductive invariant adds SessionShape, which says on which channel  *)
(* and in which states packets can be in flight.                           *)
(***************************************************************************)
EXTENDS AttClient, SequenceTheorems, FiniteSetTheorems, TLAPS

QueueInv ==
  QueueNeverIdle /\ ReplyMatchesHead /\ EncryptionHoldsQueue /\ SessionShape

IInv == TypeOK /\ QueueInv

\* The hypothesis of what follows: no answer comes after the timeout of its
\* request.  Without the monitors there is no timer, and it says nothing.
NoLateAnswers == MonitorsWired => "lateAnswer" \notin Environment

States == {"Unconnected", "Connected", "Discovering", "Discovered", "Closing"}
ServiceStates == {"unknown", "RemoteService", "Discovering", "Discovered"}

-----------------------------------------------------------------------------
(* Sequences *)

LEMMA SingletonSeq ==
  ASSUME NEW S, NEW e \in S
  PROVE  <<e>> \in Seq(S) /\ <<e>> # <<>> /\ Head(<<e>>) = e /\ Len(<<e>>) = 1
  OBVIOUS

LEMMA AppendSeq ==
  ASSUME NEW S, NEW s \in Seq(S), NEW e \in S
  PROVE  /\ Append(s, e) \in Seq(S)
         /\ Append(s, e) # <<>>
         /\ Len(Append(s, e)) = Len(s) + 1
         /\ s # <<>> => Head(Append(s, e)) = Head(s)
         /\ s = <<>> => Head(Append(s, e)) = e
  OBVIOUS

LEMMA PrependSeq ==
  ASSUME NEW S, NEW s \in Seq(S), NEW e \in S
  PROVE  /\ <<e>> \o s \in Seq(S)
         /\ <<e>> \o s # <<>>
         /\ Head(<<e>> \o s) = e
<1>1. <<e>> \in Seq(S) /\ Len(<<e>>) = 1 /\ <<e>>[1] = e
  OBVIOUS
<1>2. /\ <<e>> \o s \in Seq(S)
      /\ Len(<<e>> \o s) = 1 + Len(s)
      /\ (<<e>> \o s)[1] = e
  BY <1>1, ConcatProperties, LenProperties
<1>3. Len(<<e>> \o s) # 0
  BY <1>2, LenProperties
<1> QED
  BY <1>2, <1>3, EmptySeq

LEMMA HeadTailSeq ==
  ASSUME NEW S, NEW s \in Seq(S), s # <<>>
  PROVE  /\ Head(s) \in S /\ Tail(s) \in Seq(S)
         /\ Len(Tail(s)) = Len(s) - 1
         /\ Len(s) \in Nat \ {0}
  BY HeadTailProperties, EmptySeq

LEMMA ZeroLength ==
  ASSUME NEW S, NEW s \in Seq(S), Len(s) = 0
  PROVE  s = <<>>
  BY EmptySeq

-----------------------------------------------------------------------------
(* The handles and the requests *)

\* Every handle belongs to a service.
LEMMA HandleOwner ==
  ASSUME NEW a \in Handles
  PROVE  ServiceForHandle(a) \in Services
<1>1. PICK s \in Services :
        a \in CharsOf[s] \/ \E c \in CharsOf[s] : a \in DescsOf[c]
  BY DEF Handles, Chars, Descs
<1> QED
  BY <1>1 DEF ServiceForHandle

LEMMA CharOwner ==
  ASSUME NEW c \in Chars
  PROVE  c \in Handles /\ ServiceForHandle(c) \in Services
  BY HandleOwner DEF Handles

\* What the constructors build is a request.
LEMMA ListRequestsTyped ==
  /\ MtuReq \in Requests
  /\ \A type \in Arguments : GroupReq(type) \in Requests
  /\ \A s \in Services, type \in Arguments, page \in Nat :
       TypeReq(s, type, page) \in Requests
  /\ \A c \in Chars : FindReq(c) \in Requests
<1>1. 0 \in 0..MaxCalls
  BY ConstantsAssumption
<1> QED
  BY <1>1, CharOwner
  DEF MtuReq, GroupReq, TypeReq, FindReq, Req, Requests, Commands, Arguments, NoTarget

LEMMA AccessRequestsTyped ==
  ASSUME NEW a \in Handles, NEW op \in 0..MaxCalls
  PROVE  /\ \A last \in BOOLEAN : ReadReq(a, last, op) \in Requests
         /\ Req("WRITE", a, "none", op, 0) \in Requests
         /\ \A chunk \in Nat : PrepareReq(a, op, chunk) \in Requests
         /\ \A flag \in Arguments : ExecuteReq(a, op, flag) \in Requests
  BY DEF ReadReq, PrepareReq, ExecuteReq, Req, Requests, Commands, Arguments

LEMMA RequestFields ==
  ASSUME NEW r \in Requests
  PROVE  /\ r.cmd \in Commands /\ r.arg \in Arguments
         /\ r.op \in 0..MaxCalls /\ r.off \in Nat
         /\ r.cmd = "READ_BY_TYPE" => r.target \in Services
         /\ r.cmd = "FIND_INFORMATION" => r.target \in Chars
         /\ r.cmd \in {"READ", "READ_BLOB", "WRITE", "PREPARE_WRITE",
                       "EXECUTE_WRITE"} => r.target \in Handles
  BY DEF Requests

LEMMA BlobTyped ==
  ASSUME NEW r \in Requests, r.cmd \in {"READ", "READ_BLOB"}
  PROVE  BlobReq(r) \in Requests
  BY RequestFields DEF BlobReq, Req, Requests, Commands

LEMMA AnswerFields ==
  ASSUME NEW p \in Answers
  PROVE  /\ p.cmd \in Commands /\ p.err \in Errors /\ p.more \in BOOLEAN
         /\ p.items \subseteq Services \cup Handles
         /\ p.req \in Requests /\ p.cmd = p.req.cmd
         /\ p.cmd \in {"READ_BY_TYPE", "FIND_INFORMATION"} =>
              p.items \subseteq Handles
  BY DEF Answers

-----------------------------------------------------------------------------
(* The calls *)

LEMMA SettleTyped ==
  ASSUME calls \in Seq(Calls), NEW op, NEW result \in Results
  PROVE  Settle(op, result) \in Seq(Calls)
<1>1. CASE op \in DOMAIN calls
  <2>1. op \in 1..Len(calls)
    BY <1>1, LenProperties
  <2>2. calls[op] \in Calls
    BY <2>1, ElementOfSeq
  <2>3. [calls[op] EXCEPT !.result = result] \in Calls
    BY <2>2 DEF Calls
  <2>4. [calls EXCEPT ![op] = [calls[op] EXCEPT !.result = result]] \in Seq(Calls)
    BY <2>1, <2>3, ExceptSeq
  <2> QED
    BY <1>1, <2>4 DEF Settle
<1>2. CASE op \notin DOMAIN calls
  BY <1>2 DEF Settle
<1> QED
  BY <1>1, <1>2

LEMMA DropTyped ==
  ASSUME calls \in Seq(Calls)
  PROVE  DropOpenCalls \in Seq(Calls)
<1>1. DOMAIN calls = 1..Len(calls) /\ Len(calls) \in Nat
  BY LenProperties
<1>2. ASSUME NEW i \in 1..Len(calls)
      PROVE  DropOpenCalls[i] \in Calls
  <2>1. calls[i] \in Calls
    BY ElementOfSeq
  <2>2. [calls[i] EXCEPT !.result = "dropped"] \in Calls
    BY <2>1 DEF Calls, Results
  <2> QED
    BY <1>1, <2>1, <2>2 DEF DropOpenCalls
<1>3. DropOpenCalls \in [1..Len(calls) -> Calls]
  BY <1>1, <1>2 DEF DropOpenCalls
<1> QED
  BY <1>1, <1>3, SeqDef

-----------------------------------------------------------------------------
(* sendNextPendingRequest() *)

LEMMA SendTyped ==
  ASSUME NEW q \in Seq(Requests), NEW pending \in BOOLEAN,
         NEW encrypting \in BOOLEAN, wire \in Seq(Requests),
         SendNextPendingRequest(q, pending, encrypting)
  PROVE  /\ openRequests' \in Seq(Requests)
         /\ requestPending' \in BOOLEAN
         /\ encryptionChangePending' \in BOOLEAN
         /\ wire' \in Seq(Requests)
<1>1. CASE q = <<>> \/ pending \/ encrypting
  BY <1>1 DEF SendNextPendingRequest
<1>2. CASE ~(q = <<>> \/ pending \/ encrypting)
  <2>1. Head(q) \in Requests
    BY <1>2, HeadTailSeq
  <2>2. Append(wire, Head(q)) \in Seq(Requests)
    BY <2>1, AppendSeq
  <2> QED
    BY <1>2, <2>2 DEF SendNextPendingRequest
<1> QED
  BY <1>1, <1>2

\* Sending on a quiet channel re-establishes the invariant, whatever the queue
\* is: the obligation every handler of processReply() ends in.
LEMMA SendOnQuiet ==
  ASSUME NEW q \in Seq(Requests), NEW encrypting \in BOOLEAN,
         SendNextPendingRequest(q, FALSE, encrypting),
         encrypting => /\ q # <<>> /\ Head(q).cmd \in AuthCommands
                       /\ ~securityHigh',
         wire = <<>>, rsp' = <<>>,
         socketOpen' = socketOpen, state' # "Unconnected"
  PROVE  QueueInv'
<1>1. CASE q = <<>> \/ encrypting
  <2>1. /\ openRequests' = q /\ encryptionChangePending' = encrypting
        /\ requestPending' = FALSE /\ wire' = <<>>
    BY <1>1 DEF SendNextPendingRequest
  <2>2. Len(wire') + Len(rsp') <= 1
    BY <2>1
  <2> QED
    BY <1>1, <2>1, <2>2
    DEF QueueInv, QueueNeverIdle, ReplyMatchesHead, EncryptionHoldsQueue,
        SessionShape
<1>2. CASE q # <<>> /\ ~encrypting
  <2>1. /\ openRequests' = q /\ encryptionChangePending' = FALSE
        /\ requestPending' = TRUE
        /\ wire' = IF socketOpen THEN Append(<<>>, Head(q)) ELSE <<>>
    BY <1>2 DEF SendNextPendingRequest
  <2>2. Head(q) \in Requests
    BY <1>2, HeadTailSeq
  <2>3. /\ Append(<<>>, Head(q)) = <<Head(q)>>
        /\ Len(<<Head(q)>>) = 1 /\ Head(<<Head(q)>>) = Head(q)
    BY <2>2
  <2>4. /\ Len(wire') + Len(rsp') <= 1
        /\ wire' # <<>> => socketOpen /\ Head(wire') = Head(q)
    BY <2>1, <2>3
  <2> QED
    BY <1>2, <2>1, <2>4
    DEF QueueInv, QueueNeverIdle, ReplyMatchesHead, EncryptionHoldsQueue,
        SessionShape
<1> QED
  BY <1>1, <1>2

\* A call of the application that enqueues a request preserves the invariant.
LEMMA EnqueuePreserves ==
  ASSUME IInv, NEW r \in Requests, Enqueue(r),
         rsp' = rsp, socketOpen' = socketOpen, securityHigh' = securityHigh,
         state' = "Unconnected" <=> state = "Unconnected",
         ~(socketOpen /\ state = "Unconnected")
  PROVE  QueueInv'
<1> DEFINE q == Append(openRequests, r)
<1>1. /\ q \in Seq(Requests) /\ q # <<>>
      /\ openRequests # <<>> => Head(q) = Head(openRequests)
      /\ openRequests = <<>> => Head(q) = r
  BY AppendSeq DEF IInv, TypeOK
<1>2. openRequests' = q /\ encryptionChangePending' = encryptionChangePending
  BY DEF Enqueue, SendNextPendingRequest
<1>3. CASE requestPending \/ encryptionChangePending
  <2>1. requestPending' = requestPending /\ wire' = wire
    BY <1>3 DEF Enqueue, SendNextPendingRequest
  <2>2. openRequests # <<>>
    BY <1>3 DEF IInv, QueueInv, SessionShape, EncryptionHoldsQueue
  <2> QED
    BY <1>1, <1>2, <1>3, <2>1, <2>2
    DEF IInv, QueueInv, QueueNeverIdle, ReplyMatchesHead, EncryptionHoldsQueue,
        SessionShape
<1>4. CASE ~requestPending /\ ~encryptionChangePending
  <2>1. openRequests = <<>>
    BY <1>4 DEF IInv, QueueInv, QueueNeverIdle
  <2>2. wire = <<>> /\ rsp = <<>>
    BY <2>1 DEF IInv, QueueInv, SessionShape
  <2>3. requestPending' = TRUE
        /\ wire' = IF socketOpen THEN Append(<<>>, r) ELSE <<>>
    BY <1>1, <1>4, <2>1, <2>2 DEF Enqueue, SendNextPendingRequest
  <2>4. Append(<<>>, r) = <<r>> /\ Len(<<r>>) = 1 /\ Head(<<r>>) = r
    OBVIOUS
  <2>5. /\ Len(wire') + Len(rsp') <= 1
        /\ wire' # <<>> => socketOpen /\ Head(wire') = r
    BY <2>2, <2>3, <2>4
  <2> QED
    BY <1>1, <1>2, <1>4, <2>1, <2>2, <2>3, <2>5
    DEF IInv, QueueInv, QueueNeverIdle, ReplyMatchesHead, EncryptionHoldsQueue,
        SessionShape
<1> QED
  BY <1>3, <1>4

-----------------------------------------------------------------------------
(* processReply() *)

\* What every handler does to the queue: it sends on some queue, and holds it
\* only for a request that asked for encryption.
Proceeds ==
  \E q \in Seq(Requests), encrypting \in BOOLEAN :
    /\ SendNextPendingRequest(q, FALSE, encrypting)
    /\ encrypting => /\ q # <<>> /\ Head(q).cmd \in AuthCommands
                     /\ ~securityHigh

\* The state an answer finds and what it leaves.
Quiet == TypeOK /\ ~encryptionChangePending
Handled ==
  /\ Proceeds
  /\ state' \in {state, "Discovered"}
  /\ svc' \in [Services -> ServiceStates]
  /\ found' \in [Services -> SUBSET Handles]
  /\ calls' \in Seq(Calls)

LEMMA ContinueProceeds ==
  ASSUME Quiet, NEW q \in Seq(Requests), Continue(q)
  PROVE  Proceeds
<1>1. encryptionChangePending \in BOOLEAN /\ ~encryptionChangePending
  BY DEF Quiet, TypeOK
<1> QED
  BY <1>1 DEF Continue, Proceeds

LEMMA DiscoveredTyped ==
  ASSUME Quiet, NEW s \in Services, ServiceDiscovered(s)
  PROVE  svc' \in [Services -> ServiceStates]
  BY DEF ServiceDiscovered, Quiet, TypeOK, ServiceStates

LEMMA DescriptorsProceed ==
  ASSUME Quiet, NEW s \in Services, NEW chars \in SUBSET Chars,
         NEW rest \in Seq(Requests), DiscoverServiceDescriptors(s, chars, rest)
  PROVE  Proceeds /\ svc' \in [Services -> ServiceStates]
<1>1. CASE ServiceDiscovered(s) /\ Continue(rest)
  BY <1>1, DiscoveredTyped, ContinueProceeds
<1>2. CASE /\ \E c \in chars : IsFirst(c, chars) /\ Continue(Append(rest, FindReq(c)))
           /\ svc' = svc
  <2>1. PICK c \in chars : Continue(Append(rest, FindReq(c)))
    BY <1>2
  <2>2. FindReq(c) \in Requests
    BY ListRequestsTyped
  <2>3. Append(rest, FindReq(c)) \in Seq(Requests)
    BY <2>2, AppendSeq
  <2> QED
    BY <1>2, <2>1, <2>3, ContinueProceeds DEF Quiet, TypeOK, ServiceStates
<1> QED
  BY <1>1, <1>2 DEF DiscoverServiceDescriptors

\* readServiceValues() enqueues one read per attribute.
LEMMA ReadsTyped ==
  ASSUME NEW targets \in SUBSET Handles, NEW reads \in ReadRequests(targets)
  PROVE  reads \in Seq(Requests)
<1> DEFINE n == Cardinality(targets)
<1>1. n \in Nat
  BY ConstantsAssumption, FS_Subset, FS_CardinalityType
<1>2. PICK f \in HashOrders(targets) :
        reads = [i \in 1..n |-> ReadReq(f[i], i = n, 0)]
  BY DEF ReadRequests
<1>3. f \in [1..n -> targets]
  BY <1>2 DEF HashOrders
<1>4. ASSUME NEW i \in 1..n
      PROVE  reads[i] \in Requests
  <2>1. f[i] \in Handles /\ 0 \in 0..MaxCalls /\ (i = n) \in BOOLEAN
    BY <1>3, ConstantsAssumption
  <2>2. ReadReq(f[i], i = n, 0) \in Requests
    BY <2>1, AccessRequestsTyped
  <2> QED
    BY <1>2, <2>2
<1>5. reads \in [1..n -> Requests]
  BY <1>2, <1>4
<1> QED
  BY <1>1, <1>5, SeqDef

LEMMA ReadValuesProceed ==
  ASSUME Quiet, NEW s \in Services, NEW readCharacteristics \in BOOLEAN,
         NEW known \in SUBSET Handles, NEW rest \in Seq(Requests),
         ReadServiceValues(s, readCharacteristics, known, rest)
  PROVE  Proceeds /\ svc' \in [Services -> ServiceStates]
<1> DEFINE targets == IF mode[s] = "skip" THEN {}
                      ELSE IF readCharacteristics THEN known \cap Readable
                      ELSE known \ Chars
<1>1. targets \in SUBSET Handles
  OBVIOUS
<1>2. CASE /\ \E reads \in ReadRequests(targets) : Continue(rest \o reads)
           /\ svc' = svc
  <2>1. PICK reads \in ReadRequests(targets) : Continue(rest \o reads)
    BY <1>2
  <2>2. rest \o reads \in Seq(Requests)
    BY <1>1, ReadsTyped, ConcatProperties
  <2> QED
    BY <1>2, <2>1, <2>2, ContinueProceeds DEF Quiet, TypeOK, ServiceStates
<1>3. CASE DiscoverServiceDescriptors(s, known \cap Chars, rest)
  BY <1>3, DescriptorsProceed
<1>4. CASE ServiceDiscovered(s) /\ Continue(rest)
  BY <1>4, DiscoveredTyped, ContinueProceeds
<1> QED
  BY <1>2, <1>3, <1>4 DEF ReadServiceValues

LEMMA AfterLastReadProceeds ==
  ASSUME Quiet, NEW r \in Requests, r.target \in Handles,
         NEW rest \in Seq(Requests), AfterLastRead(r, rest)
  PROVE  Proceeds /\ svc' \in [Services -> ServiceStates]
<1> DEFINE s == ServiceForHandle(r.target)
<1>1. s \in Services
  BY HandleOwner
<1>2. CASE DiscoverServiceDescriptors(s, found[s] \cap Chars, rest)
  BY <1>1, <1>2, DescriptorsProceed
<1>3. CASE ServiceDiscovered(s) /\ Continue(rest)
  BY <1>1, <1>3, DiscoveredTyped, ContinueProceeds
<1> QED
  BY <1>2, <1>3 DEF AfterLastRead

LEMMA RaiseHandled ==
  ASSUME Quiet, NEW r \in Requests, r.cmd \in AuthCommands, NEW p,
         NEW rest \in Seq(Requests), RaiseSecurity(r, p, rest)
  PROVE  Handled
<1> DEFINE q == <<r>> \o rest
<1>1. q \in Seq(Requests) /\ q # <<>> /\ Head(q) = r
  BY PrependSeq
<1>2. SendNextPendingRequest(q, FALSE, TRUE) /\ ~securityHigh
  BY DEF RaiseSecurity
<1>3. Proceeds
  BY <1>1, <1>2 DEF Proceeds
<1> QED
  BY <1>3 DEF RaiseSecurity, Handled, Quiet, TypeOK, ServiceStates

LEMMA ReadByGroupHandled ==
  ASSUME Quiet, NEW r \in Requests, NEW p \in Answers,
         NEW rest \in Seq(Requests), ReadByGroupReply(r, p, rest)
  PROVE  Handled
<1>1. svc' \in [Services -> ServiceStates]
  BY DEF ReadByGroupReply, Quiet, TypeOK, ServiceStates
<1>2. ASSUME NEW type \in Arguments, Continue(Append(rest, GroupReq(type)))
      PROVE  Proceeds
  <2>1. GroupReq(type) \in Requests
    BY ListRequestsTyped
  <2>2. Append(rest, GroupReq(type)) \in Seq(Requests)
    BY <2>1, AppendSeq
  <2> QED
    BY <1>2, <2>2, ContinueProceeds
<1>3. r.arg \in Arguments /\ "secondary" \in Arguments
  BY RequestFields DEF Arguments
<1>4. Proceeds
  BY <1>2, <1>3, ContinueProceeds DEF ReadByGroupReply
<1> QED
  BY <1>1, <1>4 DEF ReadByGroupReply, Handled, Quiet, TypeOK

LEMMA ReadByTypeHandled ==
  ASSUME Quiet, NEW r \in Requests, NEW p \in Answers, p.cmd = r.cmd,
         p.cmd = "READ_BY_TYPE", NEW rest \in Seq(Requests),
         ReadByTypeReply(r, p, rest)
  PROVE  Handled
<1> DEFINE s == r.target
           known == found[s] \cup p.items
<1>1. s \in Services /\ known \in SUBSET Handles /\ r.off \in Nat
  BY RequestFields, AnswerFields DEF Quiet, TypeOK
<1>2. found' \in [Services -> SUBSET Handles]
  BY <1>1 DEF ReadByTypeReply, Quiet, TypeOK
<1>3. ASSUME NEW type \in Arguments, NEW page \in Nat,
             Continue(Append(rest, TypeReq(s, type, page))), svc' = svc
      PROVE  Proceeds /\ svc' \in [Services -> ServiceStates]
  <2>1. TypeReq(s, type, page) \in Requests
    BY <1>1, ListRequestsTyped
  <2>2. Append(rest, TypeReq(s, type, page)) \in Seq(Requests)
    BY <2>1, AppendSeq
  <2> QED
    BY <1>3, <2>2, ContinueProceeds DEF Quiet, TypeOK, ServiceStates
<1>4. Proceeds /\ svc' \in [Services -> ServiceStates]
  <2>1. CASE Continue(Append(rest, TypeReq(s, r.arg, r.off + 1))) /\ svc' = svc
    <3>1. r.arg \in Arguments /\ r.off + 1 \in Nat
      BY <1>1, RequestFields
    <3> QED
      BY <1>3, <2>1, <3>1
  <2>2. CASE Continue(Append(rest, TypeReq(s, "characteristic", 0))) /\ svc' = svc
    BY <1>3, <2>2 DEF Arguments
  <2>3. CASE ReadServiceValues(s, TRUE, known, rest)
    BY <1>1, <2>3, ReadValuesProceed
  <2>4. CASE ServiceDiscovered(s) /\ Continue(rest)
    BY <1>1, <2>4, DiscoveredTyped, ContinueProceeds
  <2> QED
    BY <2>1, <2>2, <2>3, <2>4 DEF ReadByTypeReply
<1> QED
  BY <1>2, <1>4 DEF ReadByTypeReply, Handled, Quiet, TypeOK

\* The part READ and READ_BLOB share: go on with the discovery run, or not.
LEMMA ReadDoneProceeds ==
  ASSUME Quiet, NEW r \in Requests, r.target \in Handles,
         NEW rest \in Seq(Requests), NEW last \in BOOLEAN,
         IF last THEN AfterLastRead(r, rest) ELSE Continue(rest) /\ svc' = svc
  PROVE  Proceeds /\ svc' \in [Services -> ServiceStates]
<1>1. CASE last
  BY <1>1, AfterLastReadProceeds
<1>2. CASE ~last
  BY <1>2, ContinueProceeds DEF Quiet, TypeOK, ServiceStates
<1> QED
  BY <1>1, <1>2

LEMMA BlobProceeds ==
  ASSUME Quiet, NEW r \in Requests, r.cmd \in {"READ", "READ_BLOB"},
         NEW rest \in Seq(Requests), Continue(<<BlobReq(r)>> \o rest)
  PROVE  Proceeds
<1>1. <<BlobReq(r)>> \o rest \in Seq(Requests)
  BY BlobTyped, PrependSeq
<1> QED
  BY <1>1, ContinueProceeds

LEMMA ReadHandled ==
  ASSUME Quiet, NEW r \in Requests, r.cmd = "READ", NEW p \in Answers,
         NEW rest \in Seq(Requests), ReadReply(r, p, rest)
  PROVE  Handled
<1> DEFINE discoveryRun == svc[ServiceForHandle(r.target)] # "Discovered"
<1>1. r.target \in Handles
  BY RequestFields
<1>2. CASE RaiseSecurity(r, p, rest)
  BY <1>2, RaiseHandled DEF AuthCommands
<1>3. CASE /\ Continue(<<BlobReq(r)>> \o rest)
           /\ UNCHANGED <<state, svc, found, calls>>
  BY <1>3, BlobProceeds DEF Handled, Quiet, TypeOK, ServiceStates
<1>4. CASE /\ IF discoveryRun /\ r.arg = "last"
                THEN AfterLastRead(r, rest)
                ELSE Continue(rest) /\ svc' = svc
           /\ calls' = IF discoveryRun THEN calls
                       ELSE Settle(r.op, IF p.err = "none" THEN "ok" ELSE "error")
           /\ UNCHANGED <<state, found>>
  <2>1. Proceeds /\ svc' \in [Services -> ServiceStates]
    BY <1>1, <1>4, ReadDoneProceeds
  <2>2. calls' \in Seq(Calls)
    BY <1>4, SettleTyped DEF Results, Quiet, TypeOK
  <2> QED
    BY <1>4, <2>1, <2>2 DEF Handled, Quiet, TypeOK
<1> QED
  BY <1>2, <1>3, <1>4 DEF ReadReply

LEMMA ReadBlobHandled ==
  ASSUME Quiet, NEW r \in Requests, r.cmd = "READ_BLOB", NEW p \in Answers,
         NEW rest \in Seq(Requests), ReadBlobReply(r, p, rest)
  PROVE  Handled
<1>1. r.target \in Handles
  BY RequestFields
<1>2. CASE /\ Continue(<<BlobReq(r)>> \o rest)
           /\ UNCHANGED <<state, svc, found, calls>>
  BY <1>2, BlobProceeds DEF Handled, Quiet, TypeOK, ServiceStates
<1>3. CASE /\ calls' = Settle(r.op, "ok") /\ Continue(rest)
           /\ UNCHANGED <<state, svc, found>>
  <2>1. calls' \in Seq(Calls)
    BY <1>3, SettleTyped DEF Results, Quiet, TypeOK
  <2> QED
    BY <1>3, <2>1, ContinueProceeds DEF Handled, Quiet, TypeOK, ServiceStates
<1>4. CASE /\ IF r.arg = "last" THEN AfterLastRead(r, rest)
                                ELSE Continue(rest) /\ svc' = svc
           /\ UNCHANGED <<state, found, calls>>
  <2>1. Proceeds /\ svc' \in [Services -> ServiceStates]
    BY <1>1, <1>4, ReadDoneProceeds
  <2> QED
    BY <1>4, <2>1 DEF Handled, Quiet, TypeOK
<1> QED
  BY <1>2, <1>3, <1>4 DEF ReadBlobReply

LEMMA FindInformationHandled ==
  ASSUME Quiet, NEW r \in Requests, NEW p \in Answers, p.cmd = r.cmd,
         p.cmd = "FIND_INFORMATION", NEW rest \in Seq(Requests),
         FindInformationReply(r, p, rest)
  PROVE  Handled
<1> DEFINE s == ServiceForHandle(r.target)
           known == found[s] \cup p.items
           later == {c \in found[s] \cap Chars : c > r.target}
<1>1. r.target \in Chars /\ s \in Services
  BY RequestFields, CharOwner
<1>2. known \in SUBSET Handles
  BY <1>1, AnswerFields DEF Quiet, TypeOK
<1>3. found' \in [Services -> SUBSET Handles]
  BY <1>2 DEF FindInformationReply, Quiet, TypeOK
<1>4. ASSUME NEW c \in Chars, Continue(Append(rest, FindReq(c))), svc' = svc
      PROVE  Proceeds /\ svc' \in [Services -> ServiceStates]
  <2>1. FindReq(c) \in Requests
    BY ListRequestsTyped
  <2>2. Append(rest, FindReq(c)) \in Seq(Requests)
    BY <2>1, AppendSeq
  <2> QED
    BY <1>4, <2>2, ContinueProceeds DEF Quiet, TypeOK, ServiceStates
<1>5. Proceeds /\ svc' \in [Services -> ServiceStates]
  <2>1. CASE Continue(Append(rest, FindReq(r.target))) /\ svc' = svc
    BY <1>1, <1>4, <2>1
  <2>2. CASE /\ \E c \in later :
                  IsFirst(c, later) /\ Continue(Append(rest, FindReq(c)))
             /\ svc' = svc
    BY <1>4, <2>2
  <2>3. CASE ReadServiceValues(s, FALSE, known, rest)
    BY <1>1, <1>2, <2>3, ReadValuesProceed
  <2> QED
    BY <2>1, <2>2, <2>3 DEF FindInformationReply
<1> QED
  BY <1>3, <1>5 DEF FindInformationReply, Handled, Quiet, TypeOK

LEMMA WriteHandled ==
  ASSUME Quiet, NEW r \in Requests, r.cmd = "WRITE", NEW p \in Answers,
         NEW rest \in Seq(Requests), WriteReply(r, p, rest)
  PROVE  Handled
<1>1. CASE RaiseSecurity(r, p, rest)
  BY <1>1, RaiseHandled DEF AuthCommands
<1>2. CASE /\ calls' = Settle(r.op, IF p.err = "none" THEN "ok" ELSE "error")
           /\ Continue(rest) /\ UNCHANGED <<state, svc, found>>
  <2>1. calls' \in Seq(Calls)
    BY <1>2, SettleTyped DEF Results, Quiet, TypeOK
  <2> QED
    BY <1>2, <2>1, ContinueProceeds DEF Handled, Quiet, TypeOK, ServiceStates
<1> QED
  BY <1>1, <1>2 DEF WriteReply

LEMMA PrepareWriteHandled ==
  ASSUME Quiet, NEW r \in Requests, r.cmd = "PREPARE_WRITE", NEW p \in Answers,
         NEW rest \in Seq(Requests), PrepareWriteReply(r, p, rest)
  PROVE  Handled
<1>1. r.target \in Handles /\ r.op \in 0..MaxCalls /\ r.off + 1 \in Nat
  BY RequestFields
<1>2. CASE RaiseSecurity(r, p, rest)
  BY <1>2, RaiseHandled DEF AuthCommands
<1>3. ASSUME NEW flag \in Arguments,
             Continue(<<ExecuteReq(r.target, r.op, flag)>> \o rest)
      PROVE  Proceeds
  <2>1. <<ExecuteReq(r.target, r.op, flag)>> \o rest \in Seq(Requests)
    BY <1>1, AccessRequestsTyped, PrependSeq
  <2> QED
    BY <1>3, <2>1, ContinueProceeds
<1>4. ASSUME Continue(Append(rest, PrepareReq(r.target, r.op, r.off + 1)))
      PROVE  Proceeds
  <2>1. PrepareReq(r.target, r.op, r.off + 1) \in Requests
    BY <1>1, AccessRequestsTyped
  <2>2. Append(rest, PrepareReq(r.target, r.op, r.off + 1)) \in Seq(Requests)
    BY <2>1, AppendSeq
  <2> QED
    BY <1>4, <2>2, ContinueProceeds
<1>5. "cancel" \in Arguments /\ "commit" \in Arguments
  BY DEF Arguments
<1>6. CASE ~RaiseSecurity(r, p, rest)
  <2>1. UNCHANGED <<state, svc, found, calls>>
    BY <1>6 DEF PrepareWriteReply
  <2>2. Proceeds
    BY <1>3, <1>4, <1>5, <1>6 DEF PrepareWriteReply
  <2> QED
    BY <2>1, <2>2 DEF Handled, Quiet, TypeOK, ServiceStates
<1> QED
  BY <1>2, <1>6

LEMMA ExecuteWriteHandled ==
  ASSUME Quiet, NEW r \in Requests, NEW p \in Answers,
         NEW rest \in Seq(Requests), ExecuteWriteReply(r, p, rest)
  PROVE  Handled
<1>1. calls' \in Seq(Calls)
  BY SettleTyped DEF ExecuteWriteReply, Results, Quiet, TypeOK
<1>2. Proceeds
  BY ContinueProceeds DEF ExecuteWriteReply
<1> QED
  BY <1>1, <1>2 DEF ExecuteWriteReply, Handled, Quiet, TypeOK, ServiceStates

LEMMA ProcessReplyHandled ==
  ASSUME Quiet, NEW r \in Requests, NEW p \in Answers, p.cmd = r.cmd,
         NEW rest \in Seq(Requests), ProcessReply(r, p, rest)
  PROVE  Handled
<1>1. CASE ExchangeMtuReply(rest)
  BY <1>1, ContinueProceeds
  DEF ExchangeMtuReply, Handled, Quiet, TypeOK, ServiceStates
<1> QED
  BY <1>1, ReadByGroupHandled, ReadByTypeHandled, ReadHandled, ReadBlobHandled,
     FindInformationHandled, WriteHandled, PrepareWriteHandled,
     ExecuteWriteHandled
  DEF ProcessReply

-----------------------------------------------------------------------------
(* The other operators *)

LEMMA InvalidatedTyped ==
  ASSUME TypeOK, InvalidateServices
  PROVE  /\ svc' \in [Services -> ServiceStates]
         /\ found' \in [Services -> SUBSET Handles]
         /\ calls' \in Seq(Calls)
         /\ NothingKnown'
  BY DropTyped DEF InvalidateServices, NothingKnown, TypeOK, ServiceStates

LEMMA ResetTyped ==
  ASSUME ResetController
  PROVE  /\ openRequests' \in Seq(Requests) /\ requestPending' \in BOOLEAN
         /\ encryptionChangePending' \in BOOLEAN /\ securityHigh' \in BOOLEAN
  BY EmptySeq DEF ResetController

LEMMA ClosedTyped ==
  ASSUME CloseChannel
  PROVE  /\ wire' \in Seq(Requests) /\ rsp' \in Seq(Answers)
         /\ prepared' \in [Handles -> [1..MaxChunks -> 0..MaxCalls]]
<1>1. 0 \in 0..MaxCalls
  BY ConstantsAssumption
<1> QED
  BY <1>1, EmptySeq DEF CloseChannel

\* A reset controller whose channel is quiet satisfies the invariant when it
\* knows no service.
LEMMA ResetPreserves ==
  ASSUME ResetController, wire' = <<>>, rsp' = <<>>, NothingKnown'
  PROVE  QueueInv'
<1>1. Len(wire') + Len(rsp') <= 1
  OBVIOUS
<1> QED
  BY <1>1 DEF ResetController, QueueInv, QueueNeverIdle, ReplyMatchesHead,
              EncryptionHoldsQueue, SessionShape

LEMMA L2cpDisconnectedPreserves ==
  ASSUME IInv, L2cpDisconnected
  PROVE  IInv'
<1>1. TypeOK
  BY DEF IInv
<1>2. QueueInv'
  BY <1>1, InvalidatedTyped, ResetPreserves DEF L2cpDisconnected, CloseChannel
<1>3. TypeOK'
  BY <1>1, InvalidatedTyped, ResetTyped, ClosedTyped
  DEF L2cpDisconnected, TypeOK, ServiceStates
<1> QED
  BY <1>2, <1>3 DEF IInv

\* While packets are in flight, or a request waits for its answer, the session
\* has not ended and the encryption does not change.
LEMMA InFlight ==
  ASSUME IInv, socketOpen, openRequests # <<>>
  PROVE  /\ state # "Unconnected"
         /\ Head(openRequests) \in Requests
         /\ Tail(openRequests) \in Seq(Requests)
         /\ rsp # <<>> =>
              /\ Quiet /\ wire = <<>> /\ Tail(rsp) = <<>>
              /\ Head(rsp) \in Answers
              /\ Head(rsp).cmd = Head(openRequests).cmd
<1>1. state # "Unconnected"
  BY DEF IInv, QueueInv, SessionShape
<1>2. /\ Head(openRequests) \in Requests
      /\ Tail(openRequests) \in Seq(Requests)
  BY HeadTailSeq DEF IInv, TypeOK
<1>3. ASSUME rsp # <<>>
      PROVE  /\ Quiet /\ wire = <<>> /\ Tail(rsp) = <<>>
             /\ Head(rsp) \in Answers
             /\ Head(rsp).cmd = Head(openRequests).cmd
  <2>1. rsp \in Seq(Answers) /\ wire \in Seq(Requests)
    BY DEF IInv, TypeOK
  <2>2. Len(wire) + Len(rsp) <= 1 /\ Head(rsp).req = Head(openRequests)
    BY <1>3 DEF IInv, QueueInv, ReplyMatchesHead
  <2>3. /\ Head(rsp) \in Answers /\ Tail(rsp) \in Seq(Answers)
        /\ Len(Tail(rsp)) = Len(rsp) - 1 /\ Len(rsp) \in Nat \ {0}
    BY <1>3, <2>1, HeadTailSeq
  <2>4. Len(wire) \in Nat
    BY <2>1, LenProperties
  <2>5. Len(wire) = 0 /\ Len(Tail(rsp)) = 0
    BY <2>2, <2>3, <2>4
  <2>6. wire = <<>> /\ Tail(rsp) = <<>>
    BY <2>1, <2>3, <2>5, ZeroLength
  <2>7. Head(rsp).cmd = Head(openRequests).cmd
    BY <2>2, <2>3, AnswerFields
  <2>8. Quiet
    BY <1>3 DEF IInv, QueueInv, EncryptionHoldsQueue, Quiet
  <2> QED
    BY <2>3, <2>6, <2>7, <2>8
<1> QED
  BY <1>1, <1>2, <1>3

\* processReply() on a quiet channel, the last step of every answer.
LEMMA ProcessReplyPreserves ==
  ASSUME IInv, Quiet, wire = <<>>, rsp' = <<>>, state # "Unconnected",
         NEW r \in Requests, NEW p \in Answers, p.cmd = r.cmd,
         NEW rest \in Seq(Requests), ProcessReply(r, p, rest),
         UNCHANGED <<socketOpen, securityHigh, mode, prepared, content>>
  PROVE  IInv'
<1>1. Handled
  BY ProcessReplyHandled
<1>2. PICK q \in Seq(Requests), encrypting \in BOOLEAN :
        /\ SendNextPendingRequest(q, FALSE, encrypting)
        /\ encrypting => /\ q # <<>> /\ Head(q).cmd \in AuthCommands
                         /\ ~securityHigh
  BY <1>1 DEF Handled, Proceeds
<1>3. QueueInv'
  BY <1>1, <1>2, SendOnQuiet DEF Handled
<1>4. TypeOK'
  <2>1. /\ openRequests' \in Seq(Requests) /\ requestPending' \in BOOLEAN
        /\ encryptionChangePending' \in BOOLEAN /\ wire' \in Seq(Requests)
    BY <1>2, SendTyped DEF Quiet, TypeOK
  <2>2. rsp' \in Seq(Answers)
    BY EmptySeq
  <2> QED
    BY <1>1, <2>1, <2>2 DEF Handled, Quiet, TypeOK, ServiceStates
<1> QED
  BY <1>3, <1>4 DEF IInv

\* An application call that enqueues a request, with what it does to the rest.
LEMMA EnqueueTyped ==
  ASSUME TypeOK, NEW r \in Requests, Enqueue(r)
  PROVE  /\ openRequests' \in Seq(Requests) /\ requestPending' \in BOOLEAN
         /\ encryptionChangePending' \in BOOLEAN /\ wire' \in Seq(Requests)
<1>1. Append(openRequests, r) \in Seq(Requests)
  BY AppendSeq DEF TypeOK
<1> QED
  BY <1>1, SendTyped DEF Enqueue, TypeOK

LEMMA NewCallTyped ==
  ASSUME TypeOK, NEW kind \in {"read", "write"}, NEW a \in Handles,
         NEW size \in 1..MaxChunks, NewCall(kind, a, size)
  PROVE  /\ calls' \in Seq(Calls)
         /\ Len(calls) + 1 \in 0..MaxCalls
         /\ ~NothingKnown
<1> DEFINE call == [kind |-> kind, target |-> a, size |-> size, result |-> "open"]
<1>1. calls' = Append(calls, call) /\ call \in Calls /\ calls \in Seq(Calls)
  BY DEF NewCall, Calls, Results, TypeOK
<1>2. calls' \in Seq(Calls)
  BY <1>1, AppendSeq
<1>3. Len(calls) \in Nat /\ Len(calls) < MaxCalls
  BY <1>1, LenProperties DEF NewCall
<1>4. ~NothingKnown
  BY HandleOwner DEF NewCall, NothingKnown
<1> QED
  BY <1>2, <1>3, <1>4, ConstantsAssumption

-----------------------------------------------------------------------------
(* The peer *)

LEMMA AnswerTyped ==
  ASSUME NEW r \in Requests, NEW err \in Errors,
         NEW items \in SUBSET (Services \cup Handles), NEW more \in BOOLEAN,
         MayAnswer(r, err, items, more)
  PROVE  Answer(r, err, items, more) \in Answers
<1>1. r.cmd \in Commands
  BY RequestFields
<1>2. ASSUME r.cmd = "READ_BY_TYPE"
      PROVE  items \subseteq Handles
  <2>1. r.target \in Services
    BY <1>2, RequestFields
  <2>2. Unlisted(r) \subseteq Handles
    <3>1. CASE r.arg = "characteristic"
      BY <1>2, <2>1, <3>1 DEF Unlisted, Handles, Chars
    <3>2. CASE r.arg # "characteristic"
      BY <1>2, <3>2 DEF Unlisted
    <3> QED
      BY <3>1, <3>2
  <2> QED
    BY <2>2 DEF MayAnswer
<1>3. ASSUME r.cmd = "FIND_INFORMATION"
      PROVE  items \subseteq Handles
  <2>1. r.target \in Chars
    BY <1>3, RequestFields
  <2>2. Unlisted(r) \subseteq Handles
    BY <1>3, <2>1 DEF Unlisted, Handles, Descs
  <2> QED
    BY <2>2 DEF MayAnswer
<1> QED
  BY <1>1, <1>2, <1>3 DEF Answer, Answers

LEMMA StoresTyped ==
  ASSUME TypeOK, NEW r \in Requests, NEW err, PeerStores(r, err)
  PROVE  /\ prepared' \in [Handles -> [1..MaxChunks -> 0..MaxCalls]]
         /\ content' \in [Handles -> [1..MaxChunks -> 0..MaxCalls]]
<1>1. r.op \in 0..MaxCalls /\ 0 \in 0..MaxCalls
  BY RequestFields, ConstantsAssumption
<1>2. Written(r.target, r.op) \in [Handles -> [1..MaxChunks -> 0..MaxCalls]]
  BY <1>1 DEF Written, TypeOK
<1>3. Executed \in [Handles -> [1..MaxChunks -> 0..MaxCalls]]
  BY DEF Executed, TypeOK
<1>4. content' \in [Handles -> [1..MaxChunks -> 0..MaxCalls]]
  BY <1>2, <1>3 DEF PeerStores, TypeOK
<1>5. [prepared EXCEPT ![r.target][r.off] = r.op]
        \in [Handles -> [1..MaxChunks -> 0..MaxCalls]]
  BY <1>1 DEF TypeOK
<1>6. prepared' \in [Handles -> [1..MaxChunks -> 0..MaxCalls]]
  BY <1>1, <1>5 DEF PeerStores, TypeOK
<1> QED
  BY <1>4, <1>6

\* The one request on the channel is the head of the queue, if there is one.
LEMMA OnWire ==
  ASSUME IInv, wire # <<>>
  PROVE  /\ Head(wire) \in Requests /\ Tail(wire) = <<>> /\ rsp = <<>>
         /\ ~encryptionChangePending /\ socketOpen
         /\ openRequests = <<>> <=> state = "Unconnected"
         /\ openRequests # <<>> => requestPending /\ Head(wire) = Head(openRequests)
<1>1. wire \in Seq(Requests) /\ rsp \in Seq(Answers)
  BY DEF IInv, TypeOK
<1>2. Len(wire) + Len(rsp) <= 1
  BY DEF IInv, QueueInv, ReplyMatchesHead
<1>3. /\ Head(wire) \in Requests /\ Tail(wire) \in Seq(Requests)
      /\ Len(Tail(wire)) = Len(wire) - 1 /\ Len(wire) \in Nat \ {0}
  BY <1>1, HeadTailSeq
<1>4. Len(rsp) \in Nat
  BY <1>1, LenProperties
<1>5. Len(Tail(wire)) = 0 /\ Len(rsp) = 0
  BY <1>2, <1>3, <1>4
<1>6. Tail(wire) = <<>> /\ rsp = <<>>
  BY <1>1, <1>3, <1>5, ZeroLength
<1> QED
  BY <1>3, <1>6
  DEF IInv, QueueInv, ReplyMatchesHead, EncryptionHoldsQueue, SessionShape

-----------------------------------------------------------------------------
(* The invariant *)

LEMMA InitInv == Init => IInv
<1> SUFFICES ASSUME Init PROVE IInv
  OBVIOUS
<1>1. 0 \in 0..MaxCalls
  BY ConstantsAssumption
<1>2. /\ <<>> \in Seq(Requests) /\ <<>> \in Seq(Answers) /\ <<>> \in Seq(Calls)
      /\ Len(wire) + Len(rsp) <= 1
  BY EmptySeq DEF Init
<1>3. TypeOK
  BY <1>1, <1>2 DEF Init, TypeOK
<1>4. QueueInv
  BY <1>2 DEF Init, QueueInv, QueueNeverIdle, ReplyMatchesHead,
              EncryptionHoldsQueue, SessionShape, NothingKnown
<1> QED
  BY <1>3, <1>4 DEF IInv

LEMMA L2cpConnectedPreserves ==
  ASSUME IInv, L2cpConnected
  PROVE  IInv'
<1>1. ~encryptionChangePending
  BY DEF IInv, QueueInv, SessionShape, L2cpConnected
<1>2. /\ MtuReq \in Requests /\ openRequests \in Seq(Requests)
      /\ 0 \in 0..MaxCalls
  BY ListRequestsTyped, ConstantsAssumption DEF IInv, TypeOK
<1>3. /\ openRequests' \in Seq(Requests) /\ openRequests' # <<>>
      /\ Head(openRequests') \in Requests
  BY <1>2, AppendSeq, HeadTailSeq DEF L2cpConnected
<1>4. /\ requestPending' = TRUE /\ encryptionChangePending' = FALSE
      /\ wire' \in {<<>>, <<Head(openRequests')>>}
  BY <1>1 DEF L2cpConnected, IInv, TypeOK
<1>5. /\ wire' \in Seq(Requests)
      /\ Len(wire') <= 1
      /\ wire' # <<>> => Head(wire') = Head(openRequests')
  <2>1. CASE wire' = <<>>
    BY <2>1, EmptySeq
  <2>2. CASE wire' = <<Head(openRequests')>>
    <3>1. /\ <<Head(openRequests')>> \in Seq(Requests)
          /\ Head(<<Head(openRequests')>>) = Head(openRequests')
          /\ Len(<<Head(openRequests')>>) = 1
      BY <1>3, SingletonSeq
    <3> QED
      BY <2>2, <3>1
  <2> QED
    BY <1>4, <2>1, <2>2
<1>6. TypeOK'
  BY <1>2, <1>3, <1>4, <1>5, EmptySeq DEF L2cpConnected, IInv, TypeOK
<1>7. rsp' = <<>> /\ socketOpen' /\ state' = "Connected"
      /\ Len(wire') + Len(rsp') <= 1
  BY <1>5, <1>6 DEF L2cpConnected, TypeOK
<1>8. QueueInv'
  BY <1>3, <1>4, <1>5, <1>7
  DEF QueueInv, QueueNeverIdle, ReplyMatchesHead, EncryptionHoldsQueue,
      SessionShape
<1> QED
  BY <1>6, <1>8 DEF IInv

LEMMA DisconnectsPreserve ==
  ASSUME IInv,
         L2cpConnectedWriteFails \/ DisconnectFromDevice \/ RemoteHostClosed
           \/ NetworkError
  PROVE  IInv'
<1>1. TypeOK
  BY DEF IInv
<1>2. ASSUME InvalidateServices, ResetController, CloseChannel,
             state' \in States, socketOpen' \in BOOLEAN,
             UNCHANGED <<mode, content>>
      PROVE  IInv'
  <2>1. QueueInv'
    BY <1>1, <1>2, InvalidatedTyped, ResetPreserves DEF CloseChannel
  <2>2. TypeOK'
    BY <1>1, <1>2, InvalidatedTyped, ResetTyped, ClosedTyped
    DEF TypeOK, ServiceStates, States
  <2> QED
    BY <2>1, <2>2 DEF IInv
<1>3. CASE L2cpConnectedWriteFails
  BY <1>2, <1>3 DEF L2cpConnectedWriteFails, States
<1>4. CASE DisconnectFromDevice
  BY <1>1, <1>2, <1>4, L2cpDisconnectedPreserves
  DEF DisconnectFromDevice, States, TypeOK
<1>5. CASE RemoteHostClosed
  BY <1>5, L2cpDisconnectedPreserves DEF RemoteHostClosed
<1>6. CASE NetworkError
  <2>1. InvalidateServices /\ ResetController /\ socketOpen
        /\ state' = "Unconnected"
        /\ UNCHANGED <<socketOpen, mode, wire, rsp, prepared, content>>
    BY <1>6 DEF NetworkError
  <2>2. TypeOK'
    BY <1>1, <2>1, InvalidatedTyped, ResetTyped DEF TypeOK, ServiceStates
  <2>3. Len(wire) + Len(rsp) <= 1
    BY DEF IInv, QueueInv, ReplyMatchesHead
  <2>4. QueueInv'
    BY <1>1, <2>1, <2>3, InvalidatedTyped
    DEF ResetController, QueueInv, QueueNeverIdle, ReplyMatchesHead,
        EncryptionHoldsQueue, SessionShape
  <2> QED
    BY <2>2, <2>4 DEF IInv
<1> QED
  BY <1>3, <1>4, <1>5, <1>6

LEMMA CallsPreserve ==
  ASSUME IInv,
         \/ DiscoverServices
         \/ \E s \in Services : DiscoverDetails(s)
         \/ \E a \in Handles : ReadAttribute(a)
         \/ \E a \in Handles, size \in 1..MaxChunks : WriteAttribute(a, size)
  PROVE  IInv'
<1>1. TypeOK
  BY DEF IInv
<1>2. ~NothingKnown => ~(socketOpen /\ state = "Unconnected")
  BY DEF IInv, QueueInv, SessionShape
<1>3. CASE DiscoverServices
  <2>1. GroupReq("primary") \in Requests
    BY ListRequestsTyped DEF Arguments
  <2>2. QueueInv'
    BY <1>3, <2>1, EnqueuePreserves DEF DiscoverServices
  <2>3. TypeOK'
    BY <1>1, <1>3, <2>1, EnqueueTyped DEF DiscoverServices, TypeOK
  <2> QED
    BY <2>2, <2>3 DEF IInv
<1>4. ASSUME NEW s \in Services, DiscoverDetails(s)
      PROVE  IInv'
  <2>1. TypeReq(s, "include", 0) \in Requests
    BY ListRequestsTyped DEF Arguments
  <2>2. ~NothingKnown
    BY <1>4 DEF DiscoverDetails, NothingKnown
  <2>3. QueueInv'
    BY <1>2, <1>4, <2>1, <2>2, EnqueuePreserves DEF DiscoverDetails
  <2>4. /\ svc' \in [Services -> ServiceStates]
        /\ mode' \in [Services -> {"full", "skip"}]
        /\ found' \in [Services -> SUBSET Handles]
    BY <1>1, <1>4 DEF DiscoverDetails, TypeOK, ServiceStates
  <2>5. TypeOK'
    BY <1>1, <1>4, <2>1, <2>4, EnqueueTyped
    DEF DiscoverDetails, TypeOK, ServiceStates
  <2> QED
    BY <2>3, <2>5 DEF IInv
<1>5. ASSUME NEW a \in Handles, NEW kind \in {"read", "write"},
             NEW size \in 1..MaxChunks, NewCall(kind, a, size),
             NEW r \in Requests, Enqueue(r),
             UNCHANGED <<state, socketOpen, securityHigh, svc, mode, found,
                         rsp, prepared, content>>
      PROVE  IInv'
  <2>1. calls' \in Seq(Calls) /\ ~NothingKnown
    BY <1>1, <1>5, NewCallTyped
  <2>2. QueueInv'
    BY <1>2, <1>5, <2>1, EnqueuePreserves
  <2>3. TypeOK'
    BY <1>1, <1>5, <2>1, EnqueueTyped DEF TypeOK
  <2> QED
    BY <2>2, <2>3 DEF IInv
<1>6. ASSUME NEW a \in Handles, ReadAttribute(a)
      PROVE  IInv'
  <2>1. 1 \in 1..MaxChunks
    BY ConstantsAssumption
  <2>2. Len(calls) + 1 \in 0..MaxCalls
    BY <1>1, <1>6, <2>1, NewCallTyped DEF ReadAttribute
  <2>3. ReadReq(a, FALSE, Len(calls) + 1) \in Requests
    BY <2>2, AccessRequestsTyped
  <2> QED
    BY <1>5, <1>6, <2>1, <2>3 DEF ReadAttribute
<1>7. ASSUME NEW a \in Handles, NEW size \in 1..MaxChunks,
             WriteAttribute(a, size)
      PROVE  IInv'
  <2> DEFINE r == IF size = 1 THEN Req("WRITE", a, "none", Len(calls) + 1, 0)
                              ELSE PrepareReq(a, Len(calls) + 1, 1)
  <2>1. Len(calls) + 1 \in 0..MaxCalls
    BY <1>1, <1>7, NewCallTyped DEF WriteAttribute
  <2>2. r \in Requests
    BY <2>1, AccessRequestsTyped
  <2> QED
    BY <1>5, <1>7, <2>2 DEF WriteAttribute
<1> QED
  BY <1>3, <1>4, <1>6, <1>7

LEMMA PeerPreserves ==
  ASSUME IInv, PeerAnswers \/ RequestLost
  PROVE  IInv'
<1>1. TypeOK /\ QueueInv
  BY DEF IInv
<1>2. wire # <<>> /\ wire' = Tail(wire) /\ UNCHANGED <<client, calls>>
  BY DEF PeerAnswers, RequestLost
<1>3. /\ Head(wire) \in Requests /\ wire' = <<>> /\ rsp = <<>>
      /\ ~encryptionChangePending /\ socketOpen
      /\ openRequests = <<>> <=> state = "Unconnected"
      /\ openRequests # <<>> => requestPending /\ Head(wire) = Head(openRequests)
  BY <1>2, OnWire
<1>4. CASE RequestLost
  <2>1. TypeOK'
    BY <1>1, <1>2, <1>3, <1>4, EmptySeq DEF RequestLost, client, TypeOK
  <2>2. Len(wire') + Len(rsp') <= 1 /\ rsp' = <<>>
    BY <1>3, <1>4 DEF RequestLost
  <2>3. QueueInv'
    BY <1>1, <1>2, <1>3, <2>2
    DEF client, QueueInv, QueueNeverIdle, ReplyMatchesHead,
        EncryptionHoldsQueue, SessionShape, NothingKnown
  <2> QED
    BY <2>1, <2>3 DEF IInv
<1>5. CASE PeerAnswers
  <2>1. PICK err \in Errors, items \in SUBSET (Services \cup Handles),
             more \in BOOLEAN :
          /\ MayAnswer(Head(wire), err, items, more)
          /\ PeerStores(Head(wire), err)
          /\ rsp' = Append(rsp, Answer(Head(wire), err, items, more))
    BY <1>5 DEF PeerAnswers
  <2> DEFINE p == Answer(Head(wire), err, items, more)
  <2>2. p \in Answers
    BY <1>3, <2>1, AnswerTyped
  <2>3. rsp' = <<p>> /\ p.req = Head(wire)
    BY <1>3, <2>1 DEF Answer
  <2> HIDE DEF p
  <2>4. <<p>> \in Seq(Answers) /\ Head(<<p>>) = p /\ Len(<<p>>) = 1
    BY <2>2, SingletonSeq
  <2>5. TypeOK'
    BY <1>1, <1>2, <1>3, <2>1, <2>3, <2>4, EmptySeq, StoresTyped
    DEF client, TypeOK
  <2>6. Len(wire') + Len(rsp') <= 1 /\ Head(rsp').req = Head(wire)
    BY <1>3, <2>3, <2>4
  <2>7. QueueInv'
    BY <1>1, <1>2, <1>3, <2>6
    DEF client, QueueInv, QueueNeverIdle, ReplyMatchesHead,
        EncryptionHoldsQueue, SessionShape, NothingKnown
  <2> QED
    BY <2>5, <2>7 DEF IInv
<1> QED
  BY <1>4, <1>5

LEMMA RepliesPreserve ==
  ASSUME NoLateAnswers, IInv, ReplyReceived \/ UnexpectedReply \/ RequestTimeout
  PROVE  IInv'
<1>1. CASE ReplyReceived
  BY <1>1, InFlight, ProcessReplyPreserves DEF ReplyReceived
<1>2. CASE UnexpectedReply
  BY <1>2, L2cpDisconnectedPreserves DEF UnexpectedReply
<1>3. CASE RequestTimeout
  <2> DEFINE r == Head(openRequests)
             p == Answer(r, "other", {}, FALSE)
  <2>1. r \in Requests /\ Tail(openRequests) \in Seq(Requests)
        /\ state # "Unconnected"
    BY <1>3, InFlight DEF RequestTimeout
  <2>4. wire = <<>> /\ rsp = <<>>
    BY <1>3 DEF RequestTimeout, NoLateAnswers
  <2>2. p \in Answers /\ p.cmd = r.cmd
    BY <2>1, RequestFields DEF Answer, Answers, Errors
  <2>3. Quiet
    BY <1>3 DEF RequestTimeout, IInv, Quiet
  <2> QED
    BY <1>3, <2>1, <2>2, <2>3, <2>4, ProcessReplyPreserves DEF RequestTimeout
<1> QED
  BY <1>1, <1>2, <1>3

LEMMA SlotPreserves ==
  ASSUME IInv, DisconnectInSlot
  PROVE  IInv'
<1>1. TypeOK
  BY DEF IInv
<1>2. /\ calls' \in Seq(Calls)
      /\ svc' \in [Services -> ServiceStates]
      /\ found' \in [Services -> SUBSET Handles]
  BY <1>1, DropTyped DEF DisconnectInSlot, TypeOK, ServiceStates
<1>3. \A type \in Arguments : <<GroupReq(type)>> \in Seq(Requests) \ {<<>>}
  BY ListRequestsTyped, SingletonSeq
<1>4. Head(openRequests).arg \in Arguments /\ "secondary" \in Arguments
  BY InFlight, RequestFields DEF DisconnectInSlot, Arguments
<1>5. \/ /\ state' = "Discovered" /\ openRequests' = <<>>
         /\ requestPending' = FALSE
      \/ /\ state' = "Unconnected" /\ openRequests' \in Seq(Requests) \ {<<>>}
         /\ requestPending' = TRUE
  BY <1>3, <1>4 DEF DisconnectInSlot
<1>6. TypeOK'
  <2>1. /\ socketOpen' = FALSE /\ encryptionChangePending' = FALSE
        /\ securityHigh' = FALSE /\ CloseChannel /\ UNCHANGED <<mode, content>>
    BY DEF DisconnectInSlot
  <2>2. /\ wire' \in Seq(Requests) /\ rsp' \in Seq(Answers)
        /\ prepared' \in [Handles -> [1..MaxChunks -> 0..MaxCalls]]
    BY <2>1, ClosedTyped
  <2> QED
    BY <1>1, <1>2, <1>5, <2>1, <2>2, EmptySeq DEF TypeOK, ServiceStates
<1>7. wire' = <<>> /\ rsp' = <<>> /\ Len(wire') + Len(rsp') <= 1
      /\ socketOpen' = FALSE /\ encryptionChangePending' = FALSE
  BY DEF DisconnectInSlot, CloseChannel
<1>8. QueueInv'
  BY <1>5, <1>7 DEF QueueInv, QueueNeverIdle, ReplyMatchesHead,
                    EncryptionHoldsQueue, SessionShape
<1> QED
  BY <1>6, <1>8 DEF IInv

LEMMA EncryptionPreserves ==
  ASSUME IInv, NEW wasSuccess \in BOOLEAN, EncryptionChanged(wasSuccess)
  PROVE  IInv'
<1> DEFINE r == Head(openRequests)
           rest == Tail(openRequests)
           cancel == <<ExecuteReq(r.target, r.op, "cancel")>> \o rest
<1>1. /\ TypeOK
      /\ requestPending = FALSE /\ wire = <<>> /\ rsp = <<>>
      /\ openRequests # <<>> /\ state # "Unconnected"
  BY DEF EncryptionChanged, IInv, TypeOK, QueueInv, EncryptionHoldsQueue,
         SessionShape
<1>2. r \in Requests /\ rest \in Seq(Requests)
  BY <1>1, HeadTailSeq DEF TypeOK
<1>3. ASSUME r.cmd = "PREPARE_WRITE"
      PROVE  cancel \in Seq(Requests)
  <2>1. r.target \in Handles /\ r.op \in 0..MaxCalls /\ "cancel" \in Arguments
    BY <1>2, <1>3, RequestFields DEF Arguments
  <2> QED
    BY <1>2, <2>1, AccessRequestsTyped, PrependSeq
<1>4. PICK q \in Seq(Requests) : SendNextPendingRequest(q, FALSE, FALSE)
  BY <1>1, <1>2, <1>3 DEF EncryptionChanged, TypeOK
<1>5. /\ socketOpen' = socketOpen /\ state' = state /\ rsp' = rsp
      /\ securityHigh' \in BOOLEAN
      /\ UNCHANGED <<svc, mode, found, prepared, content>>
  BY DEF EncryptionChanged
<1>6. QueueInv'
  BY <1>1, <1>4, <1>5, SendOnQuiet
<1>7. calls' \in Seq(Calls)
  BY <1>1, SettleTyped DEF EncryptionChanged, Results, TypeOK
<1>8. TypeOK'
  BY <1>1, <1>4, <1>5, <1>7, SendTyped DEF TypeOK
<1> QED
  BY <1>6, <1>8 DEF IInv

LEMMA NextPreserves ==
  ASSUME NoLateAnswers
  PROVE  IInv /\ [Next]_vars => IInv'
<1> SUFFICES ASSUME IInv, [Next]_vars PROVE IInv'
  OBVIOUS
<1>1. CASE Next
  BY <1>1, L2cpConnectedPreserves, DisconnectsPreserve, CallsPreserve,
     PeerPreserves, RepliesPreserve, SlotPreserves, EncryptionPreserves
  DEF Next
<1>2. CASE UNCHANGED vars
  BY <1>2 DEF vars, client, peer, IInv, TypeOK, QueueInv, QueueNeverIdle,
              ReplyMatchesHead, EncryptionHoldsQueue, SessionShape, NothingKnown
<1> QED
  BY <1>1, <1>2

-----------------------------------------------------------------------------
(* Theorems *)

\* The inductive invariant holds in every reachable state.
THEOREM Invariance ==
  ASSUME NoLateAnswers
  PROVE  Spec => []IInv
<1> QED
  BY InitInv, NextPreserves, PTL DEF Spec

\* Every variable keeps its type: in particular each queued request names a
\* service, characteristic or descriptor of the peer, as its command demands.
THEOREM TypeCorrect ==
  ASSUME NoLateAnswers
  PROVE  Spec => []TypeOK
<1>1. IInv => TypeOK
  BY DEF IInv
<1> QED
  BY <1>1, Invariance, PTL

\* A request in openRequests is always on its way or waiting for encryption:
\* no handler of processReply() forgets to send the next one.
THEOREM QueueNeverIdles ==
  ASSUME NoLateAnswers
  PROVE  Spec => []QueueNeverIdle
<1>1. IInv => QueueNeverIdle
  BY DEF IInv, QueueInv
<1> QED
  BY <1>1, Invariance, PTL

\* l2cpReadyRead() never processes an answer against another request than the
\* one it answers, over any number of sessions, resets, encryption changes and
\* timeouts, as long as no answer comes after a timeout.
THEOREM RepliesMatch ==
  ASSUME NoLateAnswers
  PROVE  Spec => []ReplyMatchesHead
<1>1. IInv => ReplyMatchesHead
  BY DEF IInv, QueueInv
<1> QED
  BY <1>1, Invariance, PTL

\* While the kernel raises the security level, nothing is on the channel and
\* the request that asked for it is the head of the queue.
THEOREM EncryptionHolds ==
  ASSUME NoLateAnswers
  PROVE  Spec => []EncryptionHoldsQueue
<1>1. IInv => EncryptionHoldsQueue
  BY DEF IInv, QueueInv
<1> QED
  BY <1>1, Invariance, PTL

=============================================================================
