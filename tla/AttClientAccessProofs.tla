------------------------ MODULE AttClientAccessProofs ------------------------
(***************************************************************************)
(* AttClient implements AttributeAccess, for every value of its constants: *)
(* the requests, chunks and retries of a call amount to one change of the  *)
(* attribute, between the call and its answer, or to none.                 *)
(*                                                                         *)
(* Two hazards are excluded.  Long writes that overlap share the peer's    *)
(* prepare queue, and so do a long write and the chunks of one that was    *)
(* given up when its Execute Write was lost.                               *)
(***************************************************************************)
EXTENDS AttClientCarriedProofs

NoOverlap == "overlap" \notin Environment
AnswersComeInTime == MonitorsWired => "loss" \notin Environment

-----------------------------------------------------------------------------
(* What a queued request stands for *)

WriteCommands == {"WRITE", "PREPARE_WRITE", "EXECUTE_WRITE"}
LongCommands == {"PREPARE_WRITE", "EXECUTE_WRITE"}
LongRequests == {r \in Requests : r.cmd \in LongCommands}

\* A request that no call waits for stores nothing.
Free == {r \in Requests : r.op = 0 /\ r.cmd \notin WriteCommands}

\* The peer's prepare queue with the first n chunks of the write r is made for.
Nothing == [a \in Handles |-> [k \in 1..MaxChunks |-> 0]]
Chunks(r, n) ==
  [a \in Handles |-> [k \in 1..MaxChunks |->
     IF a = r.target /\ k <= n THEN r.op ELSE 0]]

\* The request is made for the call that it names.
Serves(r) ==
  /\ r.op \in DOMAIN calls
  /\ r.cmd \in AccessCommands
  /\ calls[r.op].target = r.target
  /\ calls[r.op].kind = IF r.cmd \in ReadCommands THEN "read" ELSE "write"
  /\ r.cmd = "WRITE" => calls[r.op].size = 1
  /\ r.cmd = "PREPARE_WRITE" => r.off \in 1..calls[r.op].size

\* The prepare queue holds the chunks before this one, or all of them.
PreparedFor(r) ==
  /\ r.cmd = "PREPARE_WRITE" => prepared = Chunks(r, r.off - 1)
  /\ r.cmd = "EXECUTE_WRITE" /\ r.arg = "commit" =>
       prepared = Chunks(r, calls[r.op].size)

\* Until the peer has answered, nothing of the call is visible.
Waiting ==
  {r \in Requests :
     IF r.op = 0 THEN r \in Free
     ELSE /\ Serves(r) /\ PreparedFor(r)
          /\ Access!Open(r.op) /\ Access!NoTrace(r.op)}

\* Once it has, the answer says what became of the attribute.
Commits(r) == r.cmd = "WRITE" \/ (r.cmd = "EXECUTE_WRITE" /\ r.arg = "commit")
IsAnswered(r, p) ==
  IF r.op = 0 THEN r \in Free
  ELSE /\ Serves(r) /\ Access!Open(r.op)
       /\ IF p.err = "none" /\ Commits(r) THEN Access!Holds(r.op)
                                          ELSE Access!NoTrace(r.op)
       /\ r.cmd = "PREPARE_WRITE" =>
            prepared = Chunks(r, IF p.err = "none" THEN r.off ELSE r.off - 1)
       /\ r.cmd = "EXECUTE_WRITE" => prepared = Nothing

\* A request that was on the channel when a failed write reset the controller.
Abandoned(r) ==
  IF r.op = 0 THEN r \in Free
  ELSE Serves(r) /\ PreparedFor(r) /\ calls[r.op].result = "dropped"

-----------------------------------------------------------------------------
(* The inductive invariant *)

AuthorsKnown ==
  \A a \in Handles, k \in 1..MaxChunks : content[a][k] # 0 => content[a][k] \in DOMAIN calls
QueueServes ==
  openRequests # <<>> =>
    /\ Tail(openRequests) \in Seq(Waiting)
    /\ IF rsp = <<>> THEN Head(openRequests) \in Waiting
                     ELSE IsAnswered(Head(openRequests), Head(rsp))
WireServes == openRequests = <<>> /\ wire # <<>> => Abandoned(Head(wire))
OneEach == \A i \in 1..MaxCalls : Count(openRequests, CallRequests(i)) <= 1
OneLong ==
  /\ Count(openRequests, LongRequests) <= 1
  /\ Count(openRequests, LongRequests) = 0
       /\ (openRequests # <<>> \/ state # "Unconnected" \/ ~socketOpen) =>
       prepared = Nothing
ClosedForgets ==
  ~socketOpen => prepared = Nothing /\ \A s \in Services : svc[s] # "Discovered"
NoneOverdue ==
  "loss" \notin Environment /\ requestPending /\ wire = <<>> /\ rsp = <<>> =>
    Head(openRequests).op = 0

Serving ==
  /\ AuthorsKnown /\ QueueServes /\ WireServes /\ OneEach /\ OneLong
  /\ ClosedForgets /\ NoneOverdue
AccessInv == IInv /\ Serving

-----------------------------------------------------------------------------
(* Sequences of requests *)

LEMMA ElementsIn ==
  ASSUME NEW S, NEW T, NEW s \in Seq(S), \A k \in 1..Len(s) : s[k] \in T
  PROVE  s \in Seq(T)
<1>1. s \in [1..Len(s) -> S] /\ Len(s) \in Nat
  BY LenProperties
<1>2. s \in [1..Len(s) -> T]
  BY <1>1
<1> QED
  BY <1>1, <1>2, SeqDef

\* A sequence with no element in Q or R is one over T, if T has all the others.
LEMMA ElementsKept ==
  ASSUME NEW S, NEW T, NEW s \in Seq(S), NEW Q, NEW R,
         Count(s, Q) = 0, Count(s, R) = 0,
         \A e \in S : e \notin Q /\ e \notin R => e \in T
  PROVE  s \in Seq(T)
<1>1. Places(s, Q) = {} /\ Places(s, R) = {} /\ DOMAIN s = 1..Len(s)
  BY CountZero, LenProperties
<1>2. ASSUME NEW k \in 1..Len(s)
      PROVE  s[k] \in T
  <2>1. s[k] \in S
    BY ElementOfSeq
  <2>2. s[k] \notin Q /\ s[k] \notin R
    BY <1>1 DEF Places
  <2> QED
    BY <2>1, <2>2
<1> QED
  BY <1>2, ElementsIn

LEMMA HeadTailIn ==
  ASSUME NEW S, NEW T, NEW s \in Seq(S), s # <<>>, Head(s) \in T, Tail(s) \in Seq(T)
  PROVE  s \in Seq(T)
<1>1. /\ Len(Tail(s)) = Len(s) - 1 /\ Len(s) \in Nat \ {0}
      /\ Head(s) = s[1]
      /\ \A i \in 1..Len(Tail(s)) : Tail(s)[i] = s[i + 1]
  BY HeadTailProperties, EmptySeq
<1>2. ASSUME NEW k \in 1..Len(s)
      PROVE  s[k] \in T
  <2>1. CASE k = 1
    BY <1>1, <2>1
  <2>2. CASE k # 1
    <3>1. k - 1 \in 1..Len(Tail(s)) /\ (k - 1) + 1 = k
      BY <1>1, <2>2
    <3>2. Tail(s)[k - 1] \in T
      BY <3>1, ElementOfSeq
    <3> QED
      BY <1>1, <3>1, <3>2
  <2> QED
    BY <2>1, <2>2
<1> QED
  BY <1>2, ElementsIn
-----------------------------------------------------------------------------
(* What an answer does to the queue, as far as the calls are concerned       *)

\* Requests for nobody follow, and the call may be answered: with success only
\* when the peer reported success.
Reported(r, p) ==
  \/ calls' = calls
  \/ /\ p.err = "none" /\ (Commits(r) \/ r.cmd \in ReadCommands)
     /\ calls' = Settle(r.op, "ok")
  \/ ~(p.err = "none" /\ Commits(r)) /\ calls' = Settle(r.op, "error")
FreeFollow(rest) == \E more \in Seq(Free) : openRequests' = rest \o more
Released(r, p, rest) ==
  r.cmd # "PREPARE_WRITE" /\ FreeFollow(rest) /\ Reported(r, p)

\* Or the next request of the same call takes its place.
NextOf(e, r, p) ==
  \/ e = r /\ p.err = "auth" /\ r.cmd # "EXECUTE_WRITE"
  \/ e = BlobReq(r) /\ r.cmd \in ReadCommands
  \/ /\ r.cmd = "PREPARE_WRITE"
     /\ \/ p.err # "none" /\ e = ExecuteReq(r.target, r.op, "cancel")
        \/ /\ p.err = "none" /\ r.off < calls[r.op].size
           /\ e = PrepareReq(r.target, r.op, r.off + 1)
        \/ /\ p.err = "none" /\ ~(r.off < calls[r.op].size)
           /\ e = ExecuteReq(r.target, r.op, "commit")
Replaced(r, p, rest) ==
  /\ \E e \in Requests :
       /\ NextOf(e, r, p)
       /\ openRequests' = <<e>> \o rest \/ openRequests' = Append(rest, e)
  /\ calls' = calls
Moves(r, p, rest) == Released(r, p, rest) \/ Replaced(r, p, rest)

\* What the handlers work on.
Delivered(r, p, rest) ==
  /\ TypeOK /\ r \in Requests /\ rest \in Seq(Requests)
  /\ p \in Answers /\ p.cmd = r.cmd

LEMMA FreeRequests ==
  /\ MtuReq \in Free
  /\ \A type \in Arguments : GroupReq(type) \in Free
  /\ \A s \in Services, type \in Arguments, page \in Nat : TypeReq(s, type, page) \in Free
  /\ \A c \in Chars : FindReq(c) \in Free
  /\ \A a \in Handles, last \in BOOLEAN : ReadReq(a, last, 0) \in Free
<1>1. \A a \in Handles, last \in BOOLEAN : ReadReq(a, last, 0) \in Free
  BY DiscoveryReadShape DEF Free, WellFormed, WriteCommands
<1> QED
  BY <1>1, ListRequestsShape DEF Free, WellFormed, WriteCommands

LEMMA NoneFollows ==
  ASSUME NEW rest \in Seq(Requests), Continue(rest)
  PROVE  FreeFollow(rest)
<1>1. <<>> \in Seq(Free) /\ rest \o <<>> = rest
  BY EmptySeq, ConcatEmptySeq
<1> QED
  BY <1>1, ContinueQueue DEF FreeFollow

LEMMA OneFollows ==
  ASSUME NEW rest \in Seq(Requests), NEW e \in Free, Continue(Append(rest, e))
  PROVE  FreeFollow(rest)
<1>1. <<e>> \in Seq(Free)
  OBVIOUS
<1>2. Append(rest, e) = rest \o <<e>>
  BY AppendIsConcat DEF Free
<1> QED
  BY <1>1, <1>2, ContinueQueue DEF FreeFollow

LEMMA DescriptorsFollow ==
  ASSUME NEW s, NEW chars \in SUBSET Chars, NEW rest \in Seq(Requests),
         DiscoverServiceDescriptors(s, chars, rest)
  PROVE  FreeFollow(rest)
<1>1. ASSUME NEW c \in chars, Continue(Append(rest, FindReq(c)))
      PROVE  FreeFollow(rest)
  <2>1. FindReq(c) \in Free
    BY FreeRequests
  <2> QED
    BY <1>1, <2>1, OneFollows
<1> QED
  BY <1>1, NoneFollows DEF DiscoverServiceDescriptors

LEMMA ReadsFollow ==
  ASSUME NEW targets \in SUBSET Handles, NEW reads \in ReadRequests(targets),
         NEW rest, Continue(rest \o reads)
  PROVE  FreeFollow(rest)
<1> DEFINE n == Cardinality(targets)
<1>1. n \in Nat
  BY ConstantsAssumption, FS_Subset, FS_CardinalityType
<1>2. PICK f \in HashOrders(targets) :
        reads = [i \in 1..n |-> ReadReq(f[i], i = n, 0)]
  BY DEF ReadRequests
<1>3. f \in [1..n -> targets]
  BY <1>2 DEF HashOrders
<1>4. ASSUME NEW i \in 1..n
      PROVE  ReadReq(f[i], i = n, 0) \in Free
  <2>1. f[i] \in Handles /\ (i = n) \in BOOLEAN
    BY <1>3
  <2> QED
    BY <2>1, FreeRequests
<1>5. reads \in [1..n -> Free]
  BY <1>2, <1>4
<1>6. reads \in Seq(Free)
  BY <1>1, <1>5, SeqDef
<1> QED
  BY <1>6, ContinueQueue DEF FreeFollow

LEMMA ReadValuesFollow ==
  ASSUME NEW s, NEW readCharacteristics \in BOOLEAN, NEW known \in SUBSET Handles,
         NEW rest \in Seq(Requests),
         ReadServiceValues(s, readCharacteristics, known, rest)
  PROVE  FreeFollow(rest)
<1> DEFINE targets == IF mode[s] = "skip" THEN {}
                      ELSE IF readCharacteristics THEN known \cap Readable
                      ELSE known \ Chars
<1>1. targets \in SUBSET Handles
  OBVIOUS
<1>2. CASE \E reads \in ReadRequests(targets) : Continue(rest \o reads)
  BY <1>1, <1>2, ReadsFollow
<1>3. CASE DiscoverServiceDescriptors(s, known \cap Chars, rest)
  BY <1>3, DescriptorsFollow
<1>4. CASE Continue(rest)
  BY <1>4, NoneFollows
<1> QED
  BY <1>2, <1>3, <1>4 DEF ReadServiceValues

LEMMA LastReadFollows ==
  ASSUME TypeOK, NEW r \in Requests, r.cmd \in ReadCommands,
         NEW rest \in Seq(Requests), AfterLastRead(r, rest)
  PROVE  FreeFollow(rest)
<1> DEFINE s == ServiceForHandle(r.target)
<1>1. found[s] \cap Chars \in SUBSET Chars
  OBVIOUS
<1>2. CASE DiscoverServiceDescriptors(s, found[s] \cap Chars, rest)
  BY <1>1, <1>2, DescriptorsFollow
<1>3. CASE Continue(rest)
  BY <1>3, NoneFollows
<1> QED
  BY <1>2, <1>3 DEF AfterLastRead

-----------------------------------------------------------------------------
(* Every handler moves the queue that way *)

LEMMA RaiseMoves ==
  ASSUME NEW r, NEW p, NEW rest, Delivered(r, p, rest), r.cmd # "EXECUTE_WRITE",
         RaiseSecurity(r, p, rest)
  PROVE  Moves(r, p, rest)
<1>1. p.err = "auth" /\ openRequests' = <<r>> \o rest /\ calls' = calls
  BY DEF RaiseSecurity, SendNextPendingRequest
<1>2. NextOf(r, r, p) /\ r \in Requests
  BY <1>1 DEF NextOf, Delivered
<1> QED
  BY <1>1, <1>2 DEF Moves, Replaced

LEMMA BlobMoves ==
  ASSUME NEW r, NEW p, NEW rest, Delivered(r, p, rest), r.cmd \in ReadCommands,
         Continue(<<BlobReq(r)>> \o rest), calls' = calls
  PROVE  Moves(r, p, rest)
<1>1. BlobReq(r) \in Requests
  BY BlobTyped DEF Delivered, ReadCommands
<1>2. NextOf(BlobReq(r), r, p)
  BY DEF NextOf
<1> QED
  BY <1>1, <1>2, ContinueQueue DEF Moves, Replaced

LEMMA ListingsMove ==
  ASSUME NEW r, NEW p, NEW rest, Delivered(r, p, rest),
         \/ r.cmd = "EXCHANGE_MTU" /\ ExchangeMtuReply(rest)
         \/ r.cmd = "READ_BY_GROUP" /\ ReadByGroupReply(r, p, rest)
  PROVE  Moves(r, p, rest)
<1>1. r.arg \in Arguments /\ rest \in Seq(Requests)
  BY RequestFields DEF Delivered
<1>2. calls' = calls /\ r.cmd # "PREPARE_WRITE"
  BY DEF ExchangeMtuReply, ReadByGroupReply
<1>3. CASE Continue(rest)
  BY <1>1, <1>2, <1>3, NoneFollows DEF Moves, Released, Reported
<1>4. ASSUME NEW type \in Arguments, Continue(Append(rest, GroupReq(type)))
      PROVE  FreeFollow(rest)
  <2>1. GroupReq(type) \in Free
    BY FreeRequests
  <2> QED
    BY <1>1, <1>4, <2>1, OneFollows
<1>5. CASE Continue(Append(rest, GroupReq(r.arg)))
  BY <1>1, <1>2, <1>4, <1>5 DEF Moves, Released, Reported
<1>6. CASE Continue(Append(rest, GroupReq("secondary")))
  BY <1>2, <1>4, <1>6 DEF Moves, Released, Reported, Arguments
<1> QED
  BY <1>3, <1>5, <1>6 DEF ExchangeMtuReply, ReadByGroupReply

LEMMA TypeMoves ==
  ASSUME NEW r, NEW p, NEW rest, Delivered(r, p, rest), r.cmd = "READ_BY_TYPE",
         ReadByTypeReply(r, p, rest)
  PROVE  Moves(r, p, rest)
<1> DEFINE s == r.target
<1> DEFINE known == found[s] \cup p.items
<1>1. /\ s \in Services /\ r.arg \in Arguments /\ r.off + 1 \in Nat
      /\ rest \in Seq(Requests)
  BY RequestFields DEF Delivered
<1>2. known \in SUBSET Handles
  BY <1>1, AnswerFields DEF Delivered, TypeOK
<1>3. SUFFICES FreeFollow(rest)
  BY <1>3 DEF ReadByTypeReply, Moves, Released, Reported
<1>4. ASSUME NEW type \in Arguments, NEW page \in Nat,
             Continue(Append(rest, TypeReq(s, type, page)))
      PROVE  FreeFollow(rest)
  <2>1. TypeReq(s, type, page) \in Free
    BY <1>1, FreeRequests
  <2> QED
    BY <1>1, <1>4, <2>1, OneFollows
<1>5. CASE Continue(Append(rest, TypeReq(s, r.arg, r.off + 1)))
  BY <1>1, <1>4, <1>5
<1>6. CASE Continue(Append(rest, TypeReq(s, "characteristic", 0)))
  BY <1>4, <1>6 DEF Arguments
<1>7. CASE ReadServiceValues(s, TRUE, known, rest)
  BY <1>1, <1>2, <1>7, ReadValuesFollow
<1>8. CASE Continue(rest)
  BY <1>1, <1>8, NoneFollows
<1> QED
  BY <1>5, <1>6, <1>7, <1>8 DEF ReadByTypeReply

LEMMA FindMoves ==
  ASSUME NEW r, NEW p, NEW rest, Delivered(r, p, rest),
         r.cmd = "FIND_INFORMATION", FindInformationReply(r, p, rest)
  PROVE  Moves(r, p, rest)
<1> DEFINE s == ServiceForHandle(r.target)
<1> DEFINE known == found[s] \cup p.items
<1>1. s \in Services /\ r.target \in Chars /\ rest \in Seq(Requests)
  BY RequestFields, CharOwner DEF Delivered
<1>2. known \in SUBSET Handles
  BY <1>1, AnswerFields DEF Delivered, TypeOK
<1>3. SUFFICES FreeFollow(rest)
  BY <1>3 DEF FindInformationReply, Moves, Released, Reported
<1>4. ASSUME NEW c \in Chars, Continue(Append(rest, FindReq(c)))
      PROVE  FreeFollow(rest)
  <2>1. FindReq(c) \in Free
    BY FreeRequests
  <2> QED
    BY <1>1, <1>4, <2>1, OneFollows
<1>5. CASE \E c \in Chars : Continue(Append(rest, FindReq(c)))
  BY <1>4, <1>5
<1>6. CASE ReadServiceValues(s, FALSE, known, rest)
  BY <1>1, <1>2, <1>6, ReadValuesFollow
<1> QED
  BY <1>1, <1>5, <1>6 DEF FindInformationReply

LEMMA ReadMoves ==
  ASSUME NEW r, NEW p, NEW rest, Delivered(r, p, rest), r.cmd = "READ",
         ReadReply(r, p, rest)
  PROVE  Moves(r, p, rest)
<1>1. r \in Requests /\ rest \in Seq(Requests) /\ TypeOK /\ r.cmd \in ReadCommands
  BY DEF Delivered, ReadCommands
<1>2. CASE RaiseSecurity(r, p, rest)
  BY <1>2, RaiseMoves
<1>3. CASE Continue(<<BlobReq(r)>> \o rest) /\ calls' = calls
  BY <1>1, <1>3, BlobMoves
<1>4. CASE /\ AfterLastRead(r, rest) \/ Continue(rest)
           /\ \/ calls' = calls
              \/ calls' = Settle(r.op, IF p.err = "none" THEN "ok" ELSE "error")
  <2>1. FreeFollow(rest)
    BY <1>1, <1>4, LastReadFollows, NoneFollows
  <2>2. Reported(r, p)
    BY <1>1, <1>4 DEF Reported
  <2> QED
    BY <2>1, <2>2 DEF Moves, Released
<1> QED
  BY <1>2, <1>3, <1>4 DEF ReadReply

LEMMA ReadBlobMoves ==
  ASSUME NEW r, NEW p, NEW rest, Delivered(r, p, rest), r.cmd = "READ_BLOB",
         ReadBlobReply(r, p, rest)
  PROVE  Moves(r, p, rest)
<1>1. r \in Requests /\ rest \in Seq(Requests) /\ TypeOK /\ r.cmd \in ReadCommands
  BY DEF Delivered, ReadCommands
<1>2. CASE Continue(<<BlobReq(r)>> \o rest) /\ calls' = calls
  BY <1>1, <1>2, BlobMoves
<1>3. CASE /\ AfterLastRead(r, rest) \/ Continue(rest)
           /\ calls' = calls \/ (p.err = "none" /\ calls' = Settle(r.op, "ok"))
  <2>1. FreeFollow(rest)
    BY <1>1, <1>3, LastReadFollows, NoneFollows
  <2>2. Reported(r, p)
    BY <1>1, <1>3 DEF Reported
  <2> QED
    BY <2>1, <2>2 DEF Moves, Released
<1> QED
  <2>1. CASE Continue(<<BlobReq(r)>> \o rest) /\ UNCHANGED <<state, svc, found, calls>>
    BY <1>2, <2>1
  <2>2. ASSUME IF r.arg = "last" THEN AfterLastRead(r, rest)
                               ELSE Continue(rest) /\ svc' = svc,
               UNCHANGED <<state, found, calls>>
        PROVE  Moves(r, p, rest)
    <3>1. AfterLastRead(r, rest) \/ Continue(rest)
      BY <2>2
    <3>2. calls' = calls
      BY <2>2
    <3> QED
      BY <1>3, <3>1, <3>2
  <2>3. CASE p.err = "none" /\ calls' = Settle(r.op, "ok") /\ Continue(rest)
    BY <1>3, <2>3
  <2> QED
    BY <2>1, <2>2, <2>3, Zenon DEF ReadBlobReply

LEMMA WriteMoves ==
  ASSUME NEW r, NEW p, NEW rest, Delivered(r, p, rest),
         \/ r.cmd = "WRITE" /\ WriteReply(r, p, rest)
         \/ r.cmd = "EXECUTE_WRITE" /\ ExecuteWriteReply(r, p, rest)
  PROVE  Moves(r, p, rest)
<1>1. CASE r.cmd = "WRITE" /\ RaiseSecurity(r, p, rest)
  BY <1>1, RaiseMoves
<1>2. CASE /\ Continue(rest)
           /\ \/ /\ r.cmd = "WRITE"
                 /\ calls' = Settle(r.op, IF p.err = "none" THEN "ok" ELSE "error")
              \/ /\ r.cmd = "EXECUTE_WRITE"
                 /\ calls' = Settle(r.op, IF p.err = "none" /\ r.arg = "commit"
                                            THEN "ok" ELSE "error")
  <2>1. FreeFollow(rest)
    BY <1>2, NoneFollows DEF Delivered
  <2>2. Reported(r, p)
    BY <1>2 DEF Reported, Commits
  <2> QED
    BY <1>2, <2>1, <2>2 DEF Moves, Released
<1> QED
  BY <1>1, <1>2 DEF WriteReply, ExecuteWriteReply

LEMMA PrepareWriteMoves ==
  ASSUME NEW r, NEW p, NEW rest, Delivered(r, p, rest), r.cmd = "PREPARE_WRITE",
         PrepareWriteReply(r, p, rest)
  PROVE  Moves(r, p, rest)
<1>1. r.target \in Handles /\ r.op \in 0..MaxCalls /\ r.off + 1 \in Nat
  BY RequestFields DEF Delivered
<1>2. /\ PrepareReq(r.target, r.op, r.off + 1) \in Requests
      /\ ExecuteReq(r.target, r.op, "cancel") \in Requests
      /\ ExecuteReq(r.target, r.op, "commit") \in Requests
  BY <1>1, AccessRequestsTyped DEF Arguments
<1>3. CASE RaiseSecurity(r, p, rest)
  BY <1>3, RaiseMoves
<1>4. CASE /\ p.err # "none" /\ calls' = calls
           /\ Continue(<<ExecuteReq(r.target, r.op, "cancel")>> \o rest)
  BY <1>2, <1>4, ContinueQueue DEF Moves, Replaced, NextOf
<1>5. CASE /\ p.err = "none" /\ r.off < calls[r.op].size /\ calls' = calls
           /\ Continue(Append(rest, PrepareReq(r.target, r.op, r.off + 1)))
  BY <1>2, <1>5, ContinueQueue DEF Moves, Replaced, NextOf
<1>6. CASE /\ p.err = "none" /\ ~(r.off < calls[r.op].size) /\ calls' = calls
           /\ Continue(<<ExecuteReq(r.target, r.op, "commit")>> \o rest)
  BY <1>2, <1>6, ContinueQueue DEF Moves, Replaced, NextOf
<1> QED
  BY <1>3, <1>4, <1>5, <1>6 DEF PrepareWriteReply

LEMMA ReplyMoves ==
  ASSUME NEW r, NEW p, NEW rest, Delivered(r, p, rest), ProcessReply(r, p, rest)
  PROVE  Moves(r, p, rest)
<1>1. p.cmd = r.cmd
  BY DEF Delivered
<1> QED
  BY <1>1, ListingsMove, TypeMoves, FindMoves, ReadMoves, ReadBlobMoves,
     WriteMoves, PrepareWriteMoves
  DEF ProcessReply

-----------------------------------------------------------------------------
(* What the peer makes of a request                                          *)

\* The call a request is made for.
LEMMA ServedCall ==
  ASSUME calls \in Seq(Calls), NEW r, Serves(r)
  PROVE  /\ r.op \in DOMAIN calls /\ r.op # 0 /\ calls[r.op] \in Calls
         /\ calls[r.op].size \in 1..MaxChunks /\ r.target \in Handles
         /\ calls[r.op].target = r.target
<1>1. DOMAIN calls = 1..Len(calls) /\ r.op \in DOMAIN calls
  BY LenProperties DEF Serves
<1>2. calls[r.op] \in Calls
  BY <1>1, ElementOfSeq
<1> QED
  BY <1>1, <1>2 DEF Calls, Serves

\* Executing exactly the chunks of a write writes its value.
LEMMA ChunksExecuted ==
  ASSUME TypeOK, NEW r, Serves(r), prepared = Chunks(r, calls[r.op].size)
  PROVE  Executed = Written(r.target, r.op)
<1>1. r.op # 0 /\ r.target \in Handles
  BY ServedCall DEF TypeOK
<1>2. ASSUME NEW a \in Handles, NEW k \in 1..MaxChunks
      PROVE  prepared[a][k] =
               IF a = r.target /\ k <= calls[r.op].size THEN r.op ELSE 0
  BY DEF Chunks
<1>3. content \in [Handles -> [1..MaxChunks -> 0..MaxCalls]]
  BY DEF TypeOK
<1> DEFINE W == Written(r.target, r.op)
<1>4. W = [a \in Handles |-> IF a = r.target
             THEN [k \in 1..MaxChunks |->
                     IF k <= calls[r.op].size THEN r.op ELSE content[a][k]]
             ELSE content[a]]
  BY <1>1, <1>3 DEF Written
<1>5. ASSUME NEW a \in Handles
      PROVE  Executed[a] = W[a]
  <2> DEFINE row == [k \in 1..MaxChunks |->
               IF prepared[a][k] # 0 THEN prepared[a][k] ELSE content[a][k]]
  <2>1. Executed[a] = row
    BY DEF Executed
  <2>2. CASE a = r.target
    <3>1. W[a] = [k \in 1..MaxChunks |->
                    IF k <= calls[r.op].size THEN r.op ELSE content[a][k]]
      BY <1>4, <2>2
    <3> HIDE DEF W
    <3>2. ASSUME NEW k \in 1..MaxChunks
          PROVE  row[k] = IF k <= calls[r.op].size THEN r.op ELSE content[a][k]
      BY <1>1, <1>2, <2>2
    <3> QED
      BY <2>1, <3>1, <3>2
  <2>3. CASE a # r.target
    <3>1. W[a] = content[a] /\ content[a] \in [1..MaxChunks -> 0..MaxCalls]
      BY <1>3, <1>4, <2>3
    <3> HIDE DEF W
    <3>2. ASSUME NEW k \in 1..MaxChunks
          PROVE  row[k] = content[a][k]
      BY <1>2, <2>3
    <3> QED
      BY <2>1, <3>1, <3>2
  <2> QED
    BY <2>2, <2>3
<1>6. Executed = [a \in Handles |-> Executed[a]] /\ W = [a \in Handles |-> W[a]]
  BY <1>4 DEF Executed
<1> QED
  BY <1>5, <1>6

LEMMA StoresCommit ==
  ASSUME TypeOK, NEW r, Serves(r), PreparedFor(r), NEW err, PeerStores(r, err)
  PROVE  content' = IF err = "none" /\ Commits(r) THEN Written(r.target, r.op)
                                                  ELSE content
<1>1. CASE r.cmd = "EXECUTE_WRITE" /\ r.arg = "commit"
  BY <1>1, ChunksExecuted DEF PeerStores, PreparedFor, Commits
<1> QED
  BY <1>1 DEF PeerStores, Commits

LEMMA StoresPrepared ==
  ASSUME TypeOK, NEW r, Serves(r), PreparedFor(r), NEW err, PeerStores(r, err)
  PROVE  /\ r.cmd = "PREPARE_WRITE" =>
              prepared' = Chunks(r, IF err = "none" THEN r.off ELSE r.off - 1)
         /\ r.cmd = "EXECUTE_WRITE" => prepared' = Nothing
         /\ r.cmd \notin LongCommands => prepared' = prepared
<1>1. CASE r.cmd = "PREPARE_WRITE" /\ err = "none"
  <2>1. /\ prepared = Chunks(r, r.off - 1)
        /\ prepared' = [prepared EXCEPT ![r.target][r.off] = r.op]
        /\ r.off \in 1..calls[r.op].size
    BY <1>1 DEF PeerStores, PreparedFor, Serves
  <2>2. r.target \in Handles /\ r.off \in 1..MaxChunks
    BY <2>1, ServedCall, ConstantsAssumption DEF TypeOK
  <2> DEFINE before == [k \in 1..MaxChunks |-> IF k <= r.off - 1 THEN r.op ELSE 0]
             after == [k \in 1..MaxChunks |-> IF k <= r.off THEN r.op ELSE 0]
             none == [k \in 1..MaxChunks |-> 0]
  <2>3. [before EXCEPT ![r.off] = r.op] = after
    <3>1. ASSUME NEW k \in 1..MaxChunks
          PROVE  (IF k = r.off THEN r.op ELSE IF k <= r.off - 1 THEN r.op ELSE 0)
                   = IF k <= r.off THEN r.op ELSE 0
      BY <2>2, ConstantsAssumption
    <3> QED
      BY <3>1
  <2>4. Chunks(r, r.off - 1) = [a \in Handles |-> IF a = r.target THEN before ELSE none]
    BY DEF Chunks
  <2>5. Chunks(r, r.off) = [a \in Handles |-> IF a = r.target THEN after ELSE none]
    BY DEF Chunks
  <2> HIDE DEF before, after, none
  <2>6. [prepared EXCEPT ![r.target][r.off] = r.op]
          = [a \in Handles |-> IF a = r.target THEN after ELSE none]
    BY <2>1, <2>2, <2>3, <2>4
  <2> QED
    BY <1>1, <2>1, <2>5, <2>6 DEF LongCommands
<1>2. CASE r.cmd = "PREPARE_WRITE" /\ err # "none"
  BY <1>2 DEF PeerStores, PreparedFor, LongCommands
<1>3. CASE r.cmd = "EXECUTE_WRITE"
  BY <1>3 DEF PeerStores, Nothing, LongCommands
<1>4. CASE r.cmd \notin LongCommands
  BY <1>4 DEF PeerStores, LongCommands
<1> QED
  BY <1>1, <1>2, <1>3, <1>4 DEF LongCommands

\* A request that no call waits for changes nothing at the peer.
LEMMA FreeStores ==
  ASSUME NEW r \in Free, NEW err, PeerStores(r, err)
  PROVE  prepared' = prepared /\ content' = content
  BY DEF PeerStores, Free, WriteCommands

\* A written value is held, and no trace of another call appears.
LEMMA WrittenHeld ==
  ASSUME TypeOK, NEW i \in DOMAIN calls, calls' = calls,
         content' = Written(calls[i].target, i)
  PROVE  /\ Access!Holds(i)'
         /\ \A j : j # i /\ Access!NoTrace(j) => Access!NoTrace(j)'
<1>1. calls[i] \in Calls
  <2>1. i \in 1..Len(calls) /\ calls \in Seq(Calls)
    BY LenProperties DEF TypeOK
  <2> QED
    BY <2>1, ElementOfSeq
<1>2. calls[i].target \in Handles /\ calls[i].size \in 1..MaxChunks
  BY <1>1 DEF Calls
<1>3. content \in [Handles -> [1..MaxChunks -> 0..MaxCalls]]
  BY DEF TypeOK
<1>4. ASSUME NEW a \in Handles, NEW k \in 1..MaxChunks
      PROVE  content'[a][k] =
               IF a = calls[i].target /\ k <= calls[i].size THEN i ELSE content[a][k]
  BY <1>2, <1>3, <1>4 DEF Written
<1>5. \A k \in 1..calls[i].size : k \in 1..MaxChunks /\ k <= calls[i].size
  BY <1>2, ConstantsAssumption
<1>6. Access!Holds(i)'
  BY <1>2, <1>4, <1>5 DEF Access!Holds
<1>7. ASSUME NEW j, j # i, Access!NoTrace(j)
      PROVE  Access!NoTrace(j)'
  BY <1>4, <1>7 DEF Access!NoTrace
<1> QED
  BY <1>6, <1>7

-----------------------------------------------------------------------------
(* The requests that a step does not touch keep what they stand for          *)

LEMMA FrontRequests ==
  ASSUME IInv, NEW r, NEW rest, Front(r, rest)
  PROVE  /\ r \in Requests /\ rest \in Seq(Requests)
         /\ openRequests \in Seq(Requests) /\ openRequests # <<>>
         /\ \A R : /\ Count(rest, R) \in Nat
                   /\ Count(openRequests, R)
                        = Count(rest, R) + (IF r \in R THEN 1 ELSE 0)
<1>1. openRequests \in Seq(Requests) /\ openRequests # <<>>
  BY DEF IInv, TypeOK, Front
<1>2. r \in Requests /\ rest \in Seq(Requests)
  BY <1>1, HeadTailSeq DEF Front
<1>3. ASSUME NEW R
      PROVE  /\ Count(rest, R) \in Nat
             /\ Count(openRequests, R)
                  = Count(rest, R) + (IF r \in R THEN 1 ELSE 0)
  BY <1>1, <1>2, CountType, CountTail DEF Front
<1> QED
  BY <1>1, <1>2, <1>3

LEMMA WaitingKept ==
  ASSUME NEW r \in Waiting,
         r.op # 0 =>
           /\ r.op \in DOMAIN calls' /\ calls'[r.op] = calls[r.op]
           /\ Access!NoTrace(r.op) => Access!NoTrace(r.op)'
           /\ r.cmd \in LongCommands => prepared' = prepared
  PROVE  r \in Waiting'
<1>1. CASE r.op = 0
  BY <1>1 DEF Waiting
<1>2. CASE r.op # 0
  <2>1. /\ r \in Requests /\ Serves(r) /\ PreparedFor(r)
        /\ Access!Open(r.op) /\ Access!NoTrace(r.op)
    BY <1>2 DEF Waiting
  <2>2. Serves(r)'
    BY <1>2, <2>1 DEF Serves
  <2>3. PreparedFor(r)'
    BY <1>2, <2>1 DEF PreparedFor, LongCommands
  <2>4. Access!Open(r.op)'
    BY <1>2, <2>1 DEF Access!Open
  <2> QED
    BY <1>2, <2>1, <2>2, <2>3, <2>4 DEF Waiting
<1> QED
  BY <1>1, <1>2

LEMMA RestKept ==
  ASSUME IInv, Serving, NEW r, NEW rest, Front(r, rest), rest \in Seq(Waiting),
         \A i \in DOMAIN calls : i # r.op =>
           /\ i \in DOMAIN calls' /\ calls'[i] = calls[i]
           /\ Access!NoTrace(i) => Access!NoTrace(i)',
         r.cmd \notin LongCommands => prepared' = prepared
  PROVE  rest \in Seq(Waiting')
<1> DEFINE Q == IF r.op = 0 THEN {} ELSE CallRequests(r.op)
           R == IF r.cmd \in LongCommands THEN LongRequests ELSE {}
<1>1. /\ r \in Requests /\ rest \in Seq(Requests) /\ r.op \in 0..MaxCalls
      /\ \A S : /\ Count(rest, S) \in Nat
                /\ Count(openRequests, S)
                     = Count(rest, S) + (IF r \in S THEN 1 ELSE 0)
  BY FrontRequests, RequestFields
<1>2. Count(rest, {}) = 0
  BY <1>1, CountNone
<1>3. Count(rest, Q) = 0
  <2>1. CASE r.op = 0
    BY <1>2, <2>1
  <2>2. CASE r.op # 0
    <3>1. r.op \in 1..MaxCalls /\ r \in CallRequests(r.op)
      BY <1>1, <2>2, ConstantsAssumption DEF CallRequests
    <3>2. Count(openRequests, CallRequests(r.op)) <= 1
      BY <3>1 DEF Serving, OneEach
    <3>3. /\ Count(rest, CallRequests(r.op)) \in Nat
          /\ Count(openRequests, CallRequests(r.op))
               = Count(rest, CallRequests(r.op)) + 1
      BY <1>1, <3>1
    <3> QED
      BY <2>2, <3>2, <3>3
  <2> QED
    BY <2>1, <2>2
<1>4. Count(rest, R) = 0
  <2>1. CASE r.cmd \notin LongCommands
    BY <1>2, <2>1
  <2>2. CASE r.cmd \in LongCommands
    <3>1. r \in LongRequests
      BY <1>1, <2>2 DEF LongRequests
    <3>2. Count(openRequests, LongRequests) <= 1
      BY DEF Serving, OneLong
    <3>3. /\ Count(rest, LongRequests) \in Nat
          /\ Count(openRequests, LongRequests) = Count(rest, LongRequests) + 1
      BY <1>1, <3>1
    <3> QED
      BY <2>2, <3>2, <3>3
  <2> QED
    BY <2>1, <2>2
<1>5. ASSUME NEW e \in Waiting, e \notin Q, e \notin R
      PROVE  e \in Waiting'
  <2>1. e \in Requests
    BY DEF Waiting
  <2>2. ASSUME e.op # 0
        PROVE  /\ e.op \in DOMAIN calls /\ e.op # r.op
               /\ e.cmd \in LongCommands => prepared' = prepared
    <3>1. e.op \in DOMAIN calls
      BY <2>2 DEF Waiting, Serves
    <3>2. e.op # r.op
      BY <1>5, <2>1, <2>2 DEF CallRequests
    <3>3. e.cmd \in LongCommands => r.cmd \notin LongCommands
      BY <1>5, <2>1 DEF LongRequests
    <3> QED
      BY <3>1, <3>2, <3>3
  <2> QED
    BY <2>2, WaitingKept
<1> HIDE DEF Q, R
<1> QED
  BY <1>3, <1>4, <1>5, ElementsKept

\* Nothing that a queued request depends on has changed.
LEMMA AllKept ==
  ASSUME \A i \in DOMAIN calls :
           i \in DOMAIN calls' /\ calls'[i] = calls[i],
         content' = content, prepared' = prepared
  PROVE  Waiting \subseteq Waiting'
<1>1. \A i : Access!NoTrace(i) => Access!NoTrace(i)'
  BY DEF Access!NoTrace
<1>2. ASSUME NEW r \in Waiting
      PROVE  r \in Waiting'
  <2>1. r.op # 0 => r.op \in DOMAIN calls
    BY DEF Waiting, Serves
  <2> QED
    BY <1>1, <2>1, WaitingKept
<1> QED
  BY <1>2

LEMMA FreeWaits == Free \subseteq Waiting /\ Free \subseteq Waiting'
  BY DEF Waiting, Free

LEMMA SeqSubset ==
  ASSUME NEW S, NEW T, S \subseteq T
  PROVE  Seq(S) \subseteq Seq(T)
<1> SUFFICES ASSUME NEW s \in Seq(S)
             PROVE  s \in Seq(T)
  OBVIOUS
<1>1. \A k \in 1..Len(s) : s[k] \in T
  BY ElementOfSeq
<1> QED
  BY <1>1, ElementsIn

-----------------------------------------------------------------------------
(* An answer keeps the queue in order, and shows as one step of a call       *)

\* The next request of a call stands for the same call.
LEMMA NextFields ==
  ASSUME NEW r, NEW e, NEW p, NextOf(e, r, p)
  PROVE  /\ e.op = r.op /\ e.target = r.target
         /\ e.cmd \in LongCommands <=> r.cmd \in LongCommands
  BY DEF NextOf, BlobReq, PrepareReq, ExecuteReq, Req, LongCommands, ReadCommands

LEMMA NextServes ==
  ASSUME calls \in Seq(Calls), NEW r \in Requests, NEW e, NEW p, Serves(r),
         NextOf(e, r, p)
  PROVE  Serves(e)
<1>1. e.op = r.op /\ e.target = r.target
  BY NextFields
<1>2. CASE e = r
  BY <1>2
<1>3. CASE e = BlobReq(r) /\ r.cmd \in ReadCommands
  <2>1. e.cmd = "READ_BLOB"
    BY <1>3 DEF BlobReq, Req
  <2> QED
    BY <1>1, <1>3, <2>1 DEF Serves, AccessCommands, ReadCommands
<1>4. CASE r.cmd = "PREPARE_WRITE" /\ e = PrepareReq(r.target, r.op, r.off + 1)
             /\ r.off < calls[r.op].size
  <2>1. e.cmd = "PREPARE_WRITE" /\ e.off = r.off + 1
    BY <1>4 DEF PrepareReq, Req
  <2>2. calls[r.op].size \in Nat /\ r.off \in 1..calls[r.op].size
    BY <1>4, ServedCall, ConstantsAssumption DEF Serves
  <2>3. r.off + 1 \in 1..calls[r.op].size
    BY <1>4, <2>2
  <2> QED
    BY <1>1, <1>4, <2>1, <2>3 DEF Serves, AccessCommands, ReadCommands
<1>5. CASE /\ r.cmd = "PREPARE_WRITE"
           /\ \E flag : e = ExecuteReq(r.target, r.op, flag)
  <2>1. e.cmd = "EXECUTE_WRITE"
    BY <1>5 DEF ExecuteReq, Req
  <2> QED
    BY <1>1, <1>5, <2>1 DEF Serves, AccessCommands, ReadCommands
<1> QED
  BY <1>2, <1>3, <1>4, <1>5 DEF NextOf

LEMMA NextPrepared ==
  ASSUME calls \in Seq(Calls), NEW r \in Requests, NEW e, NEW p,
         r.op # 0, IsAnswered(r, p), NextOf(e, r, p)
  PROVE  PreparedFor(e) /\ Access!NoTrace(e.op)
<1>1. /\ Serves(r) /\ e.op = r.op /\ e.target = r.target
      /\ r.cmd = "PREPARE_WRITE" =>
           prepared = Chunks(r, IF p.err = "none" THEN r.off ELSE r.off - 1)
  BY NextFields DEF IsAnswered
<1>2. \A n : Chunks(e, n) = Chunks(r, n)
  BY <1>1 DEF Chunks
<1>3. r.off \in Nat
  BY RequestFields
<1>4. CASE e = r /\ p.err = "auth" /\ r.cmd # "EXECUTE_WRITE"
  BY <1>1, <1>4 DEF PreparedFor, IsAnswered
<1>5. CASE e = BlobReq(r) /\ r.cmd \in ReadCommands
  BY <1>1, <1>5 DEF PreparedFor, IsAnswered, BlobReq, Req, Commits, ReadCommands
<1>6. CASE /\ r.cmd = "PREPARE_WRITE" /\ p.err # "none"
           /\ e = ExecuteReq(r.target, r.op, "cancel")
  BY <1>1, <1>6 DEF PreparedFor, IsAnswered, ExecuteReq, Req, Commits
<1>7. CASE /\ r.cmd = "PREPARE_WRITE" /\ p.err = "none"
           /\ e = PrepareReq(r.target, r.op, r.off + 1)
  <2>1. e.cmd = "PREPARE_WRITE" /\ e.off - 1 = r.off
    BY <1>3, <1>7 DEF PrepareReq, Req
  <2>2. PreparedFor(e)
    BY <1>1, <1>2, <1>7, <2>1 DEF PreparedFor
  <2> QED
    BY <1>1, <1>7, <2>2 DEF IsAnswered, Commits
<1>8. CASE /\ r.cmd = "PREPARE_WRITE" /\ p.err = "none"
           /\ ~(r.off < calls[r.op].size)
           /\ e = ExecuteReq(r.target, r.op, "commit")
  <2>1. e.cmd = "EXECUTE_WRITE"
    BY <1>8 DEF ExecuteReq, Req
  <2>2. calls[r.op].size \in Nat /\ r.off \in 1..calls[r.op].size
    BY <1>1, <1>8, ServedCall, ConstantsAssumption DEF Serves
  <2>3. r.off = calls[r.op].size
    BY <1>8, <2>2
  <2>4. prepared = Chunks(e, calls[e.op].size)
    BY <1>1, <1>2, <1>8, <2>3
  <2>5. PreparedFor(e)
    BY <2>1, <2>4 DEF PreparedFor
  <2> QED
    BY <1>1, <1>8, <2>5 DEF IsAnswered, Commits
<1> QED
  BY <1>4, <1>5, <1>6, <1>7, <1>8 DEF NextOf

LEMMA NextWaits ==
  ASSUME calls \in Seq(Calls), NEW r \in Requests, NEW e \in Requests, NEW p,
         IsAnswered(r, p), NextOf(e, r, p), UNCHANGED <<calls, content, prepared>>
  PROVE  e \in Waiting'
<1>1. CASE r.op = 0
  <2>1. r \in Free
    BY <1>1 DEF IsAnswered
  <2>2. e \in Free
    BY <2>1 DEF NextOf, Free, WriteCommands, BlobReq, Req
  <2> QED
    BY <2>2, FreeWaits
<1>2. CASE r.op # 0
  <2>1. Serves(r) /\ Access!Open(r.op) /\ e.op = r.op
    BY <1>2, NextFields DEF IsAnswered
  <2>2. Serves(e) /\ PreparedFor(e) /\ Access!NoTrace(e.op)
    BY <1>2, <2>1, NextServes, NextPrepared
  <2>3. e \in Waiting
    BY <1>2, <2>1, <2>2 DEF Waiting
  <2>4. Waiting \subseteq Waiting'
    BY AllKept
  <2> QED
    BY <2>3, <2>4
<1> QED
  BY <1>1, <1>2

\* The front request r is answered by p, and the controller acts on it.
AtFront(r, p, rest) ==
  /\ Front(r, rest) /\ Delivered(r, p, rest)
  /\ IsAnswered(r, p) /\ rest \in Seq(Waiting)
Taken(r, p, rest) ==
  /\ Moves(r, p, rest)
  /\ socketOpen /\ state' # "Unconnected" /\ SessionShape'
  /\ rsp' = <<>> /\ (requestPending' => wire' # <<>>)
  /\ UNCHANGED <<socketOpen, prepared, content>>

LEMMA MovedCalls ==
  ASSUME NEW r, NEW p, NEW rest, Moves(r, p, rest)
  PROVE  /\ calls' \in {calls, Settle(r.op, "ok"), Settle(r.op, "error")}
         /\ DOMAIN calls' = DOMAIN calls
         /\ \A i \in DOMAIN calls : i # r.op => calls'[i] = calls[i]
<1>1. calls' \in {calls, Settle(r.op, "ok"), Settle(r.op, "error")}
  BY DEF Moves, Released, Reported, Replaced
<1> QED
  BY <1>1 DEF Settle

LEMMA MovesQueue ==
  ASSUME IInv, Serving, NEW r, NEW p, NEW rest, AtFront(r, p, rest),
         Taken(r, p, rest)
  PROVE  openRequests' \in Seq(Waiting')
<1>1. rest \in Seq(Waiting')
  <2>1. \A i \in DOMAIN calls : i # r.op =>
          /\ i \in DOMAIN calls' /\ calls'[i] = calls[i]
          /\ Access!NoTrace(i) => Access!NoTrace(i)'
    BY MovedCalls DEF Taken, Access!NoTrace
  <2> QED
    BY <2>1, RestKept DEF AtFront, Taken
<1>2. CASE Released(r, p, rest)
  <2>1. PICK more \in Seq(Free) : openRequests' = rest \o more
    BY <1>2 DEF Released, FreeFollow
  <2>2. more \in Seq(Waiting')
    BY FreeWaits, SeqSubset
  <2> QED
    BY <1>1, <2>1, <2>2, ConcatProperties
<1>3. CASE Replaced(r, p, rest)
  <2>1. PICK e \in Requests :
          /\ NextOf(e, r, p)
          /\ openRequests' = <<e>> \o rest \/ openRequests' = Append(rest, e)
    BY <1>3 DEF Replaced
  <2>2. e \in Waiting'
    BY <1>3, <2>1, NextWaits
    DEF Replaced, Taken, AtFront, Delivered, TypeOK
  <2>3. CASE openRequests' = <<e>> \o rest
    BY <1>1, <2>2, <2>3, PrependSeq
  <2>4. CASE openRequests' = Append(rest, e)
    BY <1>1, <2>2, <2>4, AppendSeq
  <2> QED
    BY <2>1, <2>3, <2>4
<1> QED
  BY <1>2, <1>3 DEF Taken, Moves

LEMMA MovesCount ==
  ASSUME IInv, Serving, NEW r, NEW p, NEW rest, AtFront(r, p, rest),
         Taken(r, p, rest)
  PROVE  OneEach' /\ OneLong'
<1>1. /\ r \in Requests /\ rest \in Seq(Requests) /\ openRequests # <<>>
      /\ \A R : /\ Count(rest, R) \in Nat
                /\ Count(openRequests, R)
                     = Count(rest, R) + (IF r \in R THEN 1 ELSE 0)
  BY FrontRequests DEF AtFront
<1>2. /\ \A i \in 1..MaxCalls : Count(openRequests, CallRequests(i)) <= 1
      /\ Count(openRequests, LongRequests) <= 1
      /\ Count(openRequests, LongRequests) = 0 => prepared = Nothing
  BY <1>1 DEF Serving, OneEach, OneLong
<1>3. SUFFICES
        /\ \A i \in 1..MaxCalls : Count(openRequests', CallRequests(i)) <= 1
        /\ Count(openRequests', LongRequests) <= 1
        /\ Count(openRequests', LongRequests) = 0 => prepared' = Nothing
  BY DEF OneEach, OneLong, CallRequests, LongRequests, Nothing
<1>4. CASE Released(r, p, rest)
  <2>1. PICK more \in Seq(Free) : openRequests' = rest \o more
    BY <1>4 DEF Released, FreeFollow
  <2>2. more \in Seq(Requests)
    BY SeqSubset DEF Free
  <2>3. ASSUME NEW R, R \cap Free = {}
        PROVE  Count(openRequests', R) = Count(rest, R)
    <3>1. Count(more, R) = 0
      BY <2>3, CountNone, ElementOfSeq
    <3> QED
      BY <1>1, <2>1, <2>2, <3>1, CountConcat
  <2>4. ASSUME NEW i \in 1..MaxCalls
        PROVE  Count(openRequests', CallRequests(i)) <= 1
    <3>1. CallRequests(i) \cap Free = {}
      BY ConstantsAssumption DEF CallRequests, Free
    <3>2. Count(rest, CallRequests(i)) <= Count(openRequests, CallRequests(i))
      BY <1>1
    <3>3. Count(rest, CallRequests(i)) \in Nat /\ Count(openRequests, CallRequests(i)) \in Nat
      BY <1>1
    <3> QED
      BY <1>2, <2>3, <3>1, <3>2, <3>3
  <2>5. Count(openRequests', LongRequests) = Count(rest, LongRequests)
    BY <2>3 DEF LongRequests, LongCommands, Free, WriteCommands
  <2>6. CASE r \in LongRequests
    <3>1. r.cmd = "EXECUTE_WRITE" /\ r.op # 0
      BY <1>4, <2>6 DEF Released, LongRequests, LongCommands, AtFront, IsAnswered,
                        Free, WriteCommands
    <3>2. prepared = Nothing
      BY <3>1 DEF AtFront, IsAnswered
    <3>3. /\ Count(rest, LongRequests) \in Nat
          /\ Count(openRequests, LongRequests) = Count(rest, LongRequests) + 1
      BY <1>1, <2>6
    <3> QED
      BY <1>2, <2>4, <2>5, <3>2, <3>3 DEF Taken
  <2>7. CASE r \notin LongRequests
    <3>1. Count(openRequests, LongRequests) = Count(rest, LongRequests)
      BY <1>1, <2>7
    <3> QED
      BY <1>2, <2>4, <2>5, <3>1 DEF Taken
  <2> QED
    BY <2>6, <2>7
<1>5. CASE Replaced(r, p, rest)
  <2>1. PICK e \in Requests :
          /\ NextOf(e, r, p)
          /\ openRequests' = <<e>> \o rest \/ openRequests' = Append(rest, e)
    BY <1>5 DEF Replaced
  <2>2. e.op = r.op /\ (e.cmd \in LongCommands <=> r.cmd \in LongCommands)
    BY <2>1, NextFields
  <2>3. ASSUME NEW R, e \in R <=> r \in R
        PROVE  Count(openRequests', R) = Count(openRequests, R)
    BY <1>1, <2>1, <2>3, FollowerCount
  <2>4. \A i \in 1..MaxCalls :
          Count(openRequests', CallRequests(i)) = Count(openRequests, CallRequests(i))
    BY <1>1, <2>2, <2>3 DEF CallRequests
  <2>5. Count(openRequests', LongRequests) = Count(openRequests, LongRequests)
    BY <1>1, <2>2, <2>3 DEF LongRequests
  <2> QED
    BY <1>2, <2>4, <2>5 DEF Taken
<1> QED
  BY <1>4, <1>5 DEF Taken, Moves

LEMMA MovesKeep ==
  ASSUME IInv, Serving, NEW r, NEW p, NEW rest, AtFront(r, p, rest),
         Taken(r, p, rest)
  PROVE  Serving'
<1>1. openRequests' \in Seq(Waiting')
  BY MovesQueue
<1>2. openRequests' # <<>> =>
        Head(openRequests') \in Waiting' /\ Tail(openRequests') \in Seq(Waiting')
  BY <1>1, HeadTailSeq
<1>3. QueueServes'
  BY <1>2 DEF QueueServes, Taken
<1>4. AuthorsKnown'
  BY MovedCalls DEF Taken, Serving, AuthorsKnown
<1>5. WireServes'
  BY DEF WireServes, Taken, SessionShape
<1>6. ClosedForgets' /\ NoneOverdue'
  BY DEF ClosedForgets, NoneOverdue, Taken
<1> QED
  BY <1>3, <1>4, <1>5, <1>6, MovesCount DEF Serving

LEMMA MovesShow ==
  ASSUME IInv, NEW r, NEW p, NEW rest, AtFront(r, p, rest), Taken(r, p, rest)
  PROVE  [Access!Next]_(Access!vars)
<1>1. CASE calls' = calls
  BY <1>1 DEF Taken, Access!vars
<1>2. CASE r.op = 0
  <2>1. calls' = calls
    BY <1>2, MovedCalls, NothingToSettle DEF Taken, IInv, TypeOK
  <2> QED
    BY <1>1, <2>1
<1>3. CASE r.op # 0 /\ calls' # calls
  <2>1. Serves(r) /\ Access!Open(r.op)
    BY <1>3 DEF AtFront, IsAnswered
  <2>2. r.op \in 1..MaxCalls /\ r.op \in DOMAIN calls
    BY <1>3, <2>1, RequestFields, ConstantsAssumption
    DEF AtFront, Delivered, Serves
  <2>3. content' = content /\ Released(r, p, rest)
    BY <1>3 DEF Taken, Moves, Replaced
  <2>4. CASE /\ p.err = "none" /\ (Commits(r) \/ r.cmd \in ReadCommands)
             /\ calls' = Settle(r.op, "ok")
    <3>1. calls[r.op].kind = "write" => Access!Holds(r.op)
      BY <1>3, <2>1, <2>4 DEF AtFront, IsAnswered, Serves
    <3>2. calls' = [calls EXCEPT ![r.op].result = "ok"]
      BY <2>2, <2>4 DEF Settle
    <3>3. Access!Confirm(r.op)
      BY <2>1, <2>3, <3>1, <3>2 DEF Access!Confirm
    <3> QED
      BY <2>2, <3>3 DEF Access!Next
  <2>5. CASE ~(p.err = "none" /\ Commits(r)) /\ calls' = Settle(r.op, "error")
    <3>1. Access!NoTrace(r.op)
      BY <1>3, <2>5 DEF AtFront, IsAnswered
    <3>2. calls' = [calls EXCEPT ![r.op].result = "error"]
      BY <2>2, <2>5 DEF Settle
    <3>3. Access!Refuse(r.op)
      BY <2>1, <2>3, <3>1, <3>2 DEF Access!Refuse
    <3> QED
      BY <2>2, <3>3 DEF Access!Next
  <2> QED
    BY <1>3, <2>3, <2>4, <2>5 DEF Released, Reported
<1> QED
  BY <1>1, <1>2, <1>3

-----------------------------------------------------------------------------
(* The steps that take a request from the queue                              *)

LEMMA SentWhenPending ==
  ASSUME TypeOK, socketOpen, NEW q \in Seq(Requests), NEW encrypting,
         SendNextPendingRequest(q, FALSE, encrypting)
  PROVE  requestPending' => wire' # <<>>
<1> SUFFICES ASSUME requestPending'
             PROVE  wire' # <<>>
  OBVIOUS
<1>1. q # <<>> /\ wire' = Append(wire, Head(q))
  BY DEF SendNextPendingRequest
<1>2. Head(q) \in Requests /\ wire \in Seq(Requests)
  BY <1>1, HeadTailSeq DEF TypeOK
<1> QED
  BY <1>1, <1>2, AppendSeq

\* What the handlers are called with, when the answer is r's.
LEMMA RepliesTaken ==
  ASSUME IInv, IInv', Quiet, NEW r, NEW p, NEW rest, AtFront(r, p, rest),
         socketOpen, state # "Unconnected", ProcessReply(r, p, rest),
         rsp' = <<>>, UNCHANGED <<socketOpen, prepared, content>>
  PROVE  Taken(r, p, rest)
<1>1. /\ r \in Requests /\ p \in Answers /\ p.cmd = r.cmd /\ rest \in Seq(Requests)
      /\ Delivered(r, p, rest) /\ TypeOK
  BY DEF AtFront, Delivered
<1>2. Handled
  BY <1>1, ProcessReplyHandled
<1>3. requestPending' => wire' # <<>>
  BY <1>1, <1>2, SentWhenPending DEF Handled, Proceeds
<1>4. Moves(r, p, rest)
  BY <1>1, ReplyMoves
<1> QED
  BY <1>2, <1>3, <1>4 DEF Taken, Handled, IInv, QueueInv

LEMMA OtherAnswer ==
  ASSUME NEW r \in Requests
  PROVE  LET p == Answer(r, "other", {}, FALSE) IN
         p \in Answers /\ p.cmd = r.cmd /\ p.err = "other"
  BY RequestFields DEF Answer, Answers, Errors

LEMMA ReplyTaken ==
  ASSUME IInv, IInv', Serving, ReplyReceived
  PROVE  \E r, p, rest : AtFront(r, p, rest) /\ Taken(r, p, rest)
<1> DEFINE r0 == Head(openRequests)
           p0 == Head(rsp)
           rest0 == Tail(openRequests)
<1>1. /\ socketOpen /\ openRequests # <<>> /\ rsp # <<>> /\ rsp' = Tail(rsp)
      /\ ProcessReply(r0, p0, rest0)
      /\ UNCHANGED <<socketOpen, prepared, content>>
  BY DEF ReplyReceived
<1>2. /\ Quiet /\ TypeOK /\ Tail(rsp) = <<>> /\ state # "Unconnected"
      /\ r0 \in Requests /\ rest0 \in Seq(Requests)
      /\ p0 \in Answers /\ p0.cmd = r0.cmd
  BY <1>1, InFlight DEF IInv
<1>3. IsAnswered(r0, p0) /\ rest0 \in Seq(Waiting)
  BY <1>1 DEF Serving, QueueServes
<1>4. AtFront(r0, p0, rest0)
  BY <1>1, <1>2, <1>3 DEF AtFront, Front, Delivered
<1> HIDE DEF r0, p0, rest0
<1>5. Taken(r0, p0, rest0)
  BY <1>1, <1>2, <1>4, RepliesTaken
<1> QED
  BY <1>4, <1>5

\* Nothing but a listing request can be overdue, so nothing is given up that the
\* peer may have acted upon.
LEMMA TimeoutTaken ==
  ASSUME NoLateAnswers, AnswersComeInTime, IInv, IInv', Serving, RequestTimeout
  PROVE  \E r, p, rest : AtFront(r, p, rest) /\ Taken(r, p, rest)
<1> DEFINE r0 == Head(openRequests)
           p0 == Answer(r0, "other", {}, FALSE)
           rest0 == Tail(openRequests)
<1>1. /\ socketOpen /\ openRequests # <<>> /\ rsp = <<>> /\ rsp' = rsp
      /\ MonitorsWired /\ ~encryptionChangePending /\ requestPending /\ wire = <<>>
      /\ ProcessReply(r0, p0, rest0)
      /\ UNCHANGED <<socketOpen, prepared, content>>
  BY DEF RequestTimeout, NoLateAnswers
<1>2. /\ TypeOK /\ state # "Unconnected"
      /\ r0 \in Requests /\ rest0 \in Seq(Requests)
  BY <1>1, InFlight DEF IInv
<1>3. Quiet
  BY <1>1, <1>2 DEF Quiet
<1>4. p0 \in Answers /\ p0.cmd = r0.cmd
  BY <1>2, OtherAnswer
<1>5. r0.op = 0 /\ r0 \in Waiting /\ rest0 \in Seq(Waiting)
  BY <1>1 DEF AnswersComeInTime, Serving, NoneOverdue, QueueServes
<1>6. r0 \in Free
  BY <1>5 DEF Waiting
<1> HIDE DEF p0
<1>7. AtFront(r0, p0, rest0)
  BY <1>1, <1>2, <1>4, <1>5, <1>6 DEF AtFront, Front, Delivered, IsAnswered
<1> HIDE DEF r0, rest0
<1>8. Taken(r0, p0, rest0)
  BY <1>1, <1>2, <1>3, <1>7, RepliesTaken
<1> QED
  BY <1>7, <1>8

\* An encryption change that fails is as good as a refusal by the peer.
LEMMA FailedEncryptionTaken ==
  ASSUME IInv, IInv', Serving, EncryptionChanged(FALSE)
  PROVE  \E r, p, rest : AtFront(r, p, rest) /\ Taken(r, p, rest)
<1> DEFINE r0 == Head(openRequests)
           p0 == Answer(r0, "other", {}, FALSE)
           rest0 == Tail(openRequests)
           cancel == ExecuteReq(r0.target, r0.op, "cancel")
           q == IF r0.cmd = "PREPARE_WRITE" THEN <<cancel>> \o rest0 ELSE rest0
<1>1. /\ socketOpen /\ encryptionChangePending
      /\ SendNextPendingRequest(q, requestPending, FALSE)
      /\ calls' = IF r0.cmd = "WRITE" THEN Settle(r0.op, "error") ELSE calls
      /\ UNCHANGED <<state, socketOpen, rsp, prepared, content>>
  BY DEF EncryptionChanged
<1>2. /\ requestPending = FALSE /\ wire = <<>> /\ rsp = <<>> /\ openRequests # <<>>
      /\ r0.cmd \in AuthCommands /\ state # "Unconnected" /\ TypeOK
  BY <1>1 DEF IInv, QueueInv, EncryptionHoldsQueue, SessionShape, TypeOK
<1>3. r0 \in Requests /\ rest0 \in Seq(Requests)
  BY <1>2, HeadTailSeq DEF TypeOK
<1>4. p0 \in Answers /\ p0.cmd = r0.cmd /\ p0.err = "other"
  BY <1>3, OtherAnswer
<1>5. r0 \in Waiting /\ rest0 \in Seq(Waiting)
  BY <1>2 DEF Serving, QueueServes
<1> HIDE DEF p0
<1>6. IsAnswered(r0, p0)
  BY <1>2, <1>4, <1>5 DEF Waiting, IsAnswered, PreparedFor, AuthCommands
<1>7. AtFront(r0, p0, rest0)
  BY <1>2, <1>3, <1>4, <1>5, <1>6 DEF AtFront, Front, Delivered
<1>8. cancel \in Requests
  <2>1. r0.cmd \in {"READ", "WRITE", "PREPARE_WRITE"}
    BY <1>2 DEF AuthCommands
  <2>2. r0.target \in Handles /\ r0.op \in 0..MaxCalls
    BY <1>3, <2>1, RequestFields
  <2> QED
    BY <2>2, AccessRequestsTyped DEF Arguments
<1>9. q \in Seq(Requests)
  BY <1>3, <1>8, PrependSeq
<1>10. requestPending' => wire' # <<>>
  BY <1>1, <1>2, <1>9, SentWhenPending
<1>11. openRequests' = q
  BY <1>1 DEF SendNextPendingRequest
<1>12. Moves(r0, p0, rest0)
  <2>1. CASE r0.cmd = "PREPARE_WRITE"
    <3>1. NextOf(cancel, r0, p0)
      BY <1>4, <2>1 DEF NextOf
    <3> QED
      BY <1>1, <1>8, <1>11, <2>1, <3>1 DEF Moves, Replaced
  <2>2. CASE r0.cmd # "PREPARE_WRITE"
    <3>1. <<>> \in Seq(Free) /\ openRequests' = rest0 \o <<>>
      BY <1>3, <1>11, <2>2, ConcatEmptySeq, EmptySeq
    <3>2. Reported(r0, p0)
      BY <1>1, <1>4 DEF Reported
    <3> QED
      BY <2>2, <3>1, <3>2 DEF Moves, Released, FreeFollow
  <2> QED
    BY <2>1, <2>2
<1>13. Taken(r0, p0, rest0)
  BY <1>1, <1>2, <1>10, <1>12 DEF Taken, IInv, QueueInv
<1> QED
  BY <1>7, <1>13

-----------------------------------------------------------------------------
(* The steps that put a request into the queue                               *)

LEMMA TailAppend ==
  ASSUME NEW S, NEW s \in Seq(S), s # <<>>, NEW e \in S, NEW T,
         Tail(s) \in Seq(T), e \in T
  PROVE  Tail(Append(s, e)) \in Seq(T)
<1>1. /\ Append(s, e) \in Seq(S) /\ Append(s, e) # <<>>
      /\ Len(Append(s, e)) = Len(s) + 1
  BY AppendSeq
<1>2. /\ Tail(Append(s, e)) \in Seq(S) /\ Len(Tail(Append(s, e))) = Len(s)
      /\ \A k \in 1..Len(Tail(Append(s, e))) :
           Tail(Append(s, e))[k] = Append(s, e)[k + 1]
      /\ Len(s) \in Nat
  BY <1>1, HeadTailProperties, LenProperties
<1>3. /\ Len(Tail(s)) = Len(s) - 1
      /\ \A k \in 1..Len(Tail(s)) : Tail(s)[k] = s[k + 1]
  BY HeadTailProperties
<1>4. /\ \A k \in 1..Len(s) : Append(s, e)[k] = s[k]
      /\ Append(s, e)[Len(s) + 1] = e
  BY AppendProperties
<1>0. \A n \in Nat : \A k \in 1..n : k # n => k \in 1..n - 1 /\ k + 1 \in 1..n
  OBVIOUS
<1>5. ASSUME NEW k \in 1..Len(s)
      PROVE  Tail(Append(s, e))[k] \in T
  <2>1. CASE k = Len(s)
    BY <1>2, <1>4, <2>1
  <2>2. CASE k # Len(s)
    <3>1. Len(Tail(s)) = Len(s) - 1 /\ Len(s) \in Nat
      BY <1>2, <1>3
    <3>2. k \in 1..Len(Tail(s)) /\ k + 1 \in 1..Len(s)
      BY <1>0, <2>2, <3>1, Zenon
    <3>3. Tail(s)[k] \in T
      BY <3>2, ElementOfSeq
    <3> QED
      BY <1>2, <1>3, <1>4, <3>2, <3>3
  <2> QED
    BY <2>1, <2>2
<1> QED
  BY <1>2, <1>5, ElementsIn

LEMMA EnqueueServes ==
  ASSUME IInv, Serving, NEW e \in Requests, e \in Waiting',
         openRequests' = Append(openRequests, e),
         openRequests = <<>> => rsp' = <<>>,
         openRequests # <<>> => rsp' = rsp /\ prepared' = prepared,
         content' = content,
         \A i \in DOMAIN calls : i \in DOMAIN calls' /\ calls'[i] = calls[i]
  PROVE  QueueServes' /\ WireServes'
<1>1. openRequests \in Seq(Requests)
  BY DEF IInv, TypeOK
<1>2. CASE openRequests = <<>>
  <2>1. openRequests' = <<e>> /\ Head(<<e>>) = e /\ Tail(<<e>>) = <<>>
        /\ <<e>> # <<>> /\ <<>> \in Seq(Waiting')
    BY <1>2, EmptySeq
  <2> QED
    BY <1>2, <2>1 DEF QueueServes, WireServes
<1>3. CASE openRequests # <<>>
  <2>1. Waiting \subseteq Waiting'
    BY <1>3, AllKept
  <2>2. Tail(openRequests) \in Seq(Waiting')
    BY <1>3, <2>1, SeqSubset DEF Serving, QueueServes
  <2>3. /\ Tail(openRequests') \in Seq(Waiting')
        /\ Head(openRequests') = Head(openRequests) /\ openRequests' # <<>>
    BY <1>1, <1>3, <2>2, TailAppend, AppendSeq
  <2> PICK r0, p0 : r0 = Head(openRequests) /\ p0 = Head(rsp)
    OBVIOUS
  <2>4. IF rsp = <<>> THEN r0 \in Waiting ELSE IsAnswered(r0, p0)
    BY <1>3 DEF Serving, QueueServes
  <2>5. \A r, p : IsAnswered(r, p) => IsAnswered(r, p)'
    <3> SUFFICES ASSUME NEW r, NEW p, IsAnswered(r, p)
                 PROVE  IsAnswered(r, p)'
      OBVIOUS
    <3>1. CASE r.op = 0
      BY <3>1 DEF IsAnswered
    <3>2. CASE r.op # 0
      <4>1. Serves(r) /\ Access!Open(r.op)
        BY <3>2 DEF IsAnswered
      <4>2. r.op \in DOMAIN calls
        BY <4>1 DEF Serves
      <4>3. Serves(r)'
        BY <4>1, <4>2 DEF Serves
      <4>4. Access!Open(r.op)'
        BY <4>1, <4>2 DEF Access!Open
      <4>5. /\ Access!Holds(r.op) => Access!Holds(r.op)'
            /\ Access!NoTrace(r.op) => Access!NoTrace(r.op)'
        BY <4>2 DEF Access!Holds, Access!NoTrace
      <4> QED
        BY <1>3, <3>2, <4>3, <4>4, <4>5 DEF IsAnswered, Commits, Chunks, Nothing
    <3> QED
      BY <3>1, <3>2
  <2>6. IF rsp = <<>> THEN r0 \in Waiting' ELSE IsAnswered(r0, p0)'
    BY <2>1, <2>4, <2>5
  <2> QED
    BY <1>3, <2>3, <2>6 DEF QueueServes, WireServes
<1> QED
  BY <1>2, <1>3

LEMMA EnqueueCounts ==
  ASSUME IInv, Serving, NEW e \in Requests,
         openRequests' = Append(openRequests, e),
         e.op # 0 => Count(openRequests, CallRequests(e.op)) = 0,
         e \in LongRequests => Count(openRequests, LongRequests) = 0,
         Count(openRequests, LongRequests) = 0 => prepared' = Nothing
  PROVE  OneEach' /\ OneLong'
<1>1. \A R : /\ Count(openRequests, R) \in Nat
             /\ Count(openRequests', R)
                  = Count(openRequests, R) + (IF e \in R THEN 1 ELSE 0)
  BY CountType, CountAppend DEF IInv, TypeOK
<1>2. ASSUME NEW i \in 1..MaxCalls
      PROVE  Count(openRequests', CallRequests(i)) <= 1
  <2>1. Count(openRequests, CallRequests(i)) <= 1
    BY DEF Serving, OneEach
  <2>2. i # 0
    BY ConstantsAssumption
  <2>3. e \in CallRequests(i) => e.op = i
    BY DEF CallRequests
  <2>4. e \in CallRequests(i) => Count(openRequests, CallRequests(i)) = 0
    BY <2>2, <2>3
  <2>5. /\ Count(openRequests, CallRequests(i)) \in Nat
        /\ Count(openRequests', CallRequests(i)) =
             Count(openRequests, CallRequests(i))
               + (IF e \in CallRequests(i) THEN 1 ELSE 0)
    BY <1>1
  <2> QED
    BY <2>1, <2>4, <2>5
<1>3. /\ Count(openRequests, LongRequests) \in Nat
      /\ Count(openRequests', LongRequests) =
           Count(openRequests, LongRequests) + (IF e \in LongRequests THEN 1 ELSE 0)
  BY <1>1
<1>4. Count(openRequests, LongRequests) <= 1
  BY DEF Serving, OneLong
<1>5. Count(openRequests', LongRequests) <= 1
  BY <1>3, <1>4
<1>6. Count(openRequests', LongRequests) = 0 => prepared' = Nothing
  BY <1>3
<1> QED
  BY <1>2, <1>5, <1>6 DEF OneEach, OneLong, CallRequests, LongRequests, Nothing

LEMMA EnqueueOverdue ==
  ASSUME IInv, Serving, NEW e \in Requests, Enqueue(e), rsp' = rsp,
         e.op = 0 \/ socketOpen
  PROVE  NoneOverdue'
<1>1. openRequests \in Seq(Requests) /\ openRequests' = Append(openRequests, e)
      /\ wire \in Seq(Requests) /\ TypeOK
  BY DEF IInv, TypeOK, Enqueue, SendNextPendingRequest
<1>2. CASE openRequests = <<>>
  <2>1. Append(openRequests, e) \in Seq(Requests) /\ Head(Append(openRequests, e)) = e
    BY <1>1, <1>2, AppendSeq
  <2>2. ~requestPending /\ ~encryptionChangePending
    BY <1>2 DEF IInv, QueueInv, SessionShape, EncryptionHoldsQueue
  <2>3. requestPending = FALSE /\ encryptionChangePending = FALSE
    BY <1>1, <2>2 DEF TypeOK
  <2>4. socketOpen => (requestPending' => wire' # <<>>)
    BY <1>1, <2>1, <2>3, SentWhenPending DEF Enqueue
  <2> QED
    BY <1>1, <2>1, <2>4 DEF NoneOverdue
<1>3. CASE openRequests # <<>>
  <2>1. requestPending \/ encryptionChangePending
    BY <1>3 DEF IInv, QueueInv, QueueNeverIdle
  <2>2. requestPending' = requestPending /\ wire' = wire
    BY <2>1 DEF Enqueue, SendNextPendingRequest
  <2>3. Head(openRequests') = Head(openRequests)
    BY <1>1, <1>3, AppendSeq
  <2> QED
    BY <2>2, <2>3 DEF NoneOverdue, Serving
<1> QED
  BY <1>2, <1>3

\* A request that nobody waits for.
LEMMA FreeEnqueued ==
  ASSUME IInv, Serving, NEW e \in Free, openRequests' = Append(openRequests, e),
         openRequests = <<>> => rsp' = <<>>,
         openRequests # <<>> => rsp' = rsp /\ prepared' = prepared,
         UNCHANGED <<content, calls>>,
         Count(openRequests, LongRequests) = 0 => prepared' = Nothing,
         ClosedForgets', NoneOverdue'
  PROVE  Serving'
<1>1. e \in Requests /\ e.op = 0 /\ e \notin LongRequests /\ e \in Waiting'
  BY FreeWaits DEF Free, LongRequests, LongCommands, WriteCommands
<1>2. QueueServes' /\ WireServes'
  BY <1>1, EnqueueServes
<1>3. OneEach' /\ OneLong'
  BY <1>1, EnqueueCounts
<1>4. AuthorsKnown'
  BY DEF Serving, AuthorsKnown
<1> QED
  BY <1>2, <1>3, <1>4 DEF Serving

LEMMA DiscoverySteps ==
  ASSUME IInv, Serving, DiscoverServices \/ \E s \in Services : DiscoverDetails(s)
  PROVE  Serving'
<1>1. PICK e \in Free : Enqueue(e)
  <2>1. CASE DiscoverServices
    BY <2>1, FreeRequests DEF DiscoverServices, Arguments
  <2>2. ASSUME NEW s \in Services, DiscoverDetails(s)
        PROVE  \E e \in Free : Enqueue(e)
    <3>1. TypeReq(s, "include", 0) \in Free
      BY FreeRequests DEF Arguments
    <3> QED
      BY <2>2, <3>1 DEF DiscoverDetails
  <2> QED
    BY <2>1, <2>2
<1>2. /\ e \in Requests /\ e.op = 0
      /\ openRequests' = Append(openRequests, e)
      /\ UNCHANGED <<socketOpen, calls, rsp, prepared, content>>
  BY <1>1 DEF Free, Enqueue, SendNextPendingRequest, DiscoverServices, DiscoverDetails
<1>3. state # "Unconnected" \/ ~socketOpen
  BY DEF DiscoverServices, DiscoverDetails, IInv, QueueInv, SessionShape, NothingKnown
<1>4. openRequests = <<>> => rsp' = <<>>
  BY <1>2, <1>3 DEF IInv, QueueInv, SessionShape
<1>5. Count(openRequests, LongRequests) = 0 => prepared' = Nothing
  BY <1>2, <1>3 DEF Serving, OneLong
<1>6. \A s \in Services : svc'[s] = "Discovered" => svc[s] = "Discovered"
  BY DEF DiscoverServices, DiscoverDetails, IInv, TypeOK
<1>7. ClosedForgets'
  BY <1>2, <1>6 DEF Serving, ClosedForgets, Nothing
<1>8. NoneOverdue'
  BY <1>1, <1>2, EnqueueOverdue
<1> QED
  BY <1>2, <1>4, <1>5, <1>7, <1>8, FreeEnqueued

LEMMA ConnectedStep ==
  ASSUME IInv, Serving, L2cpConnected
  PROVE  Serving'
<1>1. /\ state = "Unconnected" /\ socketOpen' = TRUE
      /\ openRequests' = Append(openRequests, MtuReq)
      /\ rsp' = <<>> /\ prepared' = Nothing
      /\ UNCHANGED <<encryptionChangePending, svc, calls, content>>
  BY DEF L2cpConnected, Nothing
<1>2. MtuReq \in Free
  BY FreeRequests
<1>3. openRequests # <<>> => /\ rsp = <<>> /\ wire = <<>> /\ prepared = Nothing
  BY <1>1 DEF IInv, QueueInv, SessionShape, TypeOK, Serving, ClosedForgets
<1>4. NoneOverdue'
  <2>1. ~encryptionChangePending
    BY <1>1 DEF IInv, QueueInv, SessionShape
  <2>2. CASE requestPending
    <3>1. openRequests # <<>> /\ openRequests \in Seq(Requests) /\ MtuReq \in Requests
      BY <1>2, <2>2 DEF IInv, QueueInv, SessionShape, TypeOK, Free
    <3>2. Head(openRequests') = Head(openRequests)
      BY <1>1, <3>1, AppendSeq
    <3> QED
      BY <1>3, <2>2, <3>1, <3>2 DEF NoneOverdue, Serving
  <2>3. CASE ~requestPending
    <3>1. wire' = <<Head(openRequests')>>
      BY <2>1, <2>3 DEF L2cpConnected
    <3> QED
      BY <3>1 DEF NoneOverdue
  <2> QED
    BY <2>2, <2>3
<1>5. ClosedForgets'
  BY <1>1 DEF ClosedForgets
<1> QED
  BY <1>1, <1>2, <1>3, <1>4, <1>5, FreeEnqueued

-----------------------------------------------------------------------------
(* A new call                                                                *)

\* What every queued request is made for, answered or not.
LEMMA QueueElements ==
  ASSUME IInv, Serving, NEW k \in 1..Len(openRequests)
  PROVE  LET r == openRequests[k] IN
         IF r.op = 0 THEN r \in Free ELSE Serves(r) /\ Access!Open(r.op)
<1> DEFINE Fits(r) == IF r.op = 0 THEN r \in Free ELSE Serves(r) /\ Access!Open(r.op)
<1>1. /\ openRequests \in Seq(Requests) /\ openRequests # <<>>
      /\ Len(openRequests) \in Nat
  BY LenProperties DEF IInv, TypeOK
<1>2. /\ Head(openRequests) = openRequests[1]
      /\ Len(Tail(openRequests)) = Len(openRequests) - 1
      /\ \A i \in 1..Len(Tail(openRequests)) :
           Tail(openRequests)[i] = openRequests[i + 1]
  BY <1>1, HeadTailProperties
<1>3. \A r \in Waiting : Fits(r)
  BY DEF Waiting
<1>4. \A r, p : IsAnswered(r, p) => Fits(r)
  BY DEF IsAnswered
<1> HIDE DEF Fits
<1>5. Fits(Head(openRequests)) /\ Tail(openRequests) \in Seq(Waiting)
  BY <1>1, <1>3, <1>4 DEF Serving, QueueServes
<1>6. CASE k = 1
  BY <1>2, <1>5, <1>6 DEF Fits
<1>7. CASE k # 1
  <2>1. k - 1 \in 1..Len(openRequests) - 1 /\ (k - 1) + 1 = k
    BY <1>1, <1>7
  <2>2. Tail(openRequests)[k - 1] = openRequests[k]
    BY <1>2, <2>1
  <2>3. Tail(openRequests)[k - 1] \in Waiting
    BY <1>2, <1>5, <2>1, ElementOfSeq
  <2> QED
    BY <1>3, <2>2, <2>3 DEF Fits
<1> QED
  BY <1>6, <1>7

\* The application calls, and e is the request that it enqueues.
MadeFor(e, kind, a, size) ==
  /\ kind \in {"read", "write"} /\ a \in Handles /\ size \in 1..MaxChunks
  /\ NewCall(kind, a, size) /\ Enqueue(e)
  /\ e \in Requests /\ e.op = Len(calls) + 1 /\ e.target = a
  /\ \/ kind = "read" /\ e.cmd = "READ"
     \/ kind = "write" /\ size = 1 /\ e.cmd = "WRITE"
     \/ /\ kind = "write" /\ e.cmd = "PREPARE_WRITE" /\ e.off = 1
        /\ \A i \in DOMAIN calls : ~OpenWrite(i)
  /\ UNCHANGED <<state, socketOpen, svc, rsp, prepared, content>>

LEMMA CallMade ==
  ASSUME NoOverlap, IInv,
         \/ \E a \in Handles : ReadAttribute(a)
         \/ \E a \in Handles, size \in 1..MaxChunks : WriteAttribute(a, size)
  PROVE  \E e, kind, a, size : MadeFor(e, kind, a, size)
<1>1. 1 \in 1..MaxChunks /\ TypeOK
  BY ConstantsAssumption DEF IInv
<1>2. ASSUME NEW a \in Handles, ReadAttribute(a)
      PROVE  \E e, kind, b, size : MadeFor(e, kind, b, size)
  <2> DEFINE e == ReadReq(a, FALSE, Len(calls) + 1)
  <2>1. NewCall("read", a, 1) /\ Enqueue(e)
    BY <1>2 DEF ReadAttribute
  <2>2. Len(calls) + 1 \in 0..MaxCalls
    BY <1>1, <2>1, NewCallTyped
  <2>3. e \in Requests /\ e.op = Len(calls) + 1 /\ e.target = a /\ e.cmd = "READ"
    BY <2>2, AccessRequestsTyped DEF ReadReq, Req
  <2> HIDE DEF e
  <2>4. MadeFor(e, "read", a, 1)
    BY <1>1, <1>2, <2>1, <2>3 DEF MadeFor, ReadAttribute
  <2> QED
    BY <2>4
<1>3. ASSUME NEW a \in Handles, NEW size \in 1..MaxChunks, WriteAttribute(a, size)
      PROVE  \E e, kind, b, n : MadeFor(e, kind, b, n)
  <2>1. NewCall("write", a, size)
        /\ UNCHANGED <<state, socketOpen, svc, rsp, prepared, content>>
    BY <1>3 DEF WriteAttribute
  <2>2. Len(calls) + 1 \in 0..MaxCalls
    BY <1>1, <2>1, NewCallTyped
  <2>3. CASE size = 1
    <3> DEFINE e == Req("WRITE", a, "none", Len(calls) + 1, 0)
    <3>1. e \in Requests /\ e.op = Len(calls) + 1 /\ e.target = a /\ e.cmd = "WRITE"
      BY <2>2, AccessRequestsTyped DEF Req
    <3>2. Enqueue(e)
      BY <1>3, <2>3 DEF WriteAttribute
    <3> HIDE DEF e
    <3>3. MadeFor(e, "write", a, size)
      BY <2>1, <2>3, <3>1, <3>2 DEF MadeFor
    <3> QED
      BY <3>3
  <2>4. CASE size # 1
    <3> DEFINE e == PrepareReq(a, Len(calls) + 1, 1)
    <3>1. /\ e \in Requests /\ e.op = Len(calls) + 1 /\ e.target = a
          /\ e.cmd = "PREPARE_WRITE" /\ e.off = 1
      BY <2>2, AccessRequestsTyped DEF PrepareReq, Req
    <3>2. Enqueue(e)
      BY <1>3, <2>4 DEF WriteAttribute
    <3>3. \A i \in DOMAIN calls : ~OpenWrite(i)
      BY <1>3, <2>4 DEF WriteAttribute, MayOverlap, NoOverlap
    <3> HIDE DEF e
    <3>4. MadeFor(e, "write", a, size)
      BY <2>1, <3>1, <3>2, <3>3 DEF MadeFor
    <3> QED
      BY <3>4
  <2> QED
    BY <2>3, <2>4
<1> QED
  BY <1>2, <1>3

LEMMA CallShows ==
  ASSUME IInv, NEW e, NEW kind, NEW a, NEW size, MadeFor(e, kind, a, size)
  PROVE  Access!Next
  BY DEF MadeFor, NewCall, Access!Next, Access!Call

\* The call that is new has left no trace, and its first chunk finds the prepare
\* queue empty.
LEMMA CallKeeps ==
  ASSUME IInv, Serving, NEW e, NEW kind, NEW a, NEW size, MadeFor(e, kind, a, size)
  PROVE  Serving'
<1> DEFINE n == Len(calls)
           call == [kind |-> kind, target |-> a, size |-> size, result |-> "open"]
<1>1. /\ e \in Requests /\ e.op = n + 1 /\ e.target = a
      /\ openRequests' = Append(openRequests, e)
      /\ calls' = Append(calls, call) /\ calls \in Seq(Calls)
      /\ UNCHANGED <<state, socketOpen, svc, rsp, prepared, content>>
  BY DEF MadeFor, NewCall, Enqueue, SendNextPendingRequest, IInv, TypeOK
<1>2. call \in Calls
  BY DEF MadeFor, Calls, Results
<1>3. /\ n \in Nat /\ DOMAIN calls = 1..n /\ DOMAIN calls' = 1..n + 1
      /\ calls'[n + 1] = call
      /\ \A i \in 1..n : calls'[i] = calls[i]
  BY <1>1, <1>2, AppendProperties, LenProperties
<1>4. \A i \in DOMAIN calls : i \in DOMAIN calls' /\ calls'[i] = calls[i]
  BY <1>3
<1>5. socketOpen /\ state # "Unconnected"
  <2>1. \E s \in Services : svc[s] = "Discovered"
    BY HandleOwner DEF MadeFor, NewCall
  <2>2. socketOpen
    BY <2>1 DEF Serving, ClosedForgets
  <2> QED
    BY <2>1, <2>2 DEF IInv, QueueInv, SessionShape, NothingKnown
<1>6. openRequests = <<>> => rsp' = <<>>
  BY <1>1, <1>5 DEF IInv, QueueInv, SessionShape
<1>7. Access!NoTrace(e.op)'
  <2>1. e.op # 0 /\ e.op \notin DOMAIN calls
    BY <1>1, <1>3
  <2> QED
    BY <1>1, <2>1 DEF Access!NoTrace, Serving, AuthorsKnown
<1>8. e.cmd = "PREPARE_WRITE" => Count(openRequests, LongRequests) = 0
  <2> SUFFICES ASSUME e.cmd = "PREPARE_WRITE"
               PROVE  Count(openRequests, LongRequests) = 0
    OBVIOUS
  <2>1. \A i \in DOMAIN calls : ~OpenWrite(i)
    BY DEF MadeFor
  <2>2. ASSUME NEW k \in 1..Len(openRequests)
        PROVE  openRequests[k] \notin LongRequests
    <3> DEFINE r == openRequests[k]
    <3>1. IF r.op = 0 THEN r \in Free ELSE Serves(r) /\ Access!Open(r.op)
      BY QueueElements
    <3>2. r.op = 0 => r.cmd \notin LongCommands
      BY <3>1 DEF Free, LongCommands, WriteCommands
    <3>3. r.op # 0 => r.cmd \notin LongCommands
      BY <2>1, <3>1
      DEF Serves, Access!Open, OpenWrite, LongCommands, ReadCommands
    <3> QED
      BY <3>2, <3>3 DEF LongRequests
  <2> QED
    BY <2>2, CountNone DEF IInv, TypeOK
<1>9. Count(openRequests, LongRequests) = 0 => prepared' = Nothing
  BY <1>1, <1>5 DEF Serving, OneLong
<1>10. Serves(e)'
  BY <1>1, <1>3, ConstantsAssumption
  DEF MadeFor, Serves, AccessCommands, ReadCommands
<1>11. PreparedFor(e)'
  <2>1. e.cmd = "PREPARE_WRITE" => prepared' = Chunks(e, e.off - 1)
    <3> SUFFICES ASSUME e.cmd = "PREPARE_WRITE"
                 PROVE  prepared' = Chunks(e, e.off - 1)
      OBVIOUS
    <3>1. e.off - 1 = 0 /\ prepared' = Nothing
      BY <1>8, <1>9 DEF MadeFor
    <3>2. Chunks(e, 0) = Nothing
      BY ConstantsAssumption DEF Chunks, Nothing
    <3> QED
      BY <3>1, <3>2
  <2> QED
    BY <2>1 DEF PreparedFor, MadeFor
<1>12. e \in Waiting'
  <2>1. Access!Open(e.op)'
    BY <1>1, <1>3 DEF Access!Open
  <2>2. e.op # 0
    BY <1>1, <1>3
  <2> QED
    BY <1>1, <1>7, <1>10, <1>11, <2>1, <2>2 DEF Waiting
<1>13. QueueServes' /\ WireServes'
  BY <1>1, <1>4, <1>6, <1>12, EnqueueServes
<1>14. Count(openRequests, CallRequests(n + 1)) = 0
  <2>1. ASSUME NEW k \in 1..Len(openRequests)
        PROVE  openRequests[k] \notin CallRequests(n + 1)
    <3> DEFINE r == openRequests[k]
    <3>1. IF r.op = 0 THEN r \in Free ELSE Serves(r) /\ Access!Open(r.op)
      BY QueueElements
    <3>2. r.op = 0 \/ r.op \in 1..n
      BY <1>3, <3>1 DEF Serves
    <3>3. r.op # n + 1
      BY <1>3, <3>2
    <3> QED
      BY <3>3 DEF CallRequests
  <2> QED
    BY <2>1, CountNone DEF IInv, TypeOK
<1>15. OneEach' /\ OneLong'
  <2>1. e \in LongRequests => e.cmd = "PREPARE_WRITE"
    BY DEF MadeFor, LongRequests, LongCommands
  <2> QED
    BY <1>1, <1>8, <1>9, <1>14, <2>1, EnqueueCounts
<1>16. AuthorsKnown'
  BY <1>1, <1>4 DEF Serving, AuthorsKnown
<1>17. ClosedForgets'
  BY <1>1, <1>5 DEF ClosedForgets
<1>18. NoneOverdue'
  BY <1>1, <1>5, EnqueueOverdue DEF MadeFor
<1> QED
  BY <1>13, <1>15, <1>16, <1>17, <1>18 DEF Serving

-----------------------------------------------------------------------------
(* The end of a session                                                      *)

LEMMA DroppedShows ==
  ASSUME calls \in Seq(Calls), calls' = DropOpenCalls, content' = content
  PROVE  /\ Access!Next
         /\ DOMAIN calls' = DOMAIN calls
         /\ \A i \in DOMAIN calls :
              /\ calls[i].result = "open" => calls'[i].result = "dropped"
              /\ calls'[i].kind = calls[i].kind
              /\ calls'[i].target = calls[i].target
              /\ calls'[i].size = calls[i].size
<1>1. Access!EndSession
  BY DEF Access!EndSession, Access!Open, DropOpenCalls
<1>2. DOMAIN calls' = DOMAIN calls
  BY DEF DropOpenCalls
<1>3. ASSUME NEW i \in DOMAIN calls
      PROVE  /\ calls[i].result = "open" => calls'[i].result = "dropped"
             /\ calls'[i].kind = calls[i].kind
             /\ calls'[i].target = calls[i].target
             /\ calls'[i].size = calls[i].size
  <2>1. i \in 1..Len(calls)
    BY LenProperties
  <2>2. calls[i] \in Calls
    BY <2>1, ElementOfSeq
  <2> QED
    BY <2>2 DEF DropOpenCalls, Calls
<1> QED
  BY <1>1, <1>2, <1>3 DEF Access!Next

LEMMA EmptyServes ==
  ASSUME openRequests' = <<>>, requestPending' = FALSE,
         content' = content, DOMAIN calls' = DOMAIN calls, Serving,
         WireServes', ClosedForgets',
         prepared' = Nothing \/ (state' = "Unconnected" /\ socketOpen')
  PROVE  Serving'
<1>1. \A R : Count(openRequests', R) = 0
  BY CountEmpty
<1>2. QueueServes' /\ NoneOverdue'
  BY DEF QueueServes, NoneOverdue
<1>3. AuthorsKnown'
  BY DEF Serving, AuthorsKnown
<1>4. OneEach'
  BY <1>1 DEF OneEach
<1>5. OneLong'
  BY <1>1 DEF OneLong, Nothing
<1> QED
  BY <1>2, <1>3, <1>4, <1>5 DEF Serving

\* The request on the channel of a controller that a failed write has reset.
LEMMA LeftOnWire ==
  ASSUME IInv, Serving, NetworkError
  PROVE  WireServes'
<1>1. /\ calls' = DropOpenCalls /\ calls \in Seq(Calls) /\ state # "Unconnected"
      /\ UNCHANGED <<wire, prepared, content>>
  BY DEF NetworkError, InvalidateServices, IInv, TypeOK
<1>2. SUFFICES ASSUME wire # <<>>
               PROVE  Abandoned(Head(wire))'
  BY <1>1 DEF WireServes
<1>3. /\ rsp = <<>> /\ openRequests # <<>>
      /\ Head(wire) = Head(openRequests)
  BY <1>1, <1>2, OnWire
<1> PICK r : r = Head(wire)
  OBVIOUS
<1>4. r \in Waiting
  BY <1>3 DEF Serving, QueueServes
<1>5. Abandoned(r)'
  <2>1. CASE r.op = 0
    BY <1>4, <2>1 DEF Waiting, Abandoned
  <2>2. CASE r.op # 0
    <3>1. Serves(r) /\ PreparedFor(r) /\ calls[r.op].result = "open"
          /\ r.op \in DOMAIN calls
      BY <1>4, <2>2 DEF Waiting, Access!Open
    <3>2. /\ r.op \in DOMAIN calls' /\ calls'[r.op].result = "dropped"
          /\ calls'[r.op].kind = calls[r.op].kind
          /\ calls'[r.op].target = calls[r.op].target
          /\ calls'[r.op].size = calls[r.op].size
      BY <1>1, <3>1, DroppedShows
    <3>3. Serves(r)'
      BY <3>1, <3>2 DEF Serves
    <3>4. PreparedFor(r)'
      BY <1>1, <3>1, <3>2 DEF PreparedFor, Chunks
    <3> QED
      BY <2>2, <3>2, <3>3, <3>4 DEF Abandoned
  <2> QED
    BY <2>1, <2>2
<1> QED
  BY <1>1, <1>5

LEMMA SessionEnded ==
  ASSUME IInv, Serving,
         L2cpConnectedWriteFails \/ DisconnectFromDevice \/ RemoteHostClosed
           \/ NetworkError \/ UnexpectedReply
  PROVE  Serving' /\ Access!Next
<1>1. /\ openRequests' = <<>> /\ requestPending' = FALSE
      /\ calls' = DropOpenCalls /\ calls \in Seq(Calls)
      /\ svc' = [s \in Services |-> "unknown"]
  BY ClearingSteps DEF Cleared, InvalidateServices, IInv, TypeOK
<1>2. content' = content
  BY DEF L2cpConnectedWriteFails, DisconnectFromDevice, RemoteHostClosed,
         NetworkError, UnexpectedReply, L2cpDisconnected
<1>3. Access!Next /\ DOMAIN calls' = DOMAIN calls
  BY <1>1, <1>2, DroppedShows
<1>4. CASE NetworkError
  <2>1. socketOpen' /\ state' = "Unconnected"
    BY <1>4 DEF NetworkError
  <2>2. ClosedForgets'
    BY <2>1 DEF ClosedForgets
  <2> QED
    BY <1>1, <1>2, <1>3, <1>4, <2>1, <2>2, LeftOnWire, EmptyServes
<1>5. CASE ~NetworkError
  <2>1. wire' = <<>> /\ prepared' = Nothing
    BY <1>5
    DEF L2cpConnectedWriteFails, DisconnectFromDevice, RemoteHostClosed,
        UnexpectedReply, L2cpDisconnected, CloseChannel, Nothing
  <2>2. WireServes' /\ ClosedForgets'
    BY <1>1, <2>1 DEF WireServes, ClosedForgets, Nothing
  <2> QED
    BY <1>1, <1>2, <1>3, <2>1, <2>2, EmptyServes
<1> QED
  BY <1>4, <1>5

LEMMA SlotEnded ==
  ASSUME IInv, Serving, DisconnectInSlot
  PROVE  Serving' /\ Access!Next
<1>1. /\ calls' = DropOpenCalls /\ calls \in Seq(Calls) /\ content' = content
      /\ socketOpen' = FALSE /\ rsp' = <<>> /\ wire' = <<>> /\ prepared' = Nothing
      /\ \A s \in Services : svc'[s] # "Discovered"
  BY DEF DisconnectInSlot, CloseChannel, Nothing, IInv, TypeOK
<1>2. Access!Next /\ DOMAIN calls' = DOMAIN calls
  BY <1>1, DroppedShows
<1>3. \/ openRequests' = <<>>
      \/ \E e \in Requests : openRequests' = <<e>> /\ e \in Free
  BY SlotLeaves DEF Free, WriteCommands
<1>4. WireServes' /\ ClosedForgets'
  BY <1>1 DEF WireServes, ClosedForgets, Nothing
<1>5. AuthorsKnown'
  BY <1>1, <1>2 DEF Serving, AuthorsKnown
<1>6. CASE openRequests' = <<>>
  <2>1. requestPending' = FALSE
    BY <1>6 DEF DisconnectInSlot
  <2> QED
    BY <1>1, <1>2, <1>4, <1>6, <2>1, EmptyServes
<1>7. ASSUME NEW e \in Requests, openRequests' = <<e>>, e \in Free
      PROVE  Serving'
  <2>1. <<e>> # <<>> /\ Head(<<e>>) = e /\ Tail(<<e>>) = <<>> /\ <<>> \in Seq(Waiting')
    BY EmptySeq
  <2>2. QueueServes'
    BY <1>1, <1>7, <2>1, FreeWaits DEF QueueServes
  <2>3. \A R : Count(openRequests', R) = IF e \in R THEN 1 ELSE 0
    BY <1>7, CountSingleton
  <2>4. OneEach' /\ OneLong'
    BY <1>1, <2>3 DEF OneEach, OneLong, Nothing
  <2>5. NoneOverdue'
    BY <1>7, <2>1 DEF NoneOverdue, Free
  <2> QED
    BY <1>4, <1>5, <2>2, <2>4, <2>5 DEF Serving
<1> QED
  BY <1>2, <1>3, <1>6, <1>7

-----------------------------------------------------------------------------
(* The peer                                                                  *)

\* What the peer does with a request shows as one commit or as nothing.
LEMMA StoresShow ==
  ASSUME TypeOK, NEW r \in Requests, NEW err, PeerStores(r, err), calls' = calls,
         \/ r \in Free
         \/ /\ Serves(r) /\ PreparedFor(r)
            /\ calls[r.op].result \in {"open", "dropped"}
  PROVE  [Access!Next]_(Access!vars)
<1>1. CASE r \in Free
  BY <1>1, FreeStores DEF Access!vars
<1>2. CASE ~(err = "none" /\ Commits(r)) /\ Serves(r) /\ PreparedFor(r)
  BY <1>2, StoresCommit DEF Access!vars
<1>3. CASE /\ err = "none" /\ Commits(r) /\ Serves(r) /\ PreparedFor(r)
           /\ calls[r.op].result \in {"open", "dropped"}
  <2>1. content' = Written(r.target, r.op)
    BY <1>3, StoresCommit
  <2>2. calls[r.op].kind = "write" /\ r.op \in DOMAIN calls
    BY <1>3 DEF Commits, Serves, ReadCommands
  <2>3. r.op \in 1..MaxCalls /\ calls[r.op].target = r.target
    BY <1>3, ServedCall, RequestFields, ConstantsAssumption DEF TypeOK
  <2>4. Access!Commit(r.op)
    BY <1>3, <2>1, <2>2, <2>3 DEF Access!Commit, Written
  <2> QED
    BY <2>3, <2>4 DEF Access!Next
<1> QED
  BY <1>1, <1>2, <1>3

LEMMA StoresKnown ==
  ASSUME TypeOK, AuthorsKnown, NEW r \in Requests, NEW err, PeerStores(r, err),
         calls' = calls, r \in Free \/ (Serves(r) /\ PreparedFor(r))
  PROVE  /\ AuthorsKnown'
         /\ \A i : i # r.op /\ Access!NoTrace(i) => Access!NoTrace(i)'
<1>1. CASE content' = content
  BY <1>1 DEF AuthorsKnown, Access!NoTrace
<1>2. CASE /\ content' = Written(r.target, r.op)
           /\ r.op \in DOMAIN calls /\ r.target = calls[r.op].target
  <2>1. \A i : i # r.op /\ Access!NoTrace(i) => Access!NoTrace(i)'
    BY <1>2, WrittenHeld
  <2>2. ASSUME NEW a \in Handles, NEW k \in 1..MaxChunks, content'[a][k] # 0
        PROVE  content'[a][k] \in DOMAIN calls
    <3>1. content'[a][k] \in {content[a][k], r.op}
      BY <1>2 DEF Written, TypeOK
    <3> QED
      BY <1>2, <2>2, <3>1 DEF AuthorsKnown
  <2> QED
    BY <2>1, <2>2 DEF AuthorsKnown
<1>3. \/ content' = content
      \/ /\ content' = Written(r.target, r.op)
         /\ r.op \in DOMAIN calls /\ r.target = calls[r.op].target
  <2>1. CASE r \in Free
    BY <2>1, FreeStores
  <2>2. CASE Serves(r) /\ PreparedFor(r)
    BY <2>2, StoresCommit DEF Serves
  <2> QED
    BY <2>1, <2>2
<1> QED
  BY <1>1, <1>2, <1>3

\* The request that the peer answers was waiting, and is answered now.
LEMMA WaitingAnswered ==
  ASSUME TypeOK, NEW r \in Waiting, NEW p, PeerStores(r, p.err), calls' = calls
  PROVE  IsAnswered(r, p)'
<1>1. CASE r.op = 0
  BY <1>1 DEF Waiting, IsAnswered
<1>2. CASE r.op # 0
  <2>1. /\ r \in Requests /\ Serves(r) /\ PreparedFor(r)
        /\ Access!Open(r.op) /\ Access!NoTrace(r.op)
    BY <1>2 DEF Waiting
  <2>2. Serves(r)' /\ Access!Open(r.op)'
    BY <2>1 DEF Serves, Access!Open
  <2>3. CASE p.err = "none" /\ Commits(r)
    <3>1. content' = Written(calls[r.op].target, r.op) /\ r.op \in DOMAIN calls
      BY <2>1, <2>3, StoresCommit DEF Serves
    <3>2. Access!Holds(r.op)'
      BY <3>1, WrittenHeld
    <3>3. r.cmd # "PREPARE_WRITE" /\ (r.cmd = "EXECUTE_WRITE" => prepared' = Nothing)
      BY <2>1, <2>3, StoresPrepared DEF Commits
    <3> QED
      BY <1>2, <2>2, <2>3, <3>2, <3>3 DEF IsAnswered, Commits, Nothing
  <2>4. CASE ~(p.err = "none" /\ Commits(r))
    <3>1. content' = content
      BY <2>1, <2>4, StoresCommit
    <3>2. Access!NoTrace(r.op)'
      BY <2>1, <3>1 DEF Access!NoTrace
    <3>3. /\ r.cmd = "PREPARE_WRITE" =>
               prepared' = Chunks(r, IF p.err = "none" THEN r.off ELSE r.off - 1)
          /\ r.cmd = "EXECUTE_WRITE" => prepared' = Nothing
      BY <2>1, StoresPrepared
    <3> QED
      BY <1>2, <2>2, <2>4, <3>2, <3>3 DEF IsAnswered, Commits, Nothing, Chunks
  <2> QED
    BY <2>3, <2>4
<1> QED
  BY <1>1, <1>2

LEMMA PeerKeeps ==
  ASSUME IInv, Serving, PeerAnswers
  PROVE  Serving' /\ [Access!Next]_(Access!vars)
<1>1. /\ Head(wire) \in Requests /\ wire # <<>> /\ wire' = Tail(wire)
      /\ Tail(wire) = <<>> /\ rsp = <<>> /\ socketOpen
      /\ openRequests = <<>> <=> state = "Unconnected"
      /\ openRequests # <<>> => requestPending /\ Head(wire) = Head(openRequests)
      /\ UNCHANGED <<state, socketOpen, openRequests, requestPending, svc, calls>>
      /\ TypeOK
  BY OnWire DEF PeerAnswers, client, IInv
<1> PICK r : r = Head(wire)
  OBVIOUS
<1>2. PICK p \in Answers : PeerStores(r, p.err) /\ rsp' = Append(rsp, p)
  <2>1. PICK err \in Errors, items \in SUBSET (Services \cup Handles),
             more \in BOOLEAN :
          /\ MayAnswer(r, err, items, more) /\ PeerStores(r, err)
          /\ rsp' = Append(rsp, Answer(r, err, items, more))
    BY DEF PeerAnswers
  <2>2. Answer(r, err, items, more) \in Answers
    BY <1>1, <2>1, AnswerTyped
  <2>3. Answer(r, err, items, more).err = err
    BY DEF Answer
  <2> QED
    BY <2>1, <2>2, <2>3
<1>3. rsp' = <<p>> /\ rsp' # <<>> /\ Head(rsp') = p
  BY <1>1, <1>2
<1>4. ClosedForgets' /\ NoneOverdue'
  BY <1>1, <1>3 DEF ClosedForgets, NoneOverdue
<1>5. CASE openRequests = <<>>
  <2>1. Abandoned(r)
    BY <1>1, <1>5 DEF Serving, WireServes
  <2>2. /\ r \in Requests
        /\ \/ r \in Free
           \/ Serves(r) /\ PreparedFor(r) /\ calls[r.op].result = "dropped"
    BY <1>1, <2>1 DEF Abandoned
  <2>3. AuthorsKnown' /\ [Access!Next]_(Access!vars)
    BY <1>1, <1>2, <2>2, StoresKnown, StoresShow DEF Serving
  <2>4. QueueServes' /\ WireServes'
    BY <1>1, <1>5 DEF QueueServes, WireServes
  <2>5. OneEach' /\ OneLong'
    BY <1>1, <1>5, CountEmpty DEF OneEach, OneLong
  <2> QED
    BY <1>4, <2>3, <2>4, <2>5 DEF Serving
<1>6. CASE openRequests # <<>>
  <2>1. r \in Waiting /\ r = Head(openRequests) /\ Tail(openRequests) \in Seq(Waiting)
    BY <1>1, <1>6 DEF Serving, QueueServes
  <2>2. /\ r \in Requests
        /\ \/ r \in Free
           \/ Serves(r) /\ PreparedFor(r) /\ calls[r.op].result = "open"
    BY <2>1 DEF Waiting, Access!Open
  <2>3. /\ AuthorsKnown' /\ [Access!Next]_(Access!vars)
        /\ \A i : i # r.op /\ Access!NoTrace(i) => Access!NoTrace(i)'
    BY <1>1, <1>2, <2>2, StoresKnown, StoresShow DEF Serving
  <2>4. r.cmd \notin LongCommands => prepared' = prepared
    BY <1>1, <1>2, <2>2, FreeStores, StoresPrepared
  <2> PICK rest : rest = Tail(openRequests)
    OBVIOUS
  <2>5. Front(r, rest) /\ rest \in Seq(Waiting)
    BY <1>6, <2>1 DEF Front
  <2>6. rest \in Seq(Waiting')
    BY <1>1, <2>3, <2>4, <2>5, RestKept
  <2>7. IsAnswered(r, p)'
    BY <1>1, <1>2, <2>1, WaitingAnswered
  <2>8. QueueServes' /\ WireServes'
    BY <1>1, <1>3, <1>6, <2>1, <2>6, <2>7 DEF QueueServes, WireServes
  <2>9. OneEach'
    BY <1>1 DEF OneEach, Serving, CallRequests
  <2>10. OneLong'
    <3>1. /\ \A R : /\ Count(rest, R) \in Nat
                    /\ Count(openRequests, R)
                         = Count(rest, R) + (IF r \in R THEN 1 ELSE 0)
      BY <2>5, FrontRequests
    <3>2. Count(openRequests, LongRequests) = 0 => r \notin LongRequests
      BY <3>1
    <3>3. Count(openRequests, LongRequests) = 0 => prepared' = Nothing
      BY <1>6, <2>2, <2>4, <3>2 DEF LongRequests, Serving, OneLong
    <3> QED
      BY <1>1, <3>3 DEF Serving, OneLong, LongRequests, Nothing
  <2> QED
    BY <1>4, <2>3, <2>8, <2>9, <2>10 DEF Serving
<1> QED
  BY <1>5, <1>6

\* Nothing that the requests stand for changes.
LEMMA NothingMoves ==
  ASSUME IInv, Serving, UNCHANGED <<openRequests, state, socketOpen, svc, calls,
                                    rsp, prepared, content>>,
         WireServes', NoneOverdue'
  PROVE  Serving' /\ UNCHANGED Access!vars
<1>1. QueueServes'
  BY DEF QueueServes, Serving, Waiting, IsAnswered, Serves, PreparedFor, Commits,
         Access!Open, Access!Holds, Access!NoTrace, Chunks, Nothing
<1>2. AuthorsKnown' /\ OneEach' /\ OneLong' /\ ClosedForgets'
  BY DEF Serving, AuthorsKnown, OneEach, OneLong, ClosedForgets, CallRequests,
         LongRequests, Nothing
<1> QED
  BY <1>1, <1>2 DEF Serving, Access!vars

LEMMA LossKeeps ==
  ASSUME IInv, Serving, RequestLost
  PROVE  Serving' /\ UNCHANGED Access!vars
<1>1. /\ "loss" \in Environment /\ wire' = <<>>
      /\ UNCHANGED <<openRequests, state, socketOpen, svc, calls, rsp, prepared, content>>
  BY OnWire DEF RequestLost, client
<1>2. WireServes' /\ NoneOverdue'
  BY <1>1 DEF WireServes, NoneOverdue
<1> QED
  BY <1>1, <1>2, NothingMoves

LEMMA EncryptedKeeps ==
  ASSUME IInv, Serving, EncryptionChanged(TRUE)
  PROVE  Serving' /\ UNCHANGED Access!vars
<1>1. /\ socketOpen /\ encryptionChangePending
      /\ SendNextPendingRequest(openRequests, requestPending, FALSE)
      /\ UNCHANGED <<state, socketOpen, svc, calls, rsp, prepared, content>>
  BY DEF EncryptionChanged
<1>2. requestPending = FALSE /\ openRequests # <<>> /\ TypeOK
  BY <1>1 DEF IInv, QueueInv, EncryptionHoldsQueue, TypeOK
<1>3. openRequests' = openRequests
  BY <1>1 DEF SendNextPendingRequest
<1>4. requestPending' => wire' # <<>>
  BY <1>1, <1>2, SentWhenPending DEF TypeOK
<1>5. WireServes' /\ NoneOverdue'
  BY <1>2, <1>3, <1>4 DEF WireServes, NoneOverdue
<1> QED
  BY <1>1, <1>3, <1>5, NothingMoves

-----------------------------------------------------------------------------
(* The refinement                                                            *)

LEMMA InitServes == Init => Serving /\ Access!Init
<1> SUFFICES ASSUME Init
             PROVE  Serving /\ Access!Init
  OBVIOUS
<1>1. Access!Init
  BY DEF Init, Access!Init
<1>2. AuthorsKnown /\ QueueServes /\ WireServes /\ ClosedForgets /\ NoneOverdue
  BY DEF Init, AuthorsKnown, QueueServes, WireServes, ClosedForgets, NoneOverdue,
         Nothing
<1>3. OneEach /\ OneLong
  BY CountEmpty DEF Init, OneEach, OneLong, Nothing
<1> QED
  BY <1>1, <1>2, <1>3 DEF Serving

\* Every step keeps the invariant, and is a step of AttributeAccess or none.
LEMMA AccessStep ==
  ASSUME NoOverlap, NoLateAnswers, AnswersComeInTime
  PROVE  AccessInv /\ [Next]_vars => AccessInv' /\ [Access!Next]_(Access!vars)
<1> SUFFICES ASSUME AccessInv, [Next]_vars
             PROVE  AccessInv' /\ [Access!Next]_(Access!vars)
  OBVIOUS
<1>1. IInv /\ Serving /\ IInv'
  BY NextPreserves DEF AccessInv
<1>2. SUFFICES Serving' /\ [Access!Next]_(Access!vars)
  BY <1>1, <1>2 DEF AccessInv
<1>3. ASSUME NEW r, NEW p, NEW rest, AtFront(r, p, rest), Taken(r, p, rest)
      PROVE  Serving' /\ [Access!Next]_(Access!vars)
  BY <1>1, <1>3, MovesKeep, MovesShow
<1>4. CASE L2cpConnected
  BY <1>1, <1>4, ConnectedStep DEF L2cpConnected, Access!vars
<1>5. CASE L2cpConnectedWriteFails \/ DisconnectFromDevice \/ RemoteHostClosed
             \/ NetworkError \/ UnexpectedReply
  BY <1>1, <1>5, SessionEnded
<1>6. CASE DiscoverServices \/ \E s \in Services : DiscoverDetails(s)
  BY <1>1, <1>6, DiscoverySteps DEF DiscoverServices, DiscoverDetails, Access!vars
<1>7. CASE \/ \E a \in Handles : ReadAttribute(a)
           \/ \E a \in Handles, size \in 1..MaxChunks : WriteAttribute(a, size)
  <2>1. PICK e, kind, a, size : MadeFor(e, kind, a, size)
    BY <1>1, <1>7, CallMade
  <2> QED
    BY <1>1, <2>1, CallKeeps, CallShows
<1>8. CASE PeerAnswers
  BY <1>1, <1>8, PeerKeeps
<1>9. CASE RequestLost
  BY <1>1, <1>9, LossKeeps
<1>10. CASE ReplyReceived
  BY <1>1, <1>3, <1>10, ReplyTaken
<1>11. CASE RequestTimeout
  BY <1>1, <1>3, <1>11, TimeoutTaken
<1>12. CASE DisconnectInSlot
  BY <1>1, <1>12, SlotEnded
<1>13. CASE \E wasSuccess \in BOOLEAN : EncryptionChanged(wasSuccess)
  <2>1. CASE EncryptionChanged(TRUE)
    BY <1>1, <2>1, EncryptedKeeps
  <2>2. CASE EncryptionChanged(FALSE)
    BY <1>1, <1>3, <2>2, FailedEncryptionTaken
  <2> QED
    BY <1>13, <2>1, <2>2
<1>14. CASE UNCHANGED vars
  <2>1. /\ UNCHANGED <<openRequests, state, socketOpen, svc, calls, rsp, prepared,
                       content>>
        /\ UNCHANGED <<wire, requestPending>>
    BY <1>14 DEF vars, client, peer
  <2>2. WireServes' /\ NoneOverdue'
    BY <1>1, <2>1 DEF WireServes, NoneOverdue, Serving, Abandoned, Serves,
                      PreparedFor, Chunks
  <2> QED
    BY <1>1, <2>1, <2>2, NothingMoves
<1> QED
  BY <1>4, <1>5, <1>6, <1>7, <1>8, <1>9, <1>10, <1>11, <1>12, <1>13, <1>14 DEF Next

\* Without overlapping long writes, and with a peer that answers before the
\* request times out, the queue, the chunks, the retries after a change of the
\* encryption and the end of a session amount to whole reads and writes: a write
\* takes effect at once or not at all, and its answer says which.  This is what
\* readCharacteristic() and writeCharacteristic() promise.
THEOREM ImplementsAccess ==
  ASSUME NoOverlap, NoLateAnswers, AnswersComeInTime
  PROVE  Spec => AtomicAccess
<1>1. Init => AccessInv /\ Access!Init
  BY InitInv, InitServes DEF AccessInv
<1>2. AccessInv /\ [Next]_vars => AccessInv' /\ [Access!Next]_(Access!vars)
  BY AccessStep
<1> QED
  BY <1>1, <1>2, PTL DEF Spec, AtomicAccess, Access!Spec

=============================================================================
