----------------------------- MODULE SocketsProofs -----------------------------
(***************************************************************************)
(* Proofs about the sockets of BackendsMC: their bytes arrive once and in  *)
(* order, and a connected socket has the connection it asked for last.     *)
(***************************************************************************)
EXTENDS BackendsProofs, SequenceTheorems, SequenceCounts

-------------------------------------------------------------------------------
(* BluezSocket: the bytes, in order, and a connection that is one.           *)

\* The state and the link go together.
BsJoined(r) ==
  /\ r.link \in Links /\ r.state \in SocketStates
  /\ r.state \in {"Unconnected", "ServiceLookup"} <=> r.link \in {"closed", "idle"}
  /\ r.link \in {"connecting", "refused", "failed"} => r.state = "Connecting"
  /\ r.inbox # <<>> => r.link \in {"up", "lost"}
  /\ r.agent => r.link = "closed"
  /\ "lookup" \in r.scenario.may /\ r.state = "Unconnected" => r.link = "closed"
\* Who is connecting has both notifiers on, and what refused the connection is in
\* the batch that will tell of it.
BsBatched(r) ==
  /\ r.state = "Connecting" => r.connecting /\ r.rn = "on" /\ r.wn = "on"
  /\ r.link = "connecting" => r.events = <<>>
  /\ r.link = "refused" => r.events \in {<<>>, <<"rn", "wn">>, <<"wn", "rn">>}
  /\ r.link = "failed" => r.events = <<"rn">>
BsMoving(r) == r.tx # <<>> => r.wn = "on" \/ r.posted > 0
BsLinked(r) == BsJoined(r) /\ BsBatched(r) /\ BsMoving(r)

\* What was sent and has arrived, and what was written and has gone, in order.
BsOrdered(r) ==
  /\ r.sent \in Nat /\ r.errors \in Nat /\ r.session \in Nat
  /\ r.got \in Seq(1..r.sent) /\ r.rx \in Seq(1..r.sent) /\ r.inbox \in Seq(1..r.sent)
  /\ InOrder(r.got \o r.rx \o r.inbox)
  /\ r.written \in Seq(Nat)
  /\ r.peer \in Seq(1..Len(r.written)) /\ r.tx \in Seq(1..Len(r.written))
  /\ InOrder(r.peer \o r.tx)
  /\ r.errors = 0 => r.peer \o r.tx = r.written
  /\ "unbuffered" \in r.scenario.may => r.tx = <<>>
\* The bytes of the first connection: there were none before it.
BsCounted(r) ==
  /\ r.session = 0 => r.sent = 0 /\ r.link = "closed" /\ ~r.agent
  /\ r.session = 1 /\ (r.link \in {"idle", "connecting", "refused", "failed"} \/ r.agent) =>
       r.sent = 0
  /\ r.session = 1 /\ r.link = "up" => Len(r.got \o r.rx \o r.inbox) = r.sent

BsWhole(r) == BsOrdered(r) /\ BsCounted(r)

\* Sequences of bytes: what stays in order.
LEMMA OrderOfParts ==
  ASSUME NEW a \in Seq(Nat), NEW b \in Seq(Nat), InOrder(a \o b)
  PROVE  InOrder(a) /\ InOrder(a \o <<>>)
<1>1. /\ DOMAIN a = 1..Len(a) /\ Len(a) \in Nat /\ Len(b) \in Nat
      /\ DOMAIN (a \o b) = 1..(Len(a) + Len(b))
      /\ \A i \in 1..Len(a) : (a \o b)[i] = a[i]
  BY ConcatProperties, LenProperties
<1>2. InOrder(a)
  BY <1>1 DEF InOrder
<1> QED
  BY <1>2, ConcatEmptySeq

LEMMA OrderWithout ==
  ASSUME NEW p \in Seq(Nat), NEW t \in Seq(Nat), InOrder(p \o t), NEW k \in Nat
  PROVE  InOrder(p \o SubSeq(t, k + 1, Len(t)))
<1> DEFINE u == SubSeq(t, k + 1, Len(t))
           n == Len(p)
<1>1. /\ Len(t) \in Nat /\ n \in Nat
      /\ \A i \in 1..Len(t) : t[i] \in Nat
  BY LenProperties, ElementOfSeq
<1>2. /\ u \in Seq(Nat)
      /\ Len(u) = IF k + 1 <= Len(t) THEN Len(t) - k ELSE 0
      /\ \A i \in 1..(Len(t) - k) : u[i] = t[k + i]
  BY <1>1, SubSeqProperties
<1> HIDE DEF u, n
<1>3. /\ DOMAIN (p \o u) = 1..(n + Len(u)) /\ Len(u) \in Nat
      /\ \A i \in 1..(n + Len(u)) : (p \o u)[i] = IF i <= n THEN p[i] ELSE u[i - n]
  <2>1. u \in Seq(Nat)
    BY <1>2
  <2> QED
    BY ONLY <2>1, p \in Seq(Nat), ConcatProperties, LenProperties DEF n
<1>4. /\ DOMAIN (p \o t) = 1..(n + Len(t))
      /\ \A i \in 1..(n + Len(t)) : (p \o t)[i] = IF i <= n THEN p[i] ELSE t[i - n]
  BY ConcatProperties, LenProperties DEF n
<1> DEFINE old(i) == IF i <= n THEN i ELSE i + k
<1>5. ASSUME NEW i \in 1..(n + Len(u))
      PROVE  old(i) \in 1..(n + Len(t)) /\ (p \o u)[i] = (p \o t)[old(i)]
  <2>1. CASE i <= n
    BY <1>1, <1>3, <1>4, <2>1
  <2>2. CASE i > n
    <3>1. Len(u) = Len(t) - k /\ i - n \in 1..(Len(t) - k)
      BY <1>1, <1>2, <1>5, <2>2
    <3>2. old(i) = i + k /\ i + k \in 1..(n + Len(t)) /\ ~(i + k <= n)
      BY <1>1, <2>2, <3>1
    <3>3. (p \o u)[i] = u[i - n] /\ u[i - n] = t[k + (i - n)]
      <4>1. (p \o u)[i] = u[i - n]
        BY <1>1, <1>3, <2>2
      <4>2. u[i - n] = t[k + (i - n)]
        BY <1>2, <3>1
      <4> QED
        BY <4>1, <4>2
    <3>4. (p \o t)[i + k] = t[(i + k) - n]
      BY <1>4, <3>2
    <3>5. (i + k) - n = k + (i - n)
      BY <1>1, <1>5
    <3> QED
      BY <3>2, <3>3, <3>4, <3>5
  <2>3. i <= n \/ i > n
    BY <1>1, <1>3
  <2> HIDE DEF old
  <2> QED
    BY <2>1, <2>2, <2>3
<1>6. \A i, j \in 1..(n + Len(u)) : i < j => old(i) < old(j)
  BY <1>1, <1>3
<1>7. \A i, j \in 1..(n + Len(t)) : i < j => (p \o t)[i] < (p \o t)[j]
  BY <1>4 DEF InOrder
<1> HIDE DEF old
<1>8. InOrder(p \o u)
  BY <1>3, <1>5, <1>6, <1>7 DEF InOrder
<1> QED
  BY <1>8 DEF u

LEMMA OrderExtended ==
  ASSUME NEW n \in Nat, NEW s \in Seq(1..n), InOrder(s)
  PROVE  InOrder(s \o <<n + 1>>)
<1>1. <<n + 1>> \in Seq(Nat) /\ Len(<<n + 1>>) = 1 /\ <<n + 1>>[1] = n + 1
  OBVIOUS
<1>2. /\ s \in Seq(Nat) /\ DOMAIN s = 1..Len(s) /\ Len(s) \in Nat
      /\ \A i \in 1..Len(s) : s[i] \in 1..n
  BY SeqMonotonic, LenProperties, ElementOfSeq
<1>3. /\ DOMAIN (s \o <<n + 1>>) = 1..(Len(s) + 1)
      /\ \A i \in 1..Len(s) : (s \o <<n + 1>>)[i] = s[i]
      /\ (s \o <<n + 1>>)[Len(s) + 1] = n + 1
  BY <1>1, <1>2, ConcatProperties, LenProperties
<1> QED
  BY <1>2, <1>3 DEF InOrder

LEMMA PartsOf ==
  ASSUME NEW S, NEW t \in Seq(S), NEW n \in 0..Len(t)
  PROVE  /\ SubSeq(t, 1, n) \in Seq(S) /\ SubSeq(t, n + 1, Len(t)) \in Seq(S)
         /\ SubSeq(t, 1, n) \o SubSeq(t, n + 1, Len(t)) = t
<1>1. Len(t) \in Nat /\ \A i \in 1..Len(t) : t[i] \in S
  BY LenProperties, ElementOfSeq
<1>2. SubSeq(t, 1, n) \in Seq(S) /\ SubSeq(t, n + 1, Len(t)) \in Seq(S)
  BY <1>1, SubSeqProperties
<1>3. SubSeq(t, 1, n) \o SubSeq(t, n + 1, Len(t)) = SubSeq(t, 1, Len(t))
  <2>1. 1 \in 1..Len(t) + 1 /\ n \in 1 - 1..Len(t) /\ Len(t) \in n..Len(t)
    BY <1>1
  <2> QED
    BY <2>1, ConcatAdjacentSubSeq
<1> QED
  BY <1>2, <1>3, SubSeqFull

LEMMA JoinsAgree ==
  \A u, v, w \in Seq(Nat) : (u \o v) \o w = u \o (v \o w)
<1> TAKE u, v, w \in Seq(Nat)
<1> QED
  BY ONLY u \in Seq(Nat), v \in Seq(Nat), w \in Seq(Nat), ConcatAssociative, SMTT(30)

LEMMA ConcatFour ==
  ASSUME NEW B, NEW p \in Seq(B), NEW f \in Seq(B), NEW k \in Seq(B), NEW t \in Seq(B)
  PROVE  (p \o f) \o (k \o t) = p \o ((f \o k) \o t)
<1>1. k \o t \in Seq(B)
  BY ConcatProperties
<1> DEFINE kt == k \o t
<1>2. kt \in Seq(B)
  BY <1>1
<1> HIDE DEF kt
<1>3. (p \o f) \o kt = p \o (f \o kt)
  BY <1>2, ConcatAssociative
<1>4. (f \o k) \o t = f \o (k \o t)
  BY ConcatAssociative
<1> QED
  BY <1>3, <1>4 DEF kt

LEMMA BsInitWhole == BsInit => BsLinked(bz) /\ BsWhole(bz)
<1> SUFFICES ASSUME BsInit
             PROVE  BsLinked(bz) /\ BsWhole(bz)
  OBVIOUS
<1>1. PICK s \in BsScenarios :
    bz = SocketBase([scenario |-> s, connecting |-> FALSE, rn |-> "none", wn |-> "none",
                     tx |-> <<>>, rx |-> <<>>, posted |-> 0, events |-> <<>>,
                     link |-> "closed", inbox |-> <<>>, sent |-> 0, peer |-> <<>>,
                     nullUsed |-> FALSE])
  BY DEF BsInit
<1> DEFINE own == [scenario |-> s, connecting |-> FALSE, rn |-> "none", wn |-> "none",
                   tx |-> <<>>, rx |-> <<>>, posted |-> 0, events |-> <<>>,
                   link |-> "closed", inbox |-> <<>>, sent |-> 0, peer |-> <<>>,
                   nullUsed |-> FALSE]
           base == [state |-> "Unconnected", agent |-> FALSE, told |-> "nothing",
                    errors |-> 0, session |-> 0, written |-> <<>>, got |-> <<>>]
<1>2. bz = [f \in DOMAIN own \cup DOMAIN base |->
              IF f \in DOMAIN own THEN own[f] ELSE base[f]]
  BY <1>1 DEF SocketBase
<1>3. /\ DOMAIN own = {"scenario", "connecting", "rn", "wn", "tx", "rx", "posted", "events",
                       "link", "inbox", "sent", "peer", "nullUsed"}
      /\ DOMAIN base = {"state", "agent", "told", "errors", "session", "written", "got"}
      /\ own["tx"] = <<>> /\ own["rx"] = <<>> /\ own["events"] = <<>>
      /\ own["link"] = "closed" /\ own["inbox"] = <<>> /\ own["sent"] = 0
      /\ own["peer"] = <<>> /\ base["state"] = "Unconnected" /\ base["agent"] = FALSE
      /\ base["errors"] = 0 /\ base["session"] = 0 /\ base["written"] = <<>>
      /\ base["got"] = <<>>
  OBVIOUS
<1> HIDE DEF own, base
<1>4. /\ bz.tx = <<>> /\ bz.rx = <<>> /\ bz.events = <<>> /\ bz.link = "closed"
      /\ bz.inbox = <<>> /\ bz.sent = 0 /\ bz.peer = <<>> /\ bz.state = "Unconnected"
      /\ bz.agent = FALSE /\ bz.errors = 0 /\ bz.session = 0 /\ bz.written = <<>>
      /\ bz.got = <<>>
  BY <1>2, <1>3
<1>5. BsLinked(bz)
  BY <1>4 DEF BsLinked, BsJoined, BsBatched, BsMoving, Links, SocketStates
<1>6. BsCounted(bz)
  BY <1>4 DEF BsCounted
<1>7. /\ \A S : <<>> \in Seq(S)
      /\ <<>> \o <<>> = <<>> /\ (<<>> \o <<>>) \o <<>> = <<>> /\ DOMAIN <<>> = {}
  BY EmptySeq, ConcatEmptySeq
<1>8. InOrder(<<>>)
  BY <1>7 DEF InOrder
<1>9. BsOrdered(bz)
  BY <1>4, <1>7, <1>8 DEF BsOrdered
<1> QED
  BY <1>5, <1>6, <1>9 DEF BsWhole

\* The bytes are the same but for those that arrived and were never read.
BsSameBytes(c, r) ==
  /\ c.sent = r.sent /\ c.session = r.session /\ c.got = r.got /\ c.rx = r.rx
  /\ c.written = r.written /\ c.peer = r.peer /\ c.tx = r.tx
  /\ c.scenario = r.scenario

LEMMA BsOrderedSame ==
  ASSUME NEW r, BsOrdered(r), NEW c, BsSameBytes(c, r), c.inbox \in {r.inbox, <<>>},
         c.errors \in Nat, c.errors = 0 => r.errors = 0
  PROVE  BsOrdered(c)
<1>1. r.got \o r.rx \in Seq(Nat) /\ r.inbox \in Seq(Nat) /\ <<>> \in Seq(1..r.sent)
  <2>1. r.sent \in Nat /\ 1..r.sent \subseteq Nat
    BY DEF BsOrdered
  <2>2. r.got \in Seq(Nat) /\ r.rx \in Seq(Nat) /\ r.inbox \in Seq(Nat)
    BY <2>1, SeqMonotonic DEF BsOrdered
  <2> QED
    BY <2>2, ConcatProperties
<1>2. InOrder((r.got \o r.rx) \o <<>>)
  BY <1>1, OrderOfParts DEF BsOrdered
<1>3. InOrder(c.got \o c.rx \o c.inbox)
  BY <1>2 DEF BsOrdered, BsSameBytes
<1> QED
  BY <1>1, <1>3 DEF BsOrdered, BsSameBytes

LEMMA BsCountedSame ==
  ASSUME NEW r, BsCounted(r), NEW c, BsSameBytes(c, r), ~c.agent \/ r.agent,
         c.link = "closed" \/ (c.link = r.link /\ c.inbox = r.inbox)
  PROVE  BsCounted(c)
BY DEF BsCounted, BsSameBytes

\* The notifier that setEnabled() sets, and the fields it leaves alone.
LEMMA EnableLeaves ==
  ASSUME NEW r, BsCore(r), r.rn # "none", NEW n \in {"rn", "wn"}, NEW on \in BOOLEAN
  PROVE  LET e == Enable(r, n, on) IN
         /\ BsSameBytes(e, r) /\ e.inbox = r.inbox /\ e.errors = r.errors
         /\ e.link = r.link /\ e.state = r.state /\ e.connecting = r.connecting
         /\ e.agent = r.agent /\ e.posted = r.posted /\ DOMAIN e = BsFields
<1> DEFINE e == Enable(r, n, on)
<1>1. PICK value : value = (IF on THEN "on" ELSE "off")
  OBVIOUS
<1>2. PICK events : events = (IF on THEN r.events
                              ELSE IF r.events = <<n>> THEN <<>> ELSE r.events)
  OBVIOUS
<1>3. r[n] # "none" /\ DOMAIN r = BsFields
  BY DEF BsCore
<1>4. e = [r EXCEPT ![n] = value, !.events = events]
  BY <1>1, <1>2, <1>3 DEF Enable
<1> HIDE DEF e
<1>5. /\ DOMAIN e = BsFields /\ e["events"] = events /\ e[n] = value
      /\ \A f \in BsFields \ {n, "events"} : e[f] = r[f]
  BY <1>3, <1>4 DEF BsFields
<1>6. /\ e["sent"] = r["sent"] /\ e["session"] = r["session"] /\ e["got"] = r["got"]
      /\ e["rx"] = r["rx"] /\ e["written"] = r["written"] /\ e["peer"] = r["peer"]
      /\ e["tx"] = r["tx"] /\ e["scenario"] = r["scenario"] /\ e["inbox"] = r["inbox"]
      /\ e["errors"] = r["errors"] /\ e["link"] = r["link"] /\ e["state"] = r["state"]
      /\ e["connecting"] = r["connecting"] /\ e["agent"] = r["agent"]
      /\ e["posted"] = r["posted"]
  BY <1>5 DEF BsFields
<1> QED
  BY <1>1, <1>2, <1>5, <1>6 DEF BsSameBytes, e

LEMMA EnableOn ==
  ASSUME NEW r, BsCore(r), r.rn # "none", NEW n \in {"rn", "wn"}
  PROVE  /\ Enable(r, n, TRUE).events = r.events
         /\ n = "wn" => Enable(r, n, TRUE).wn = "on" /\ Enable(r, n, TRUE).rn = r.rn
         /\ n = "rn" => Enable(r, n, TRUE).rn = "on" /\ Enable(r, n, TRUE).wn = r.wn
<1>1. r[n] # "none" /\ DOMAIN r = BsFields
  BY DEF BsCore
<1>2. Enable(r, n, TRUE) = [r EXCEPT ![n] = "on", !.events = r.events]
  BY <1>1 DEF Enable
<1> QED
  BY <1>1, <1>2 DEF BsFields

\* abort(): the descriptor, its notifiers and what has arrived are gone.
LEMMA BackendAbortLeaves ==
  ASSUME NEW r, DOMAIN r = BsFields, NEW c, c = BackendAbort(r)
  PROVE  /\ BsSameBytes(c, r) /\ c.inbox = <<>> /\ c.errors = r.errors
         /\ c.link = "closed" /\ c.state = "Unconnected" /\ c.events = <<>>
         /\ c.agent = r.agent /\ c.posted = r.posted
<1> DEFINE a == [r EXCEPT !.rn = "none", !.wn = "none", !.events = <<>>,
                          !.link = "closed", !.inbox = <<>>]
           b == SetSocketState(a, "Unconnected")
<1>1. /\ DOMAIN a = BsFields /\ a["events"] = <<>> /\ a["link"] = "closed"
      /\ a["inbox"] = <<>>
      /\ \A f \in BsFields \ {"rn", "wn", "events", "link", "inbox"} : a[f] = r[f]
  BY DEF BsFields
<1> HIDE DEF a
<1>2. /\ DOMAIN b = BsFields /\ b.state = "Unconnected"
      /\ \A f \in BsFields \ {"state", "told"} : b[f] = a[f]
  BY <1>1, SetSocketStateSets
<1> HIDE DEF b
<1>3. c = b
  BY DEF BackendAbort, b, a
<1>4. /\ b["sent"] = r["sent"] /\ b["session"] = r["session"] /\ b["got"] = r["got"]
      /\ b["rx"] = r["rx"] /\ b["written"] = r["written"] /\ b["peer"] = r["peer"]
      /\ b["tx"] = r["tx"] /\ b["scenario"] = r["scenario"] /\ b["inbox"] = <<>>
      /\ b["errors"] = r["errors"] /\ b["link"] = "closed" /\ b["events"] = <<>>
      /\ b["agent"] = r["agent"] /\ b["posted"] = r["posted"]
  BY <1>1, <1>2 DEF BsFields
<1> QED
  BY <1>2, <1>3, <1>4 DEF BsSameBytes

\* close(): at once when txBuffer is empty, with the write notifier on when it is not.
LEMMA BsCloseLeaves ==
  ASSUME NEW r, BsGood(r), r.state # "Unconnected", NEW c, c = BsClose(r)
  PROVE  /\ BsSameBytes(c, r) /\ c.errors = r.errors /\ ~c.agent
         /\ \/ /\ r.tx = <<>> /\ c.state = "Unconnected" /\ c.link = "closed"
               /\ c.inbox = <<>> /\ c.events = <<>>
            \/ /\ r.tx # <<>> /\ r.state \in {"Connected", "Closing"}
               /\ c.state = "Closing" /\ c.link = r.link /\ c.inbox = r.inbox
               /\ c.wn = "on"
<1> DEFINE a == [r EXCEPT !.agent = FALSE]
           d == SetSocketState(a, "Closing")
<1>1. /\ DOMAIN a = BsFields /\ a["agent"] = FALSE
      /\ \A f \in BsFields \ {"agent"} : a[f] = r[f]
  BY DEF BsGood, BsCore, BsFields
<1> HIDE DEF a
<1>2. /\ DOMAIN d = BsFields /\ d.state = "Closing"
      /\ \A f \in BsFields \ {"state", "told"} : d[f] = a[f]
  BY <1>1, SetSocketStateSets
<1> HIDE DEF d
<1>3. /\ d["sent"] = r["sent"] /\ d["session"] = r["session"] /\ d["got"] = r["got"]
      /\ d["rx"] = r["rx"] /\ d["written"] = r["written"] /\ d["peer"] = r["peer"]
      /\ d["tx"] = r["tx"] /\ d["scenario"] = r["scenario"] /\ d["inbox"] = r["inbox"]
      /\ d["errors"] = r["errors"] /\ d["link"] = r["link"] /\ d["events"] = r["events"]
      /\ d["agent"] = FALSE /\ d["posted"] = r["posted"] /\ d["rn"] = r["rn"]
      /\ d["wn"] = r["wn"] /\ d["nullUsed"] = r["nullUsed"]
  BY <1>1, <1>2 DEF BsFields
<1>4. c = BackendClose(d)
  BY DEF BsClose, SocketClose, EnterClosing, d, a
<1>5. CASE r.tx = <<>>
  <2>1. c = BackendAbort(d)
    BY <1>3, <1>4, <1>5 DEF BackendClose
  <2>2. /\ BsSameBytes(c, d) /\ c.inbox = <<>> /\ c.errors = d.errors
        /\ c.link = "closed" /\ c.state = "Unconnected" /\ c.events = <<>>
        /\ c.agent = d.agent
    BY <1>2, <2>1, BackendAbortLeaves
  <2> QED
    BY <1>3, <1>5, <2>2 DEF BsSameBytes
<1>6. CASE r.tx # <<>>
  <2>1. r.state \in {"Connected", "Closing"} /\ r.rn # "none"
    BY <1>6 DEF BsGood, BsCore
  <2>2. BsCore(d)
    BY <1>2, <1>3, <1>6, <2>1 DEF BsGood, BsCore
  <2>3. c = Enable(d, "wn", TRUE)
    BY <1>3, <1>4, <1>6 DEF BackendClose
  <2>4. /\ BsSameBytes(c, d) /\ c.inbox = d.inbox /\ c.errors = d.errors
        /\ c.link = d.link /\ c.state = d.state /\ c.agent = d.agent /\ c["wn"] = "on"
    <3>1. d.rn # "none" /\ "wn" \in {"rn", "wn"} /\ TRUE \in BOOLEAN
      BY <1>3, <2>1
    <3>2. /\ BsSameBytes(c, d) /\ c.inbox = d.inbox /\ c.errors = d.errors
          /\ c.link = d.link /\ c.state = d.state /\ c.agent = d.agent
          /\ c.wn = "on"
      BY ONLY <2>2, <2>3, <3>1, EnableLeaves, EnableOn
    <3> QED
      BY <3>2
  <2> QED
    BY <1>2, <1>3, <1>6, <2>1, <2>4 DEF BsSameBytes
<1> QED
  BY <1>5, <1>6

LEMMA BsCloseWhole ==
  ASSUME NEW r, BsGood(r), BsJoined(r), BsWhole(r), NEW c, c = BsClose(r)
  PROVE  BsLinked(c) /\ BsWhole(c)
<1>1. CASE r.state = "Unconnected"
  <2>1. c = r
    BY <1>1 DEF BsClose, SocketClose
  <2>2. r.link \in {"closed", "idle"} /\ r.tx = <<>>
    BY <1>1 DEF BsJoined, BsGood, BsCore
  <2> QED
    BY <1>1, <2>1, <2>2 DEF BsLinked, BsBatched, BsMoving
<1>2. CASE r.state # "Unconnected"
  <2>1. /\ BsSameBytes(c, r) /\ c.errors = r.errors /\ ~c.agent
        /\ \/ /\ r.tx = <<>> /\ c.state = "Unconnected" /\ c.link = "closed"
              /\ c.inbox = <<>> /\ c.events = <<>>
           \/ /\ r.tx # <<>> /\ r.state \in {"Connected", "Closing"}
              /\ c.state = "Closing" /\ c.link = r.link /\ c.inbox = r.inbox
              /\ c.wn = "on"
    BY <1>2, BsCloseLeaves
  <2>2. BsOrdered(c)
    BY <2>1, BsOrderedSame DEF BsWhole, BsOrdered
  <2>3. BsCounted(c)
    BY <2>1, BsCountedSame DEF BsWhole
  <2>4. BsJoined(c)
    BY <2>1 DEF BsJoined, Links, SocketStates
  <2>5. BsBatched(c) /\ BsMoving(c)
    BY <2>1 DEF BsJoined, BsBatched, BsMoving, BsSameBytes
  <2> QED
    BY <2>2, <2>3, <2>4, <2>5 DEF BsLinked, BsWhole
<1> QED
  BY <1>1, <1>2

LEMMA AfterWriteWhole ==
  ASSUME NEW r, BsGood(r), BsJoined(r), BsWhole(r), r.state # "Connecting",
         NEW c, c = AfterWrite(r)
  PROVE  BsLinked(c) /\ BsWhole(c)
<1>1. CASE r.tx # <<>>
  <2>1. BsCore(r) /\ r.rn # "none" /\ r.state \in {"Connected", "Closing"}
    BY <1>1 DEF BsGood, BsCore
  <2>2. c = Enable(r, "wn", TRUE)
    BY <1>1 DEF AfterWrite
  <2>3. /\ BsSameBytes(c, r) /\ c.inbox = r.inbox /\ c.errors = r.errors
        /\ c.link = r.link /\ c.state = r.state /\ c.agent = r.agent /\ c.wn = "on"
    BY ONLY <2>1, <2>2, EnableLeaves, EnableOn
  <2>4. BsOrdered(c)
    BY <2>3, BsOrderedSame DEF BsWhole, BsOrdered
  <2>5. BsCounted(c)
    BY <2>3, BsCountedSame DEF BsWhole
  <2>6. BsJoined(c)
    BY <2>3 DEF BsJoined, BsSameBytes
  <2>7. BsBatched(c) /\ BsMoving(c)
    BY <2>1, <2>3 DEF BsJoined, BsBatched, BsMoving
  <2> QED
    BY <2>4, <2>5, <2>6, <2>7 DEF BsLinked, BsWhole
<1>2. CASE r.tx = <<>> /\ r.state = "Closing"
  <2> DEFINE e == Enable(r, "wn", FALSE)
  <2>1. BsCore(r) /\ r.rn # "none"
    BY <1>2 DEF BsGood, BsCore
  <2>2. BsSameBytes(e, r) /\ e.errors = r.errors /\ DOMAIN e = BsFields
        /\ e.agent = r.agent
    BY <2>1, EnableLeaves
  <2>3. c = BackendAbort(e)
    BY <1>2, <2>2 DEF AfterWrite, BackendClose, BsSameBytes
  <2> HIDE DEF e
  <2>4. /\ BsSameBytes(c, e) /\ c.inbox = <<>> /\ c.errors = e.errors
        /\ c.link = "closed" /\ c.state = "Unconnected" /\ c.events = <<>>
        /\ c.agent = e.agent
    BY <2>2, <2>3, BackendAbortLeaves
  <2>5. BsSameBytes(c, r) /\ ~c.agent
    BY <1>2, <2>2, <2>4 DEF BsSameBytes, BsGood
  <2>6. BsOrdered(c)
    BY <2>2, <2>4, <2>5, BsOrderedSame DEF BsWhole, BsOrdered
  <2>7. BsCounted(c)
    BY <2>4, <2>5, BsCountedSame DEF BsWhole
  <2>8. BsJoined(c) /\ BsBatched(c) /\ BsMoving(c)
    BY <1>2, <2>4, <2>5
       DEF BsJoined, BsBatched, BsMoving, BsSameBytes, Links, SocketStates
  <2> QED
    BY <2>6, <2>7, <2>8 DEF BsLinked, BsWhole
<1>3. CASE r.tx = <<>> /\ r.state # "Closing"
  <2>1. c = r
    BY <1>3 DEF AfterWrite
  <2> QED
    BY <1>3, <2>1 DEF BsLinked, BsJoined, BsBatched, BsMoving
<1> QED
  BY <1>1, <1>2, <1>3

LEMMA NextInOrder ==
  ASSUME NEW n \in Nat, NEW p \in Seq(1..n), NEW t \in Seq(1..n),
         InOrder(p \o t), NEW b, b = n + 1
  PROVE  /\ p \in Seq(1..b) /\ t \in Seq(1..b) /\ Append(t, b) \in Seq(1..b)
         /\ p \o Append(t, b) = Append(p \o t, b)
         /\ InOrder(p \o Append(t, b))
         /\ Len(p \o Append(t, b)) = Len(p \o t) + 1
<1>1. b \in Nat /\ 1..n \subseteq 1..b /\ b \in 1..b
  OBVIOUS
<1>3. p \in Seq(1..b) /\ t \in Seq(1..b)
  BY <1>1, SeqMonotonic
<1>4. Append(t, b) \in Seq(1..b) /\ Append(t, b) = t \o <<b>> /\ <<b>> \in Seq(1..b)
  BY <1>1, <1>3, AppendProperties, AppendIsConcat
<1>5. p \o t \in Seq(1..b) /\ p \o t \in Seq(1..n)
  BY <1>3, ConcatProperties
<1>6. Append(p \o t, b) = (p \o t) \o <<b>> /\ Len(Append(p \o t, b)) = Len(p \o t) + 1
  BY <1>1, <1>5, AppendIsConcat, AppendProperties
<1>7. InOrder((p \o t) \o <<b>>)
  BY <1>1, <1>5, OrderExtended
<1>8. p \o (t \o <<b>>) = (p \o t) \o <<b>>
  <2> DEFINE s == <<b>>
             B == 1..b
  <2>1. s \in Seq(B) /\ p \in Seq(B) /\ t \in Seq(B)
    BY <1>3, <1>4
  <2> HIDE DEF s, B
  <2>2. p \o (t \o s) = (p \o t) \o s
    BY ONLY <2>1, ConcatAssociative
  <2> QED
    BY <2>2 DEF s
<1> QED
  BY <1>1, <1>3, <1>4, <1>6, <1>7, <1>8

LEMMA NewByte ==
  ASSUME NEW w \in Seq(Nat), NEW p \in Seq(1..Len(w)), NEW t \in Seq(1..Len(w)),
         InOrder(p \o t), NEW b, b = Len(w) + 1
  PROVE  /\ Append(w, b) \in Seq(Nat) /\ Len(Append(w, b)) = b /\ b \in Nat
         /\ p \in Seq(1..b) /\ Append(t, b) \in Seq(1..b)
         /\ p \o Append(t, b) = Append(p \o t, b)
         /\ InOrder(p \o Append(t, b))
<1>1. b \in Nat /\ Len(w) \in Nat
  BY LenProperties
<1>2. Append(w, b) \in Seq(Nat) /\ Len(Append(w, b)) = b
  BY <1>1, AppendProperties
<1>3. /\ p \in Seq(1..b) /\ Append(t, b) \in Seq(1..b)
      /\ p \o Append(t, b) = Append(p \o t, b)
      /\ InOrder(p \o Append(t, b))
  BY <1>1, NextInOrder
<1> QED
  BY <1>1, <1>2, <1>3

LEMMA AppendedOrdered ==
  ASSUME NEW r, BsOrdered(r), NEW b, b = Len(r.written) + 1,
         NEW c, c.sent = r.sent, c.session = r.session, c.got = r.got, c.rx = r.rx,
         c.inbox = r.inbox, c.scenario = r.scenario, c.errors = r.errors,
         c.written = Append(r.written, b), "unbuffered" \notin r.scenario.may,
         c.peer = r.peer, c.tx = Append(r.tx, b)
  PROVE  BsOrdered(c)
<1>1. /\ c.written \in Seq(Nat) /\ Len(c.written) = b /\ c.peer \in Seq(1..b)
      /\ c.tx \in Seq(1..b) /\ InOrder(c.peer \o c.tx)
      /\ c.peer \o c.tx = Append(r.peer \o r.tx, b)
  <2>1. PICK w \in Seq(Nat) : w = r.written
    BY DEF BsOrdered
  <2>2. PICK p \in Seq(1..Len(w)), t \in Seq(1..Len(w)) : p = r.peer /\ t = r.tx
    BY <2>1 DEF BsOrdered
  <2>3. InOrder(p \o t) /\ b = Len(w) + 1
    BY <2>1, <2>2 DEF BsOrdered
  <2>4. /\ Append(w, b) \in Seq(Nat) /\ Len(Append(w, b)) = b
        /\ p \in Seq(1..b) /\ Append(t, b) \in Seq(1..b)
        /\ p \o Append(t, b) = Append(p \o t, b)
        /\ InOrder(p \o Append(t, b))
    BY <2>3, NewByte
  <2> QED
    BY <2>1, <2>2, <2>4
<1>2. c.errors = 0 => c.peer \o c.tx = c.written
  BY <1>1 DEF BsOrdered
<1> QED
  BY <1>1, <1>2 DEF BsOrdered

\* The bytes that write() adds to txBuffer, also in a slot: a notifier or a queued
\* call comes for them if one came for those before them.
LEMMA WriteDataWhole ==
  ASSUME NEW r, BsCore(r), r.rn # "none", BsOrdered(r), r.state = "Connected",
         "unbuffered" \notin r.scenario.may, NEW c, c = WriteData(r)
  PROVE  /\ BsOrdered(c) /\ (BsMoving(r) => BsMoving(c))
         /\ c.link = r.link /\ c.state = "Connected" /\ c.agent = r.agent
         /\ c.session = r.session /\ c.sent = r.sent /\ c.got = r.got /\ c.rx = r.rx
         /\ c.inbox = r.inbox /\ c.scenario = r.scenario
<1> DEFINE b == NextByte(r.written)
<1>0. DOMAIN r = BsFields
  BY DEF BsCore
<1> DEFINE a == Enable(r, "wn", TRUE)
           e == IF r.tx = <<>> THEN [a EXCEPT !.posted = @ + 1] ELSE r
<1>1. /\ BsSameBytes(a, r) /\ a.inbox = r.inbox /\ a.errors = r.errors
      /\ a.link = r.link /\ a.state = r.state /\ a.agent = r.agent
      /\ a.posted = r.posted /\ DOMAIN a = BsFields /\ a.wn = "on"
  BY <1>0, EnableLeaves, EnableOn
<1> HIDE DEF a
<1>2. /\ DOMAIN e = BsFields /\ BsSameBytes(e, r) /\ e.inbox = r.inbox
      /\ e.errors = r.errors /\ e.link = r.link /\ e.state = r.state
      /\ e.agent = r.agent /\ (BsMoving(r) => e.wn = "on" \/ e.posted > 0)
  <2>1. CASE r.tx = <<>>
    <3> DEFINE d == [a EXCEPT !.posted = @ + 1]
    <3>1. /\ DOMAIN d = BsFields
          /\ \A f \in BsFields \ {"posted"} : d[f] = a[f]
      BY <1>1 DEF BsFields
    <3> HIDE DEF d
    <3>2. /\ d["sent"] = a["sent"] /\ d["session"] = a["session"]
          /\ d["got"] = a["got"] /\ d["rx"] = a["rx"]
          /\ d["written"] = a["written"] /\ d["peer"] = a["peer"]
          /\ d["tx"] = a["tx"] /\ d["scenario"] = a["scenario"]
          /\ d["inbox"] = a["inbox"] /\ d["link"] = a["link"]
          /\ d["state"] = a["state"] /\ d["agent"] = a["agent"]
          /\ d["errors"] = a["errors"] /\ d["wn"] = a["wn"]
      BY <3>1 DEF BsFields
    <3>3. e = d
      BY <2>1 DEF d
    <3> QED
      BY <1>1, <3>1, <3>2, <3>3 DEF BsSameBytes
  <2>2. CASE r.tx # <<>>
    BY <1>0, <2>2 DEF BsSameBytes, BsMoving
  <2> QED
    BY <2>1, <2>2
<1> HIDE DEF e
<1>3. c = [e EXCEPT !.tx = Append(e.tx, b), !.written = Append(e.written, b)]
  <2>1. e = IF r.tx = <<>> THEN [Enable(r, "wn", TRUE) EXCEPT !.posted = @ + 1] ELSE r
    BY DEF e, a
  <2>2. c = [e EXCEPT !.tx = Append(@, NextByte(r.written)),
                        !.written = Append(@, NextByte(r.written))]
    BY <2>1 DEF WriteData
  <2> QED
    BY <2>2
<1>4. /\ c["tx"] = Append(e.tx, b) /\ c["written"] = Append(e.written, b)
      /\ \A f \in BsFields \ {"tx", "written"} : c[f] = e[f]
  BY <1>2, <1>3 DEF BsFields
<1>5. /\ c["sent"] = e["sent"] /\ c["session"] = e["session"]
      /\ c["got"] = e["got"] /\ c["rx"] = e["rx"]
      /\ c["errors"] = e["errors"] /\ c["peer"] = e["peer"]
      /\ c["scenario"] = e["scenario"] /\ c["wn"] = e["wn"]
      /\ c["inbox"] = e["inbox"] /\ c["link"] = e["link"]
      /\ c["state"] = e["state"] /\ c["agent"] = e["agent"]
      /\ c["posted"] = e["posted"]
  BY <1>4 DEF BsFields
<1>6. b = Len(r.written) + 1
  BY DEF NextByte
<1> HIDE DEF b
<1>8. BsOrdered(c)
  BY <1>2, <1>4, <1>5, <1>6, AppendedOrdered DEF BsSameBytes
<1>9. BsMoving(r) => BsMoving(c)
  BY <1>2, <1>5 DEF BsMoving
<1> QED
  BY <1>2, <1>5, <1>8, <1>9 DEF BsSameBytes

LEMMA InSlotWhole ==
  ASSUME NEW r, BsGood(r), BsJoined(r), BsWhole(r), r.state # "Connecting",
         NEW reaction, NEW c, c = InSlot(r, reaction),
         reaction = "write" => "unbuffered" \notin r.scenario.may
  PROVE  BsJoined(c) /\ BsWhole(c) /\ c.state # "Connecting"
<1>1. CASE reaction = "close"
  <2>1. c = BsClose(r)
    BY <1>1 DEF InSlot
  <2> QED
    BY <2>1, BsCloseWhole, BsCloseGood DEF BsLinked
<1>2. CASE reaction = "write" /\ CanWrite(r)
  <2>1. c = WriteData(r) /\ r.state = "Connected" /\ BsCore(r) /\ r.rn # "none"
    BY <1>2 DEF InSlot, CanWrite, BsGood, BsCore
  <2>2. /\ BsOrdered(c) /\ c.link = r.link /\ c.state = "Connected" /\ c.agent = r.agent
        /\ c.session = r.session /\ c.sent = r.sent /\ c.got = r.got /\ c.rx = r.rx
        /\ c.inbox = r.inbox /\ c.scenario = r.scenario
    BY <1>2, <2>1, WriteDataWhole DEF BsWhole
  <2>3. BsCounted(c) /\ BsJoined(c)
    BY <2>1, <2>2 DEF BsWhole, BsCounted, BsJoined
  <2> QED
    BY <2>2, <2>3 DEF BsWhole
<1>3. CASE reaction # "close" /\ ~(reaction = "write" /\ CanWrite(r))
  BY <1>3 DEF InSlot
<1> QED
  BY <1>1, <1>2, <1>3

\* The bytes of txBuffer that ::write() took, and those it took and lost.
LEMMA WrittenOrdered ==
  ASSUME NEW r, BsOrdered(r), r.tx # <<>>, NEW size \in 0..Len(r.tx), NEW n \in 0..size,
         NEW c, c.sent = r.sent, c.session = r.session, c.got = r.got, c.rx = r.rx,
         c.inbox = r.inbox, c.written = r.written, c.scenario = r.scenario,
         c.errors = r.errors,
         c.peer = r.peer \o SubSeq(SubSeq(r.tx, 1, size), 1, n),
         c.tx = SubSeq(SubSeq(r.tx, 1, size), n + 1, size)
                  \o SubSeq(r.tx, size + 1, Len(r.tx))
  PROVE  BsOrdered(c)
<1> DEFINE B == 1..Len(r.written)
           buf == SubSeq(r.tx, 1, size)
           rest == SubSeq(r.tx, size + 1, Len(r.tx))
<1>1. r.tx \in Seq(B) /\ r.peer \in Seq(B) /\ Len(r.tx) \in Nat
  BY LenProperties DEF BsOrdered
<1> HIDE DEF B
<1>2. buf \in Seq(B) /\ rest \in Seq(B) /\ buf \o rest = r.tx
  BY <1>1, PartsOf
<1>3. Len(buf) = size
  <2>1. \A i \in 1..size : r.tx[i] \in B
    BY <1>1, ElementOfSeq
  <2>2. 1 \in Int /\ size \in Int /\ (1 <= size => size - 1 + 1 = size)
        /\ (~(1 <= size) => size = 0)
    BY <1>1
  <2>3. Len(buf) = IF 1 <= size THEN size - 1 + 1 ELSE 0
    BY <2>1, <2>2, SubSeqProperties
  <2> QED
    BY <2>2, <2>3
<1> HIDE DEF buf, rest
<1> DEFINE first == SubSeq(buf, 1, n)
           kept == SubSeq(buf, n + 1, size)
<1>4. first \in Seq(B) /\ kept \in Seq(B) /\ first \o kept = buf
  BY <1>2, <1>3, PartsOf
<1>5. c.peer = r.peer \o first /\ c.tx = kept \o rest
  BY DEF buf, rest
<1> HIDE DEF first, kept
<1>6. c.peer \in Seq(B) /\ c.tx \in Seq(B) /\ kept \o rest \in Seq(B)
  BY <1>1, <1>2, <1>4, <1>5, ConcatProperties
<1>7. c.peer \o c.tx = r.peer \o r.tx
  <2>1. (r.peer \o first) \o (kept \o rest) = r.peer \o ((first \o kept) \o rest)
    <3> HIDE DEF B
    <3>1. r.peer \in Seq(B) /\ first \in Seq(B) /\ kept \in Seq(B) /\ rest \in Seq(B)
      BY <1>1, <1>2, <1>4
    <3> DEFINE p == r.peer
    <3>2. p \in Seq(B)
      BY <3>1
    <3> HIDE DEF p
    <3>3. (p \o first) \o (kept \o rest) = p \o ((first \o kept) \o rest)
      BY ONLY <3>1, <3>2, ConcatFour, SMTT(60)
    <3> QED
      BY <3>3 DEF p
  <2> QED
    BY <1>2, <1>4, <1>5, <2>1
<1> QED
  BY <1>6, <1>7 DEF BsOrdered, B

LEMMA LostOrdered ==
  ASSUME NEW r, BsOrdered(r), r.tx # <<>>, NEW size \in Nat,
         NEW c, c.sent = r.sent, c.session = r.session, c.got = r.got, c.rx = r.rx,
         c.inbox = r.inbox, c.written = r.written, c.scenario = r.scenario,
         c.errors \in Nat \ {0}, c.peer = r.peer,
         c.tx = SubSeq(r.tx, size + 1, Len(r.tx))
  PROVE  BsOrdered(c)
<1> DEFINE B == 1..Len(r.written)
<1>1. /\ r.tx \in Seq(B) /\ r.peer \in Seq(B) /\ r.written \in Seq(Nat)
      /\ InOrder(r.peer \o r.tx) /\ Len(r.tx) \in Nat
  BY LenProperties DEF BsOrdered
<1>2. B \subseteq Nat
  BY <1>1, LenProperties
<1> HIDE DEF B
<1>3. r.tx \in Seq(Nat) /\ r.peer \in Seq(Nat)
  BY <1>1, <1>2, SeqMonotonic
<1>4. InOrder(r.peer \o c.tx)
  BY <1>1, <1>3, OrderWithout
<1>5. c.tx \in Seq(B)
  <2>1. \A i \in (size + 1)..Len(r.tx) : r.tx[i] \in B
    BY <1>1, ElementOfSeq
  <2> QED
    BY <1>1, <2>1, SubSeqProperties
<1> QED
  BY <1>1, <1>4, <1>5 DEF BsOrdered, B

ChunkSize(r) == IF BsChunk < Len(r.tx) THEN BsChunk ELSE Len(r.tx)

LEMMA ChunkOf ==
  ASSUME NEW r, BsOrdered(r), NEW n, n \in WriteOutcomes(r, SubSeq(r.tx, 1, ChunkSize(r)))
  PROVE  /\ ChunkSize(r) \in 0..Len(r.tx) /\ ChunkSize(r) \in Nat
         /\ n = -1 \/ n \in 0..ChunkSize(r)
<1> DEFINE B == 1..Len(r.written)
           size == ChunkSize(r)
<1>1. r.tx \in Seq(B)
  BY DEF BsOrdered
<1>2. Len(r.tx) \in Nat /\ \A i \in 1..Len(r.tx) : r.tx[i] \in B
  BY <1>1, LenProperties, ElementOfSeq
<1>3. size \in 0..Len(r.tx) /\ size \in Nat
  BY <1>2, BsAssumption DEF ChunkSize
<1> HIDE DEF B, size
<1>4. Len(SubSeq(r.tx, 1, size)) = size
  <2>1. /\ \A i \in 1..size : r.tx[i] \in B
        /\ 1 \in Int /\ size \in Int /\ (1 <= size => size - 1 + 1 = size)
        /\ (~(1 <= size) => size = 0)
    BY <1>2, <1>3
  <2>2. Len(SubSeq(r.tx, 1, size)) = IF 1 <= size THEN size - 1 + 1 ELSE 0
    BY <2>1, SubSeqProperties
  <2> QED
    BY <2>1, <2>2
<1>5. n \in 0..Len(SubSeq(r.tx, 1, size)) \/ n = -1
  BY DEF WriteOutcomes, size
<1> QED
  BY <1>3, <1>4, <1>5 DEF size

LEMMA WriteBufferWhole ==
  ASSUME NEW r, BsGood(r), BsJoined(r), BsWhole(r), r.posted = 0, r.tx # <<>>,
         r.events \in {<<>>, <<"rn">>},
         NEW n, n \in WriteOutcomes(r, SubSeq(r.tx, 1, ChunkSize(r))), NEW reaction,
         NEW c, c = WriteBuffer(r, n, reaction)
  PROVE  BsLinked(c) /\ BsWhole(c)
<1> DEFINE size == ChunkSize(r)
           buf == SubSeq(r.tx, 1, size)
           rest == SubSeq(r.tx, size + 1, Len(r.tx))
           kept == SubSeq(buf, n + 1, size) \o rest
<1>1. size \in 0..Len(r.tx) /\ size \in Nat /\ (n = -1 \/ n \in 0..size)
  BY ChunkOf DEF BsWhole
<1>2. /\ r.state \in {"Connected", "Closing"} /\ r.rn # "none" /\ ~r.agent
      /\ DOMAIN r = BsFields
  BY DEF BsGood, BsCore
<1>3. BsOrdered(r) /\ BsCounted(r)
  BY DEF BsWhole
<1> DEFINE With(bytes, p, k) == [[r EXCEPT !.tx = bytes] EXCEPT !.peer = p, !.errors = k]
<1>4. ASSUME NEW bytes, NEW p, NEW k
      PROVE  LET d == With(bytes, p, k) IN
             /\ BsGood(d) /\ BsJoined(d) /\ BsCounted(d) /\ d.events = r.events
             /\ d.state # "Connecting" /\ d.tx = bytes /\ d.peer = p /\ d.errors = k
             /\ d.sent = r.sent /\ d.session = r.session /\ d.got = r.got /\ d.rx = r.rx
             /\ d.inbox = r.inbox /\ d.written = r.written /\ d.scenario = r.scenario
  <2> DEFINE d == With(bytes, p, k)
  <2>1. /\ DOMAIN d = BsFields /\ d["tx"] = bytes /\ d["peer"] = p /\ d["errors"] = k
        /\ \A f \in BsFields \ {"tx", "peer", "errors"} : d[f] = r[f]
    BY <1>2 DEF BsFields
  <2> HIDE DEF d
  <2>2. /\ d["scenario"] = r["scenario"] /\ d["rn"] = r["rn"] /\ d["wn"] = r["wn"]
        /\ d["rx"] = r["rx"] /\ d["posted"] = r["posted"] /\ d["events"] = r["events"]
        /\ d["link"] = r["link"] /\ d["inbox"] = r["inbox"] /\ d["sent"] = r["sent"]
        /\ d["nullUsed"] = r["nullUsed"] /\ d["state"] = r["state"]
        /\ d["agent"] = r["agent"] /\ d["session"] = r["session"]
        /\ d["written"] = r["written"] /\ d["got"] = r["got"]
    BY <2>1 DEF BsFields
  <2>3. BsGood(d)
    BY <1>2, <2>1, <2>2 DEF BsGood, BsCore
  <2>4. BsJoined(d)
    BY <2>2 DEF BsJoined
  <2>5. BsCounted(d)
    BY <1>3, <2>2 DEF BsCounted
  <2> QED
    BY <1>2, <2>1, <2>2, <2>3, <2>4, <2>5 DEF d
<1>5. CASE n = -1
  <2> DEFINE k == IF r.errors = 2 THEN 2 ELSE r.errors + 1
             d == With(rest, r.peer, k)
  <2>1. c = AfterWrite(SetSocketError([r EXCEPT !.tx = rest]))
    BY <1>5 DEF WriteBuffer, ChunkSize
  <2>2. SetSocketError([r EXCEPT !.tx = rest]) = d
    BY <1>2 DEF SetSocketError, BsFields
  <2>3. k \in Nat \ {0}
    <3>1. r.errors \in Nat
      BY <1>3 DEF BsOrdered
    <3> QED
      BY ONLY <3>1
  <2> HIDE DEF k, d, With
  <2>4. /\ BsGood(d) /\ BsJoined(d) /\ BsCounted(d) /\ d.events = r.events
        /\ d.state # "Connecting" /\ d.tx = rest /\ d.peer = r.peer /\ d.errors = k
        /\ d.sent = r.sent /\ d.session = r.session /\ d.got = r.got /\ d.rx = r.rx
        /\ d.inbox = r.inbox /\ d.written = r.written /\ d.scenario = r.scenario
    <3> HIDE DEF rest
    <3> QED
      BY ONLY <1>4 DEF d
  <2>5. BsOrdered(d)
    BY <1>1, <1>3, <2>3, <2>4, LostOrdered
  <2> QED
    BY <2>1, <2>2, <2>4, <2>5, AfterWriteWhole DEF BsWhole
<1>6. CASE n # -1
  <2> DEFINE p == r.peer \o SubSeq(buf, 1, n)
             d == With(kept, p, r.errors)
             w == IF n > 0 THEN reaction ELSE "none"
             i == InSlot(d, w)
  <2>1. c = AfterWrite(InSlot(Sent([r EXCEPT !.tx = kept], buf, n), w))
    BY <1>6 DEF WriteBuffer, ChunkSize
  <2>2. Sent([r EXCEPT !.tx = kept], buf, n) = d
    BY <1>2 DEF Sent, BsFields
  <2> HIDE DEF d, w, With
  <2>3. /\ BsGood(d) /\ BsJoined(d) /\ BsCounted(d) /\ d.events = r.events
        /\ d.state # "Connecting" /\ d.tx = kept /\ d.peer = p /\ d.errors = r.errors
        /\ d.sent = r.sent /\ d.session = r.session /\ d.got = r.got /\ d.rx = r.rx
        /\ d.inbox = r.inbox /\ d.written = r.written /\ d.scenario = r.scenario
    <3> HIDE DEF kept, p
    <3> QED
      BY ONLY <1>4 DEF d
  <2>4. BsOrdered(d)
    BY <1>1, <1>3, <1>6, <2>3, WrittenOrdered
  <2>5. BsGood(i)
    BY <2>3, InSlotGood
  <2>8. "unbuffered" \notin d.scenario.may
    BY <1>3, <2>3 DEF BsOrdered
  <2>6. BsJoined(i) /\ BsWhole(i) /\ i.state # "Connecting"
    BY <2>3, <2>4, <2>8, InSlotWhole DEF BsWhole
  <2> HIDE DEF i
  <2>7. c = AfterWrite(i)
    BY <2>1, <2>2 DEF i
  <2> QED
    BY <2>5, <2>6, <2>7, AfterWriteWhole
<1> QED
  BY <1>5, <1>6

\* What the batch of a socket that is connecting can bring.
BsDecided(r) ==
  r.state = "Connecting" =>
    /\ r.connecting /\ r.rn = "on" /\ r.wn = "on" /\ r.link \in {"refused", "up", "lost"}
    /\ r.link = "refused" => r.events = <<"rn">>

LEMMA FinishConnectWhole ==
  ASSUME NEW r, BsGood(r), BsJoined(r), BsWhole(r), r.posted = 0, r.state = "Connecting",
         BsDecided(r), NEW c, c = FinishConnect(r)
  PROVE  BsLinked(c) /\ BsWhole(c)
<1>1. /\ r.rn # "none" /\ r.tx = <<>> /\ ~r.agent /\ DOMAIN r = BsFields /\ BsCore(r)
  BY DEF BsGood, BsCore
<1>2. CASE r.link = "refused"
  <2> DEFINE s == [r EXCEPT !.link = "failed"]
             k == IF r.errors = 2 THEN 2 ELSE r.errors + 1
  <2>1. c = [s EXCEPT !.errors = k]
    BY <1>1, <1>2 DEF FinishConnect, SetSocketError, BsFields
  <2>2. k \in Nat \ {0}
    <3>1. r.errors \in Nat
      BY DEF BsWhole, BsOrdered
    <3> QED
      BY ONLY <3>1
  <2> HIDE DEF k
  <2>3. /\ DOMAIN c = BsFields /\ c["link"] = "failed" /\ c["errors"] = k
        /\ \A f \in BsFields \ {"link", "errors"} : c[f] = r[f]
    BY <1>1, <2>1 DEF BsFields
  <2>4. /\ c["sent"] = r["sent"] /\ c["session"] = r["session"] /\ c["got"] = r["got"]
        /\ c["rx"] = r["rx"] /\ c["written"] = r["written"] /\ c["peer"] = r["peer"]
        /\ c["tx"] = r["tx"] /\ c["scenario"] = r["scenario"]
        /\ c["inbox"] = r["inbox"] /\ c["agent"] = r["agent"] /\ c["state"] = r["state"]
        /\ c["rn"] = r["rn"] /\ c["wn"] = r["wn"] /\ c["connecting"] = r["connecting"]
        /\ c["events"] = r["events"]
    BY <2>3 DEF BsFields
  <2>5. BsSameBytes(c, r)
    BY <2>4 DEF BsSameBytes
  <2>6. BsOrdered(c)
    BY <2>2, <2>3, <2>4, <2>5, BsOrderedSame DEF BsWhole
  <2>7. BsCounted(c)
    BY <1>2, <2>3, <2>4 DEF BsWhole, BsCounted
  <2>8. BsJoined(c)
    BY <1>1, <1>2, <2>3, <2>4 DEF BsJoined, Links
  <2>9. BsBatched(c) /\ BsMoving(c)
    BY <1>1, <1>2, <2>3, <2>4 DEF BsBatched, BsMoving, BsDecided
  <2> QED
    BY <2>6, <2>7, <2>8, <2>9 DEF BsLinked, BsWhole
<1>3. CASE r.link # "refused"
  <2> DEFINE s == SetSocketState(r, "Connected")
             e == Enable(s, "wn", FALSE)
  <2>1. /\ DOMAIN s = BsFields /\ s.state = "Connected"
        /\ \A f \in BsFields \ {"state", "told"} : s[f] = r[f]
    BY <1>1, SetSocketStateSets
  <2> HIDE DEF s
  <2>2. /\ s["nullUsed"] = r["nullUsed"] /\ s["rn"] = r["rn"] /\ s["wn"] = r["wn"]
        /\ s["events"] = r["events"] /\ s["link"] = r["link"] /\ s["tx"] = r["tx"]
        /\ s["posted"] = r["posted"] /\ s["agent"] = r["agent"]
        /\ s["sent"] = r["sent"] /\ s["session"] = r["session"] /\ s["got"] = r["got"]
        /\ s["rx"] = r["rx"] /\ s["written"] = r["written"] /\ s["peer"] = r["peer"]
        /\ s["scenario"] = r["scenario"] /\ s["inbox"] = r["inbox"]
        /\ s["errors"] = r["errors"]
    BY <2>1 DEF BsFields
  <2>3. BsCore(s) /\ s.rn # "none"
    BY <1>1, <2>1, <2>2 DEF BsCore
  <2>4. /\ BsSameBytes(e, s) /\ e.inbox = s.inbox /\ e.errors = s.errors
        /\ e.link = s.link /\ e.state = s.state /\ e.agent = s.agent
        /\ DOMAIN e = BsFields
    BY <2>3, EnableLeaves
  <2>5. c = [e EXCEPT !.connecting = FALSE]
    BY <1>3 DEF FinishConnect, e, s
  <2> HIDE DEF e
  <2>6. \A f \in BsFields \ {"connecting"} : c[f] = e[f]
    BY <2>4, <2>5 DEF BsFields
  <2>7. /\ c["sent"] = e["sent"] /\ c["session"] = e["session"] /\ c["got"] = e["got"]
        /\ c["rx"] = e["rx"] /\ c["written"] = e["written"] /\ c["peer"] = e["peer"]
        /\ c["tx"] = e["tx"] /\ c["scenario"] = e["scenario"]
        /\ c["inbox"] = e["inbox"] /\ c["agent"] = e["agent"] /\ c["state"] = e["state"]
        /\ c["errors"] = e["errors"] /\ c["link"] = e["link"]
    BY <2>6 DEF BsFields
  <2>8. /\ BsSameBytes(c, r) /\ c.inbox = r.inbox /\ c.errors = r.errors
        /\ c.link = r.link /\ c.state = "Connected" /\ ~c.agent
    BY <1>1, <2>1, <2>2, <2>4, <2>7 DEF BsSameBytes
  <2>9. BsOrdered(c)
    BY <2>8, BsOrderedSame DEF BsWhole, BsOrdered
  <2>10. BsCounted(c)
    BY <2>8, BsCountedSame DEF BsWhole
  <2>11. c.link \in {"up", "lost"} /\ c.tx = <<>>
    BY <1>1, <1>3, <2>8 DEF BsDecided, BsSameBytes
  <2>12. BsJoined(c) /\ BsBatched(c) /\ BsMoving(c)
    BY <2>8, <2>11 DEF BsJoined, BsBatched, BsMoving, Links, SocketStates
  <2> QED
    BY <2>9, <2>10, <2>12 DEF BsLinked, BsWhole
<1> QED
  BY <1>2, <1>3

LEMMA WriteNotifyWhole ==
  ASSUME NEW r, BsGood(r), BsJoined(r), BsWhole(r), r.posted = 0, r.rn # "none",
         r.events \in {<<>>, <<"rn">>}, BsDecided(r), NEW reactions, NEW c \in WriteNotify(r, reactions)
  PROVE  BsLinked(c) /\ BsWhole(c)
<1>1. CASE r.connecting /\ r.state = "Connecting"
  <2>1. c = FinishConnect(r)
    BY <1>1 DEF WriteNotify
  <2> QED
    BY <1>1, <2>1, FinishConnectWhole
<1>2. CASE r.state # "Connecting" /\ r.tx = <<>>
  <2>1. c = Enable(r, "wn", FALSE)
    BY <1>2 DEF WriteNotify
  <2>2. /\ BsSameBytes(c, r) /\ c.inbox = r.inbox /\ c.errors = r.errors
        /\ c.link = r.link /\ c.state = r.state /\ c.agent = r.agent
    BY <2>1, EnableLeaves DEF BsGood
  <2>3. BsOrdered(c)
    BY <2>2, BsOrderedSame DEF BsWhole, BsOrdered
  <2>4. BsCounted(c)
    BY <2>2, BsCountedSame DEF BsWhole
  <2>5. BsJoined(c) /\ BsBatched(c) /\ BsMoving(c)
    BY <1>2, <2>2 DEF BsJoined, BsBatched, BsMoving, BsSameBytes
  <2> QED
    BY <2>3, <2>4, <2>5 DEF BsLinked, BsWhole
<1>3. CASE r.state # "Connecting" /\ r.tx # <<>>
  <2> DEFINE first == SubSeq(r.tx, 1, ChunkSize(r))
  <2>1. WriteNotify(r, reactions)
          = {WriteBuffer(r, n, w) : n \in WriteOutcomes(r, first), w \in reactions}
    BY <1>3 DEF WriteNotify, ChunkSize
  <2>2. PICK n \in WriteOutcomes(r, first), w \in reactions : c = WriteBuffer(r, n, w)
    BY <2>1
  <2> QED
    BY <1>3, <2>2, WriteBufferWhole
<1> QED
  BY <1>1, <1>2, <1>3 DEF BsDecided

LEMMA ReadOrdered ==
  ASSUME NEW r, BsOrdered(r), NEW n \in 0..Len(r.inbox),
         NEW c, c.sent = r.sent, c.session = r.session, c.got = r.got,
         c.rx = r.rx \o SubSeq(r.inbox, 1, n),
         c.inbox = SubSeq(r.inbox, n + 1, Len(r.inbox)),
         c.written = r.written, c.scenario = r.scenario, c.errors = r.errors,
         c.peer = r.peer, c.tx = r.tx
  PROVE  BsOrdered(c) /\ c.got \o c.rx \o c.inbox = r.got \o r.rx \o r.inbox
<1> DEFINE B == 1..r.sent
           f == SubSeq(r.inbox, 1, n)
           g == SubSeq(r.inbox, n + 1, Len(r.inbox))
<1>1. r.got \in Seq(B) /\ r.rx \in Seq(B) /\ r.inbox \in Seq(B)
  BY DEF BsOrdered
<1> HIDE DEF B
<1>2. f \in Seq(B) /\ g \in Seq(B) /\ f \o g = r.inbox
  BY <1>1, PartsOf
<1>3. c.rx = r.rx \o f /\ c.inbox = g
  OBVIOUS
<1> HIDE DEF f, g
<1>4. c.rx \in Seq(B) /\ c.inbox \in Seq(B)
  BY <1>1, <1>2, <1>3, ConcatProperties
<1>5. c.got \o c.rx \o c.inbox = r.got \o r.rx \o r.inbox
  <2> DEFINE cat(x, y) == x \o y
             SB == Seq(B)
  <2>1. ASSUME NEW p \in SB, NEW k \in SB, NEW t \in SB
        PROVE  cat(cat(p, k), t) = cat(p, cat(k, t)) /\ cat(k, t) \in SB
    <3>1. p \in Seq(B) /\ k \in Seq(B) /\ t \in Seq(B)
      BY <2>1
    <3> QED
      BY ONLY <3>1, ConcatAssociative, ConcatProperties DEF cat
  <2>2. r.got \in SB /\ r.rx \in SB /\ f \in SB /\ g \in SB
    BY <1>1, <1>2
  <2>3. c.got = r.got /\ c.rx = cat(r.rx, f) /\ c.inbox = g /\ cat(f, g) = r.inbox
    BY <1>2, <1>3
  <2> HIDE DEF cat, SB
  <2>4. cat(cat(r.got, cat(r.rx, f)), g) = cat(cat(r.got, r.rx), cat(f, g))
    <3>1. cat(r.rx, f) \in SB /\ cat(f, g) \in SB
      BY ONLY <2>1, <2>2
    <3> DEFINE rf == cat(r.rx, f)
               fg == cat(f, g)
    <3> HIDE DEF rf, fg
    <3>2. cat(cat(r.got, rf), g) = cat(r.got, cat(rf, g))
      <4>1. r.got \in SB /\ rf \in SB /\ g \in SB
        BY <2>2, <3>1 DEF rf
      <4> QED
        BY ONLY <2>1, <4>1
    <3>3. cat(cat(r.rx, f), g) = cat(r.rx, cat(f, g))
      BY ONLY <2>1, <2>2
    <3>4. cat(cat(r.got, r.rx), fg) = cat(r.got, cat(r.rx, fg))
      <4>1. r.got \in SB /\ r.rx \in SB /\ fg \in SB
        BY <2>2, <3>1 DEF fg
      <4> QED
        BY ONLY <2>1, <4>1
    <3> QED
      BY ONLY <3>2, <3>3, <3>4 DEF rf, fg
  <2> QED
    BY <2>3, <2>4 DEF cat
<1> QED
  BY <1>4, <1>5 DEF BsOrdered, B

LEMMA ReadNotifyWhole ==
  ASSUME NEW r, BsGood(r), BsJoined(r), BsWhole(r), BsMoving(r), r.rn # "none",
         r.state = "Connecting" => r.connecting /\ r.rn = "on" /\ r.wn = "on",
         NEW reactions, "write" \notin reactions, NEW q \in ReadNotify(r, reactions)
  PROVE  BsLinked(q) /\ BsWhole(q)
<1>1. CASE r.inbox = <<>>
  <2> DEFINE a == Enable(r, "rn", FALSE)
             b == Enable(a, "wn", FALSE)
             c == SetSocketError(b)
  <2>1. BsGood(a) /\ a.rn # "none"
    BY EnableKeepsGood
  <2>2. /\ BsSameBytes(a, r) /\ a.inbox = r.inbox /\ a.errors = r.errors
        /\ a.link = r.link /\ a.state = r.state /\ a.agent = r.agent
    BY EnableLeaves DEF BsGood
  <2> HIDE DEF a
  <2>3. BsGood(b)
    BY <2>1, EnableKeepsGood
  <2>4. /\ BsSameBytes(b, a) /\ b.inbox = a.inbox /\ b.errors = a.errors
        /\ b.link = a.link /\ b.state = a.state /\ b.agent = a.agent
    BY <2>1, EnableLeaves DEF BsGood
  <2> HIDE DEF b
  <2>5. BsGood(c)
    BY <2>3, ErrorGood
  <2>6. c.errors = IF b.errors = 2 THEN 2 ELSE b.errors + 1
    BY <2>3 DEF SetSocketError, BsGood, BsCore, BsFields
  <2>7. \A f \in BsFields \ {"errors"} : c[f] = b[f]
    BY <2>3, SetSocketErrorSets DEF BsGood, BsCore
  <2> HIDE DEF c
  <2>8. /\ c["sent"] = b["sent"] /\ c["session"] = b["session"] /\ c["got"] = b["got"]
        /\ c["rx"] = b["rx"] /\ c["written"] = b["written"] /\ c["peer"] = b["peer"]
        /\ c["tx"] = b["tx"] /\ c["scenario"] = b["scenario"]
        /\ c["inbox"] = b["inbox"] /\ c["agent"] = b["agent"] /\ c["state"] = b["state"]
        /\ c["link"] = b["link"]
    BY <2>7 DEF BsFields
  <2>9. /\ BsSameBytes(c, r) /\ c.inbox = r.inbox /\ c.link = r.link
        /\ c.state = r.state /\ c.agent = r.agent
        /\ c.errors = IF r.errors = 2 THEN 2 ELSE r.errors + 1
    BY <2>2, <2>4, <2>6, <2>8 DEF BsSameBytes
  <2>10. c.errors \in Nat \ {0}
    BY <2>9 DEF BsWhole, BsOrdered
  <2>11. BsOrdered(c)
    BY <2>9, <2>10, BsOrderedSame DEF BsWhole
  <2>12. BsCounted(c)
    BY <2>9, BsCountedSame DEF BsWhole
  <2>13. BsJoined(c)
    BY <2>9 DEF BsJoined, BsSameBytes
  <2>14. q = BsClose(c)
    BY <1>1 DEF ReadNotify, ReadFails, a, b, c
  <2> QED
    BY <2>5, <2>11, <2>12, <2>13, <2>14, BsCloseWhole DEF BsWhole
<1>2. CASE r.inbox # <<>>
  <2>1. PICK n \in 1..Len(r.inbox), w \in reactions : q = InSlot(ReadPart(r, n), w)
    BY <1>2, ReadNotifyReads
  <2> DEFINE s == ReadPart(r, n)
  <2>2. /\ DOMAIN s = DOMAIN r /\ \A f \in BsFields \ {"rx", "inbox"} : s[f] = r[f]
        /\ s["rx"] = r.rx \o SubSeq(r.inbox, 1, n)
        /\ s["inbox"] = SubSeq(r.inbox, n + 1, Len(r.inbox))
    BY DEF BsGood, BsCore, BsFields, ReadPart
  <2> HIDE DEF s
  <2>3. BsGood(s)
    BY <2>2, OtherFieldsGood
  <2>4. /\ s["sent"] = r["sent"] /\ s["session"] = r["session"] /\ s["got"] = r["got"]
        /\ s["written"] = r["written"] /\ s["peer"] = r["peer"] /\ s["tx"] = r["tx"]
        /\ s["scenario"] = r["scenario"] /\ s["agent"] = r["agent"]
        /\ s["state"] = r["state"] /\ s["link"] = r["link"] /\ s["errors"] = r["errors"]
        /\ s["connecting"] = r["connecting"] /\ s["rn"] = r["rn"] /\ s["wn"] = r["wn"]
        /\ s["posted"] = r["posted"]
    BY <2>2 DEF BsFields
  <2>5. n \in 0..Len(r.inbox)
    <3>1. r.inbox \in Seq(1..r.sent)
      BY DEF BsWhole, BsOrdered
    <3>2. Len(r.inbox) \in Nat
      BY <3>1, LenProperties
    <3> QED
      BY <3>2
  <2>6. BsOrdered(s) /\ s.got \o s.rx \o s.inbox = r.got \o r.rx \o r.inbox
    BY <2>2, <2>4, <2>5, ReadOrdered DEF BsWhole
  <2>7. r.link \in {"up", "lost"}
    BY <1>2 DEF BsJoined
  <2>8. BsCounted(s)
    BY <2>4, <2>6, <2>7 DEF BsWhole, BsCounted
  <2>9. BsJoined(s)
    BY <2>4, <2>7 DEF BsJoined
  <2>10. BsBatched(s) /\ BsMoving(s)
    BY <2>4, <2>7 DEF BsBatched, BsMoving
  <2>11. q = s \/ q = BsClose(s)
    BY <2>1 DEF InSlot, s
  <2> QED
    BY <2>3, <2>6, <2>8, <2>9, <2>10, <2>11, BsCloseWhole DEF BsLinked, BsWhole
<1> QED
  BY <1>1, <1>2

\* connectToServiceHelper(), and the socket that comes of it.
BsBegun(c, r) ==
  /\ BsSameBytes(c, r) /\ c.inbox = r.inbox /\ c.errors \in Nat
  /\ c.errors = 0 => r.errors = 0
  /\ \/ c.link = "idle" /\ c.state = r.state
     \/ /\ c.link = "connecting" /\ c.state = "Connecting" /\ c.connecting
        /\ c.rn = "on" /\ c.wn = "on" /\ c.events = <<>>

LEMMA ConnectBegins ==
  ASSUME NEW r, BsCore(r), r.link \in {"closed", "idle"}, r.events = <<>>,
         r.tx = <<>>, r.posted = 0, r.errors \in Nat, NEW result,
         NEW c, c = ConnectToServiceHelper(r, result)
  PROVE  BsBegun(c, r) /\ DOMAIN c = BsFields /\ c.agent = r.agent
<1> DEFINE n == EnsureNativeSocket(r)
           a == Enable(n, "wn", TRUE)
           e == Enable(a, "rn", TRUE)
<1>1. /\ BsCore(n) /\ n.rn # "none" /\ BsSameBytes(n, r) /\ n.inbox = r.inbox
      /\ n.errors = r.errors /\ n.state = r.state /\ n.agent = r.agent
      /\ n.events = <<>> /\ n.posted = 0 /\ n.link = "idle"
  BY DEF EnsureNativeSocket, BsCore, BsFields, BsSameBytes
<1> HIDE DEF n
<1>2. BsCore(a) /\ a.rn # "none" /\ a.posted = 0
  BY <1>1, EnableGood
<1>3. /\ BsSameBytes(a, n) /\ a.inbox = n.inbox /\ a.errors = n.errors
      /\ a.link = n.link /\ a.state = n.state /\ a.agent = n.agent
      /\ a.events = n.events /\ a.wn = "on"
  BY <1>1, EnableLeaves, EnableOn
<1> HIDE DEF a
<1>4. BsCore(e)
  BY <1>2, EnableGood
<1>5. /\ BsSameBytes(e, a) /\ e.inbox = a.inbox /\ e.errors = a.errors
      /\ e.link = a.link /\ e.state = a.state /\ e.agent = a.agent
      /\ e.events = a.events /\ e.wn = a.wn /\ e.rn = "on"
  BY <1>2, EnableLeaves, EnableOn
<1> HIDE DEF e
<1>6. /\ DOMAIN e = BsFields /\ BsSameBytes(e, r) /\ e.inbox = r.inbox
      /\ e.errors = r.errors /\ e.link = "idle" /\ e.state = r.state
      /\ e.agent = r.agent /\ e.events = <<>> /\ e.wn = "on" /\ e.rn = "on"
  BY <1>1, <1>3, <1>4, <1>5 DEF BsSameBytes, BsCore
<1>7. CASE result = "error"
  <2> DEFINE k == IF e.errors = 2 THEN 2 ELSE e.errors + 1
  <2>1. c = [e EXCEPT !.errors = k]
    BY <1>7 DEF ConnectToServiceHelper, SetSocketError, n, a, e
  <2>2. k \in Nat \ {0}
    BY <1>6
  <2> HIDE DEF k
  <2>3. /\ DOMAIN c = BsFields /\ c["errors"] = k
        /\ \A f \in BsFields \ {"errors"} : c[f] = e[f]
    BY <1>6, <2>1 DEF BsFields
  <2>4. /\ c["sent"] = e["sent"] /\ c["session"] = e["session"] /\ c["got"] = e["got"]
        /\ c["rx"] = e["rx"] /\ c["written"] = e["written"] /\ c["peer"] = e["peer"]
        /\ c["tx"] = e["tx"] /\ c["scenario"] = e["scenario"]
        /\ c["inbox"] = e["inbox"] /\ c["agent"] = e["agent"] /\ c["state"] = e["state"]
        /\ c["link"] = e["link"]
    BY <2>3 DEF BsFields
  <2> QED
    BY <1>6, <2>2, <2>3, <2>4 DEF BsBegun, BsSameBytes
<1>8. CASE result # "error"
  <2> DEFINE s == [e EXCEPT !.connecting = TRUE, !.link = "connecting"]
             d == SetSocketState(s, "Connecting")
  <2>1. /\ DOMAIN s = BsFields /\ s["link"] = "connecting" /\ s["connecting"] = TRUE
        /\ \A f \in BsFields \ {"connecting", "link"} : s[f] = e[f]
    BY <1>6 DEF BsFields
  <2> HIDE DEF s
  <2>2. /\ DOMAIN d = BsFields /\ d.state = "Connecting"
        /\ \A f \in BsFields \ {"state", "told"} : d[f] = s[f]
    BY <2>1, SetSocketStateSets
  <2> HIDE DEF d
  <2>3. /\ d["sent"] = e["sent"] /\ d["session"] = e["session"] /\ d["got"] = e["got"]
        /\ d["rx"] = e["rx"] /\ d["written"] = e["written"] /\ d["peer"] = e["peer"]
        /\ d["tx"] = e["tx"] /\ d["scenario"] = e["scenario"]
        /\ d["inbox"] = e["inbox"] /\ d["agent"] = e["agent"]
        /\ d["errors"] = e["errors"] /\ d["link"] = "connecting"
        /\ d["connecting"] = TRUE /\ d["rn"] = e["rn"] /\ d["wn"] = e["wn"]
        /\ d["events"] = e["events"]
    BY <2>1, <2>2 DEF BsFields
  <2>4. c = d
    BY <1>8 DEF ConnectToServiceHelper, n, a, e, s, d
  <2> QED
    BY <1>6, <2>2, <2>3, <2>4 DEF BsBegun, BsSameBytes
<1> QED
  BY <1>7, <1>8

LEMMA BegunWhole ==
  ASSUME NEW r, BsOrdered(r), r.tx = <<>>, r.inbox = <<>>,
         r.session # 0, r.session = 1 => r.sent = 0,
         r.state \in {"Unconnected", "ServiceLookup"},
         r.state = "Unconnected" => "lookup" \notin r.scenario.may,
         NEW c, BsBegun(c, r), ~c.agent
  PROVE  BsLinked(c) /\ BsWhole(c)
<1>1. BsOrdered(c)
  BY BsOrderedSame DEF BsBegun
<1>2. BsCounted(c)
  BY DEF BsBegun, BsSameBytes, BsCounted
<1>3. BsJoined(c)
  BY DEF BsBegun, BsSameBytes, BsJoined, Links, SocketStates
<1>4. BsBatched(c) /\ BsMoving(c)
  BY DEF BsBegun, BsSameBytes, BsBatched, BsMoving
<1> QED
  BY <1>1, <1>2, <1>3, <1>4 DEF BsLinked, BsWhole

BsAll == BsInv /\ BsLinked(bz) /\ BsWhole(bz)

LEMMA BsConnectWhole ==
  ASSUME BsAll, BsConnect
  PROVE  BsLinked(bz') /\ BsWhole(bz')
<1> DEFINE r == NewSession(bz)
<1>1. /\ bz.state = "Unconnected" /\ ~bz.agent /\ bz.events = <<>> /\ bz.tx = <<>>
      /\ bz.posted = 0 /\ DOMAIN bz = BsFields /\ BsCore(bz)
  BY DEF BsConnect, Idle, BsAll, BsInv, BsGood, BsCore
<1>2. bz.link \in {"closed", "idle"} /\ bz.inbox = <<>>
  BY <1>1 DEF BsAll, BsLinked, BsJoined
<1>3. /\ DOMAIN r = BsFields /\ r["session"] = bz.session + 1
      /\ \A f \in BsFields \ {"session"} : r[f] = bz[f]
  BY <1>1 DEF NewSession, BsFields
<1> HIDE DEF r
<1>4. /\ r["scenario"] = bz["scenario"] /\ r["connecting"] = bz["connecting"]
      /\ r["rn"] = bz["rn"] /\ r["wn"] = bz["wn"] /\ r["tx"] = bz["tx"]
      /\ r["rx"] = bz["rx"] /\ r["posted"] = bz["posted"] /\ r["events"] = bz["events"]
      /\ r["link"] = bz["link"] /\ r["inbox"] = bz["inbox"] /\ r["sent"] = bz["sent"]
      /\ r["peer"] = bz["peer"] /\ r["nullUsed"] = bz["nullUsed"]
      /\ r["state"] = bz["state"] /\ r["agent"] = bz["agent"]
      /\ r["errors"] = bz["errors"] /\ r["written"] = bz["written"]
      /\ r["got"] = bz["got"]
  BY <1>3 DEF BsFields
<1>5. BsOrdered(r) /\ r.errors \in Nat
  <2>1. BsOrdered(bz) /\ bz.session \in Nat /\ bz.errors \in Nat
    BY DEF BsAll, BsWhole, BsOrdered
  <2>2. r.session \in Nat
    BY <1>3, <2>1
  <2>3. BsOrdered(r)
    BY ONLY <1>4, <2>1, <2>2, Zenon DEF BsOrdered
  <2> QED
    BY <1>4, <2>1, <2>3
<1>6. BsCore(r)
  BY <1>1, <1>3, <1>4 DEF BsCore
<1>7. r.session # 0 /\ (r.session = 1 => r.sent = 0)
  <2>1. bz.session \in Nat /\ (bz.session = 0 => bz.sent = 0)
    BY DEF BsAll, BsWhole, BsCounted, BsOrdered
  <2> QED
    BY <1>3, <1>4, <2>1
<1>8. CASE ~BsMay("lookup") /\ \E result : bz' = ConnectToServiceHelper(r, result)
  <2>1. PICK result : bz' = ConnectToServiceHelper(r, result)
    BY <1>8
  <2>2. BsBegun(bz', r) /\ bz'.agent = r.agent
    BY <1>1, <1>2, <1>4, <1>5, <1>6, <2>1, ConnectBegins
  <2>3. "lookup" \notin r.scenario.may /\ ~bz'.agent /\ r.tx = <<>> /\ r.inbox = <<>>
        /\ r.state = "Unconnected"
    BY <1>1, <1>2, <1>4, <1>8, <2>2 DEF BsMay
  <2> QED
    BY <1>5, <1>7, <2>2, <2>3, BegunWhole
<1>9. CASE BsMay("lookup") /\ bz' = DoDeviceDiscovery(r)
  <2> DEFINE s == SetSocketState(r, "ServiceLookup")
  <2>1. /\ DOMAIN s = BsFields /\ s.state = "ServiceLookup"
        /\ \A f \in BsFields \ {"state", "told"} : s[f] = r[f]
    BY <1>3, SetSocketStateSets
  <2> HIDE DEF s
  <2>2. bz' = [s EXCEPT !.agent = TRUE]
    BY <1>9 DEF DoDeviceDiscovery, s
  <2>3. /\ bz'["state"] = "ServiceLookup"
        /\ \A f \in BsFields \ {"state", "told", "agent"} : bz'[f] = r[f]
    BY <2>1, <2>2 DEF BsFields
  <2>4. /\ bz'["sent"] = r["sent"] /\ bz'["session"] = r["session"]
        /\ bz'["got"] = r["got"] /\ bz'["rx"] = r["rx"] /\ bz'["written"] = r["written"]
        /\ bz'["peer"] = r["peer"] /\ bz'["tx"] = r["tx"]
        /\ bz'["scenario"] = r["scenario"] /\ bz'["inbox"] = r["inbox"]
        /\ bz'["errors"] = r["errors"] /\ bz'["link"] = r["link"]
    BY <2>3 DEF BsFields
  <2>5. BsSameBytes(bz', r)
    BY <2>4 DEF BsSameBytes
  <2>6. BsOrdered(bz')
    BY <1>5, <2>4, <2>5, BsOrderedSame
  <2>7. BsCounted(bz')
    <3>1. bz'.link \notin {"up"}
      BY <1>2, <1>4, <2>4
    <3> QED
      BY <1>7, <2>4, <3>1 DEF BsCounted
  <2>8. r.link = "closed"
    BY <1>1, <1>4, <1>9 DEF BsMay, BsAll, BsLinked, BsJoined
  <2>9. BsJoined(bz') /\ BsBatched(bz') /\ BsMoving(bz')
    BY <1>1, <1>2, <1>4, <2>3, <2>4, <2>8
       DEF BsJoined, BsBatched, BsMoving, Links, SocketStates
  <2> QED
    BY <2>6, <2>7, <2>9 DEF BsLinked, BsWhole
<1> QED
  BY <1>8, <1>9 DEF BsConnect, r

LEMMA BsLookupWhole ==
  ASSUME BsAll, BsServiceDiscovered \/ BsDiscoveryFinished
  PROVE  BsLinked(bz') /\ BsWhole(bz')
<1>1. /\ bz.agent /\ bz.state = "ServiceLookup" /\ bz.link = "closed" /\ bz.tx = <<>>
      /\ bz.posted = 0 /\ DOMAIN bz = BsFields /\ BsCore(bz) /\ bz.events = <<>>
      /\ bz.inbox = <<>>
  <2>1. bz.agent /\ BsGood(bz) /\ BsJoined(bz)
    BY DEF BsServiceDiscovered, BsDiscoveryFinished, BsAll, BsInv, BsLinked
  <2>2. /\ bz.state = "ServiceLookup" /\ bz.tx = <<>> /\ bz.posted = 0
        /\ DOMAIN bz = BsFields /\ BsCore(bz)
    BY <2>1 DEF BsGood, BsCore
  <2>3. bz.link = "closed" /\ bz.inbox = <<>>
    BY <2>1 DEF BsJoined
  <2>4. bz.events = <<>>
    BY <2>2, <2>3 DEF BsCore
  <2> QED
    BY <2>1, <2>2, <2>3, <2>4
<1>2. /\ BsOrdered(bz) /\ bz.errors \in Nat
      /\ bz.session # 0 /\ (bz.session = 1 => bz.sent = 0)
  BY <1>1 DEF BsAll, BsWhole, BsOrdered, BsCounted
<1>3. CASE BsServiceDiscovered
  <2>1. PICK result : bz' = [ConnectToServiceHelper(bz, result) EXCEPT !.agent = FALSE]
    BY <1>3 DEF BsServiceDiscovered, ServiceDiscovered
  <2> DEFINE c == ConnectToServiceHelper(bz, result)
  <2>2. BsBegun(c, bz) /\ DOMAIN c = BsFields
    BY <1>1, <1>2, ConnectBegins
  <2> HIDE DEF c
  <2>3. bz' = [c EXCEPT !.agent = FALSE]
    BY <2>1 DEF c
  <2>4. bz'["agent"] = FALSE /\ \A f \in BsFields \ {"agent"} : bz'[f] = c[f]
    BY <2>2, <2>3 DEF BsFields
  <2>5. /\ bz'["scenario"] = c["scenario"] /\ bz'["connecting"] = c["connecting"]
        /\ bz'["rn"] = c["rn"] /\ bz'["wn"] = c["wn"] /\ bz'["tx"] = c["tx"]
        /\ bz'["rx"] = c["rx"] /\ bz'["events"] = c["events"]
        /\ bz'["link"] = c["link"] /\ bz'["inbox"] = c["inbox"]
        /\ bz'["sent"] = c["sent"] /\ bz'["peer"] = c["peer"]
        /\ bz'["state"] = c["state"] /\ bz'["session"] = c["session"]
        /\ bz'["errors"] = c["errors"] /\ bz'["written"] = c["written"]
        /\ bz'["got"] = c["got"]
    BY <2>4 DEF BsFields
  <2>6. BsBegun(bz', bz)
    BY <2>2, <2>5 DEF BsBegun, BsSameBytes
  <2> QED
    BY <1>1, <1>2, <2>4, <2>6, BegunWhole
<1>4. CASE BsDiscoveryFinished
  <2> DEFINE e == SetSocketError(bz)
             s == SetSocketState(e, "Unconnected")
             k == IF bz.errors = 2 THEN 2 ELSE bz.errors + 1
  <2>1. e = [bz EXCEPT !.errors = k] /\ k \in Nat \ {0}
    BY <1>2 DEF SetSocketError
  <2>2. bz' = [s EXCEPT !.agent = FALSE]
    BY <1>1, <1>4 DEF BsDiscoveryFinished, DiscoveryFinished
  <2> HIDE DEF e, s, k
  <2>3. /\ DOMAIN e = BsFields /\ e["errors"] = k
        /\ \A f \in BsFields \ {"errors"} : e[f] = bz[f]
    BY <1>1, <2>1 DEF BsFields
  <2>4. /\ DOMAIN s = BsFields /\ s.state = "Unconnected"
        /\ \A f \in BsFields \ {"state", "told"} : s[f] = e[f]
    BY <2>3, SetSocketStateSets DEF s
  <2>5. /\ bz'["agent"] = FALSE /\ bz'["state"] = "Unconnected" /\ bz'["errors"] = k
        /\ \A f \in BsFields \ {"state", "told", "agent", "errors"} : bz'[f] = bz[f]
    BY <2>2, <2>3, <2>4 DEF BsFields
  <2>6. /\ bz'["sent"] = bz["sent"] /\ bz'["session"] = bz["session"]
        /\ bz'["got"] = bz["got"] /\ bz'["rx"] = bz["rx"]
        /\ bz'["written"] = bz["written"] /\ bz'["peer"] = bz["peer"]
        /\ bz'["tx"] = bz["tx"] /\ bz'["scenario"] = bz["scenario"]
        /\ bz'["inbox"] = bz["inbox"] /\ bz'["link"] = bz["link"]
    BY <2>5 DEF BsFields
  <2>7. BsSameBytes(bz', bz)
    BY <2>6 DEF BsSameBytes
  <2>8. BsOrdered(bz')
    BY <1>2, <2>1, <2>5, <2>6, <2>7, BsOrderedSame
  <2>9. BsCounted(bz')
    BY <1>1, <2>5, <2>6, <2>7, BsCountedSame DEF BsAll, BsWhole
  <2>10. BsJoined(bz') /\ BsBatched(bz') /\ BsMoving(bz')
    BY <1>1, <2>5, <2>6 DEF BsJoined, BsBatched, BsMoving, Links, SocketStates
  <2> QED
    BY <2>8, <2>9, <2>10 DEF BsLinked, BsWhole
<1> QED
  BY <1>3, <1>4

LEMMA StraightOrdered ==
  ASSUME NEW r, BsOrdered(r), NEW b, b = Len(r.written) + 1, NEW n \in {0, 1},
         NEW c, c.sent = r.sent, c.session = r.session, c.got = r.got, c.rx = r.rx,
         c.inbox = r.inbox, c.scenario = r.scenario, c.errors = r.errors,
         c.written = IF n = 1 THEN Append(r.written, b) ELSE r.written,
         r.tx = <<>>, c.peer = r.peer \o SubSeq(<<b>>, 1, n), c.tx = r.tx
  PROVE  BsOrdered(c)
<1>1. /\ r.peer \in Seq(1..Len(r.written)) /\ r.tx \in Seq(1..Len(r.written))
      /\ r.written \in Seq(Nat) /\ InOrder(r.peer \o r.tx)
  BY DEF BsOrdered
<1>2. CASE n = 1
  <2>1. /\ c.written \in Seq(Nat) /\ Len(c.written) = b /\ r.peer \in Seq(1..b)
        /\ b \in Nat /\ InOrder(r.peer \o Append(r.tx, b))
        /\ r.peer \o Append(r.tx, b) = Append(r.peer \o r.tx, b)
    <3>1. PICK w \in Seq(Nat) : w = r.written
      BY <1>1
    <3>2. PICK p \in Seq(1..Len(w)), t \in Seq(1..Len(w)) : p = r.peer /\ t = r.tx
      BY <1>1, <3>1
    <3>3. InOrder(p \o t) /\ b = Len(w) + 1
      BY <1>1, <3>1, <3>2
    <3>4. /\ Append(w, b) \in Seq(Nat) /\ Len(Append(w, b)) = b /\ b \in Nat
          /\ p \in Seq(1..b) /\ p \o Append(t, b) = Append(p \o t, b)
          /\ InOrder(p \o Append(t, b))
      BY <3>3, NewByte
    <3> QED
      BY <1>2, <3>1, <3>2, <3>4
  <2>2. SubSeq(<<b>>, 1, 1) = <<b>> /\ <<b>> \in Seq(1..b) /\ Append(<<>>, b) = <<b>>
    <3>1. <<b>> \in Seq(1..b) /\ Len(<<b>>) = 1
      BY <2>1
    <3>2. SubSeq(<<b>>, 1, Len(<<b>>)) = <<b>>
      BY <3>1, SubSeqFull
    <3> QED
      BY <3>1, <3>2
  <2>3. c.peer = r.peer \o <<b>>
    BY <1>2, <2>2
  <2>4. c.peer \in Seq(1..b)
    BY <2>1, <2>2, <2>3, ConcatProperties
  <2>5. c.tx \in Seq(1..b) /\ c.peer \o c.tx = c.peer
    BY <2>4, ConcatEmptySeq, EmptySeq
  <2>6. c.peer \o c.tx = Append(r.peer \o r.tx, b) /\ InOrder(c.peer \o c.tx)
    BY <2>1, <2>2, <2>3, <2>5
  <2>7. c.errors = 0 => c.peer \o c.tx = c.written
    BY <1>2, <2>6 DEF BsOrdered
  <2> QED
    BY <2>1, <2>4, <2>5, <2>6, <2>7 DEF BsOrdered
<1>3. CASE n = 0
  <2>1. SubSeq(<<b>>, 1, 0) = <<>>
    OBVIOUS
  <2>2. c.peer = r.peer
    BY <1>1, <1>3, <2>1, ConcatEmptySeq
  <2>3. c.written = r.written
    BY <1>3
  <2> QED
    BY <2>2, <2>3, Zenon DEF BsOrdered
<1> QED
  BY <1>2, <1>3

LEMMA BsWriteWhole ==
  ASSUME BsAll, BsWrite
  PROVE  BsLinked(bz') /\ BsWhole(bz')
<1>1. /\ bz.state = "Connected" /\ DOMAIN bz = BsFields /\ BsCore(bz) /\ ~bz.agent
      /\ bz.rn # "none"
  BY DEF BsWrite, CanWrite, BsAll, BsInv, BsGood, BsCore
<1>2. bz.link \in {"up", "lost"} /\ bz.link \in Links
  BY <1>1 DEF BsAll, BsLinked, BsJoined, Links
<1>3. BsOrdered(bz) /\ BsCounted(bz) /\ bz.errors \in Nat
  BY DEF BsAll, BsWhole, BsOrdered
<1> DEFINE b == NextByte(bz.written)
<1>4. ASSUME NEW c, c.link = bz.link, c.state = "Connected", c.agent = bz.agent,
             c.session = bz.session, c.sent = bz.sent, c.got = bz.got, c.rx = bz.rx,
             c.inbox = bz.inbox, c.scenario = bz.scenario, BsOrdered(c), BsMoving(c)
      PROVE  BsLinked(c) /\ BsWhole(c)
  <2>1. BsCounted(c)
    BY <1>3, <1>4 DEF BsCounted
  <2>2. BsJoined(c) /\ BsBatched(c)
    BY <1>1, <1>2, <1>4 DEF BsJoined, BsBatched, SocketStates
  <2> QED
    BY <1>4, <2>1, <2>2 DEF BsLinked, BsWhole
<1>5. CASE /\ BsMay("unbuffered")
           /\ \E n \in WriteOutcomes(bz, <<0>>) : bz' = WriteUnbuffered(bz, n)
  <2>1. PICK n \in WriteOutcomes(bz, <<0>>) : bz' = WriteUnbuffered(bz, n)
    BY <1>5
  <2>2. n \in {-1, 0, 1}
    <3>1. Len(<<0>>) = 1
      OBVIOUS
    <3> QED
      BY <2>1, <3>1 DEF WriteOutcomes
  <2>3. bz.tx = <<>>
    BY <1>3, <1>5 DEF BsMay, BsOrdered
  <2>4. CASE n = -1
    <3> DEFINE k == IF bz.errors = 2 THEN 2 ELSE bz.errors + 1
    <3>1. bz' = [bz EXCEPT !.errors = k] /\ k \in Nat \ {0}
      BY <1>3, <2>1, <2>4 DEF WriteUnbuffered, SetSocketError
    <3> HIDE DEF k
    <3>2. bz'["errors"] = k /\ \A f \in BsFields \ {"errors"} : bz'[f] = bz[f]
      BY <1>1, <3>1 DEF BsFields
    <3>3. /\ bz'["sent"] = bz["sent"] /\ bz'["session"] = bz["session"]
          /\ bz'["got"] = bz["got"] /\ bz'["rx"] = bz["rx"]
          /\ bz'["written"] = bz["written"] /\ bz'["peer"] = bz["peer"]
          /\ bz'["tx"] = bz["tx"] /\ bz'["scenario"] = bz["scenario"]
          /\ bz'["inbox"] = bz["inbox"] /\ bz'["link"] = bz["link"]
          /\ bz'["state"] = bz["state"] /\ bz'["agent"] = bz["agent"]
      BY <3>2 DEF BsFields
    <3>4. BsSameBytes(bz', bz)
      BY <3>3 DEF BsSameBytes
    <3>5. BsOrdered(bz') /\ BsMoving(bz')
      BY <1>3, <2>3, <3>1, <3>2, <3>3, <3>4, BsOrderedSame DEF BsMoving
    <3> QED
      BY <1>1, <1>4, <3>3, <3>5
  <2>5. CASE n \in {0, 1}
    <3> DEFINE p == bz.peer \o SubSeq(<<b>>, 1, n)
               w == IF n = 1 THEN Append(bz.written, b) ELSE bz.written
    <3>1. bz' = [[bz EXCEPT !.peer = p] EXCEPT !.written = w]
      BY <1>1, <2>1, <2>5 DEF WriteUnbuffered, Sent, BsFields
    <3> HIDE DEF p, w
    <3>2. /\ bz'["peer"] = p /\ bz'["written"] = w
          /\ \A f \in BsFields \ {"peer", "written"} : bz'[f] = bz[f]
      BY <1>1, <3>1 DEF BsFields
    <3>3. /\ bz'["sent"] = bz["sent"] /\ bz'["session"] = bz["session"]
          /\ bz'["got"] = bz["got"] /\ bz'["rx"] = bz["rx"]
          /\ bz'["errors"] = bz["errors"]
          /\ bz'["tx"] = bz["tx"] /\ bz'["scenario"] = bz["scenario"]
          /\ bz'["inbox"] = bz["inbox"] /\ bz'["link"] = bz["link"]
          /\ bz'["state"] = bz["state"] /\ bz'["agent"] = bz["agent"]
      BY <3>2 DEF BsFields
    <3>4. b = Len(bz.written) + 1
      BY DEF NextByte
    <3> HIDE DEF b
    <3>5. BsOrdered(bz')
      BY <1>3, <2>3, <2>5, <3>2, <3>3, <3>4, StraightOrdered DEF p, w
    <3>6. BsMoving(bz')
      BY <2>3, <3>3 DEF BsMoving
    <3> QED
      BY <1>1, <1>4, <3>3, <3>5, <3>6
  <2> QED
    BY <2>2, <2>4, <2>5
<1>6. CASE ~BsMay("unbuffered") /\ bz' = WriteData(bz)
  <2>1. BsMoving(bz) /\ "unbuffered" \notin bz.scenario.may
    BY <1>6 DEF BsAll, BsLinked, BsMay
  <2> QED
    BY <1>1, <1>3, <1>4, <1>6, <2>1, WriteDataWhole
<1> QED
  BY <1>5, <1>6 DEF BsWrite

LEMMA BsPollWhole ==
  ASSUME BsAll, BsPoll
  PROVE  BsLinked(bz') /\ BsWhole(bz')
<1>1. PICK events \in {<<"rn">>, <<"wn">>, <<"rn", "wn">>, <<"wn", "rn">>} :
        /\ ToSet(events) = {n \in {"rn", "wn"} : Ready(n)}
        /\ bz' = [bz EXCEPT !.events = events]
  BY DEF BsPoll
<1>2. DOMAIN bz = BsFields /\ bz.events = <<>> /\ bz.posted = 0
  BY DEF BsPoll, Idle, BsAll, BsInv, BsGood, BsCore
<1>3. bz'["events"] = events /\ \A f \in BsFields \ {"events"} : bz'[f] = bz[f]
  BY <1>1, <1>2 DEF BsFields
<1>4. /\ bz'["sent"] = bz["sent"] /\ bz'["session"] = bz["session"]
      /\ bz'["got"] = bz["got"] /\ bz'["rx"] = bz["rx"]
      /\ bz'["written"] = bz["written"] /\ bz'["peer"] = bz["peer"]
      /\ bz'["tx"] = bz["tx"] /\ bz'["scenario"] = bz["scenario"]
      /\ bz'["inbox"] = bz["inbox"] /\ bz'["link"] = bz["link"]
      /\ bz'["state"] = bz["state"] /\ bz'["agent"] = bz["agent"]
      /\ bz'["errors"] = bz["errors"] /\ bz'["rn"] = bz["rn"] /\ bz'["wn"] = bz["wn"]
      /\ bz'["connecting"] = bz["connecting"] /\ bz'["posted"] = bz["posted"]
  BY <1>3 DEF BsFields
<1>5. BsSameBytes(bz', bz)
  BY <1>4 DEF BsSameBytes
<1>6. BsOrdered(bz') /\ BsCounted(bz')
  BY <1>4, <1>5, BsOrderedSame, BsCountedSame DEF BsAll, BsWhole, BsOrdered
<1>7. BsJoined(bz') /\ BsMoving(bz')
  BY <1>4 DEF BsAll, BsLinked, BsJoined, BsMoving
<1>8. BsJoined(bz) /\ BsBatched(bz)
  BY DEF BsAll, BsLinked
<1>9. "rn" \in ToSet(events) \/ "wn" \in ToSet(events)
  BY DEF ToSet
<1>10. bz.link # "connecting"
  BY <1>1, <1>8, <1>9 DEF Ready, BsJoined
<1>11. bz.link # "failed"
  BY <1>2, <1>8 DEF BsBatched
<1>12. bz.link = "refused" => events \in {<<"rn", "wn">>, <<"wn", "rn">>}
  <2>1. SUFFICES ASSUME bz.link = "refused"
                 PROVE  events \in {<<"rn", "wn">>, <<"wn", "rn">>}
    OBVIOUS
  <2>2. bz["rn"] = "on" /\ bz["wn"] = "on"
    BY <1>8, <2>1 DEF BsJoined, BsBatched
  <2>3. Ready("rn") /\ Ready("wn")
    BY <2>1, <2>2 DEF Ready
  <2>4. "rn" \in ToSet(events) /\ "wn" \in ToSet(events)
    BY <1>1, <2>3
  <2>5. events # <<"rn">> /\ events # <<"wn">>
    BY <2>4 DEF ToSet
  <2> QED
    BY <2>5
<1>13. BsBatched(bz')
  <2>1. bz'.state = "Connecting" => bz'.connecting /\ bz'.rn = "on" /\ bz'.wn = "on"
    BY <1>4, <1>8 DEF BsBatched
  <2> QED
    BY <1>3, <1>4, <1>10, <1>11, <1>12, <2>1 DEF BsBatched
<1> QED
  BY <1>6, <1>7, <1>13 DEF BsLinked, BsWhole

LEMMA BsNotifiedWhole ==
  ASSUME QueuedWritesRun, BsAll, BsNotified
  PROVE  BsLinked(bz') /\ BsWhole(bz')
<1> DEFINE r == [bz EXCEPT !.events = Tail(@)]
<1>1. /\ bz.events # <<>> /\ bz.rn # "none" /\ DOMAIN bz = BsFields
      /\ BsGood(bz) /\ bz.events \in BsBatches
  BY DEF BsNotified, BsAll, BsInv, BsGood, BsCore
<1>0. /\ Tail(bz.events) \in BsBatches
      /\ bz.events = <<"rn">> => Tail(bz.events) = <<>>
      /\ Head(bz.events) # "rn" => Tail(bz.events) \in {<<>>, <<"rn">>}
      /\ Head(bz.events) # "rn" => bz.events # <<"rn">>
  BY <1>1, BatchTail
<1>2. BsGood(r) /\ r.rn # "none"
  BY <1>0, <1>1 DEF BsGood, BsCore, BsFields
<1>3. \/ Head(bz.events) = "rn" /\ bz' \in ReadNotify(r, ReadReactions)
      \/ Head(bz.events) # "rn" /\ bz' \in WriteNotify(r, WriteReactions)
  BY DEF BsNotified
<1>4. r["events"] = Tail(bz.events) /\ \A f \in BsFields \ {"events"} : r[f] = bz[f]
  BY <1>1 DEF BsFields
<1> HIDE DEF r
<1>5. /\ r["sent"] = bz["sent"] /\ r["session"] = bz["session"]
      /\ r["got"] = bz["got"] /\ r["rx"] = bz["rx"]
      /\ r["written"] = bz["written"] /\ r["peer"] = bz["peer"]
      /\ r["tx"] = bz["tx"] /\ r["scenario"] = bz["scenario"]
      /\ r["inbox"] = bz["inbox"] /\ r["link"] = bz["link"]
      /\ r["state"] = bz["state"] /\ r["agent"] = bz["agent"]
      /\ r["errors"] = bz["errors"] /\ r["rn"] = bz["rn"] /\ r["wn"] = bz["wn"]
      /\ r["connecting"] = bz["connecting"] /\ r["posted"] = bz["posted"]
  BY <1>4 DEF BsFields
<1>6. BsSameBytes(r, bz)
  BY <1>5 DEF BsSameBytes
<1>7. BsOrdered(r) /\ BsCounted(r)
  BY <1>5, <1>6, BsOrderedSame, BsCountedSame DEF BsAll, BsWhole, BsOrdered
<1>8. BsJoined(r) /\ BsMoving(r)
  BY <1>5 DEF BsAll, BsLinked, BsJoined, BsMoving
<1>9. BsBatched(bz) /\ BsJoined(bz)
  BY DEF BsAll, BsLinked
<1>10. r.state = "Connecting" => r.connecting /\ r.rn = "on" /\ r.wn = "on"
  BY <1>5, <1>9 DEF BsBatched
<1>11. CASE Head(bz.events) = "rn"
  <2>1. "write" \notin ReadReactions
    BY DEF ReadReactions, Reactions, BsMay, QueuedWritesRun, BsAll, BsInv
  <2> QED
    BY <1>2, <1>3, <1>7, <1>8, <1>10, <1>11, <2>1, ReadNotifyWhole DEF BsWhole
<1>12. CASE Head(bz.events) # "rn"
  <2>1. bz.link # "connecting"
    BY <1>1, <1>9 DEF BsBatched
  <2>2. bz.link # "failed"
    BY <1>9, <1>12 DEF BsBatched
  <2>3. bz.link = "refused" => r.events = <<"rn">>
    <3>1. bz.link = "refused" => bz.events = <<"wn", "rn">>
      BY <1>1, <1>9, <1>12 DEF BsBatched
    <3>2. Tail(<<"wn", "rn">>) = <<"rn">>
      OBVIOUS
    <3> QED
      BY <1>4, <3>1, <3>2
  <2>4. BsDecided(r)
    BY <1>5, <1>9, <1>10, <2>1, <2>2, <2>3 DEF BsDecided, BsJoined, Links
  <2>5. r.posted = 0 /\ r.events \in {<<>>, <<"rn">>}
    <3>1. bz.events # <<>> /\ bz.events # <<"rn">>
      BY <1>0, <1>1, <1>12
    <3>2. bz.posted = 0
      BY <1>1, <3>1 DEF BsGood, BsCore
    <3> QED
      BY <1>0, <1>4, <1>5, <1>12, <3>2
  <2> QED
    BY <1>2, <1>3, <1>7, <1>8, <1>12, <2>4, <2>5, WriteNotifyWhole DEF BsWhole
<1> QED
  BY <1>11, <1>12

LEMMA BsPostedWhole ==
  ASSUME BsAll, BsPosted
  PROVE  BsLinked(bz') /\ BsWhole(bz')
<1> DEFINE r == [bz EXCEPT !.posted = @ - 1]
<1>1. /\ bz.posted = 1 /\ bz.tx # <<>> /\ bz.rn # "none" /\ DOMAIN bz = BsFields
      /\ BsGood(bz) /\ bz.state \in {"Connected", "Closing"} /\ bz.events = <<>>
  BY DEF BsPosted, Idle, BsAll, BsInv, BsGood, BsCore
<1>2. BsGood(r) /\ r.posted = 0 /\ r.rn # "none" /\ r.events = <<>>
  BY <1>1 DEF BsGood, BsCore, BsFields, BsBatches
<1>3. bz' \in WriteNotify(r, WriteReactions)
  BY DEF BsPosted
<1>4. \A f \in BsFields \ {"posted"} : r[f] = bz[f]
  BY <1>1 DEF BsFields
<1> HIDE DEF r
<1>5. /\ r["sent"] = bz["sent"] /\ r["session"] = bz["session"]
      /\ r["got"] = bz["got"] /\ r["rx"] = bz["rx"]
      /\ r["written"] = bz["written"] /\ r["peer"] = bz["peer"]
      /\ r["tx"] = bz["tx"] /\ r["scenario"] = bz["scenario"]
      /\ r["inbox"] = bz["inbox"] /\ r["link"] = bz["link"]
      /\ r["state"] = bz["state"] /\ r["agent"] = bz["agent"]
      /\ r["errors"] = bz["errors"]
  BY <1>4 DEF BsFields
<1>6. BsSameBytes(r, bz)
  BY <1>5 DEF BsSameBytes
<1>7. BsOrdered(r) /\ BsCounted(r)
  BY <1>5, <1>6, BsOrderedSame, BsCountedSame DEF BsAll, BsWhole, BsOrdered
<1>8. BsJoined(r)
  BY <1>5 DEF BsAll, BsLinked, BsJoined
<1>9. BsDecided(r)
  BY <1>1, <1>5 DEF BsDecided
<1> QED
  BY <1>2, <1>3, <1>7, <1>8, <1>9, WriteNotifyWhole DEF BsWhole

LEMMA BsReadWhole ==
  ASSUME BsAll, BsRead
  PROVE  BsLinked(bz') /\ BsWhole(bz')
<1>1. DOMAIN bz = BsFields /\ bz.state = "Connected"
  BY DEF BsRead, BsAll, BsInv, BsGood, BsCore
<1>2. bz' = [bz EXCEPT !.got = @ \o bz.rx, !.rx = <<>>]
  BY DEF BsRead
<1>3. /\ bz'["got"] = bz.got \o bz.rx /\ bz'["rx"] = <<>>
      /\ \A f \in BsFields \ {"got", "rx"} : bz'[f] = bz[f]
  BY <1>1, <1>2 DEF BsFields
<1>4. /\ bz'["sent"] = bz["sent"] /\ bz'["session"] = bz["session"]
      /\ bz'["written"] = bz["written"] /\ bz'["peer"] = bz["peer"]
      /\ bz'["tx"] = bz["tx"] /\ bz'["scenario"] = bz["scenario"]
      /\ bz'["inbox"] = bz["inbox"] /\ bz'["link"] = bz["link"]
      /\ bz'["state"] = bz["state"] /\ bz'["agent"] = bz["agent"]
      /\ bz'["errors"] = bz["errors"] /\ bz'["wn"] = bz["wn"]
      /\ bz'["posted"] = bz["posted"]
  BY <1>3 DEF BsFields
<1>5. bz.got \in Seq(1..bz.sent) /\ bz.rx \in Seq(1..bz.sent)
  BY DEF BsAll, BsWhole, BsOrdered
<1>6. /\ bz.got \o bz.rx \in Seq(1..bz.sent) /\ <<>> \in Seq(1..bz.sent)
      /\ (bz.got \o bz.rx) \o <<>> = bz.got \o bz.rx
  BY <1>5, ConcatProperties, ConcatEmptySeq, EmptySeq
<1>7. bz'.got \o bz'.rx \o bz'.inbox = bz.got \o bz.rx \o bz.inbox
  BY <1>3, <1>4, <1>6
<1>8. bz'.got \in Seq(1..bz.sent) /\ bz'.rx \in Seq(1..bz.sent)
  BY <1>3, <1>6
<1>9. BsOrdered(bz')
  BY <1>4, <1>7, <1>8 DEF BsAll, BsWhole, BsOrdered
<1>10. BsCounted(bz')
  BY <1>4, <1>7 DEF BsAll, BsWhole, BsCounted
<1>11. BsJoined(bz') /\ BsMoving(bz')
  BY <1>4 DEF BsAll, BsLinked, BsJoined, BsMoving
<1>12. BsBatched(bz')
  BY <1>1, <1>4, <1>11 DEF BsJoined, BsBatched
<1> QED
  BY <1>9, <1>10, <1>11, <1>12 DEF BsLinked, BsWhole

LEMMA BsAbortWhole ==
  ASSUME QueuedWritesRun, BsAll, BsAbort
  PROVE  BsLinked(bz') /\ BsWhole(bz')
<1>1. bz.tx = <<>> /\ bz.state # "Unconnected" /\ DOMAIN bz = BsFields
  BY DEF BsAbort, BsMay, QueuedWritesRun, BsAll, BsInv, BsGood, BsCore
<1> DEFINE a == [bz EXCEPT !.agent = FALSE]
           d == SetSocketState(a, "Closing")
<1>2. /\ DOMAIN a = BsFields /\ a["agent"] = FALSE
      /\ \A f \in BsFields \ {"agent"} : a[f] = bz[f]
  BY <1>1 DEF BsFields
<1> HIDE DEF a
<1>3. DOMAIN d = BsFields /\ \A f \in BsFields \ {"state", "told"} : d[f] = a[f]
  BY <1>2, SetSocketStateSets
<1> HIDE DEF d
<1>4. /\ d["sent"] = bz["sent"] /\ d["session"] = bz["session"]
      /\ d["got"] = bz["got"] /\ d["rx"] = bz["rx"]
      /\ d["written"] = bz["written"] /\ d["peer"] = bz["peer"]
      /\ d["tx"] = bz["tx"] /\ d["scenario"] = bz["scenario"]
      /\ d["agent"] = FALSE /\ d["errors"] = bz["errors"]
  BY <1>2, <1>3 DEF BsFields
<1>5. bz' = BackendAbort(d)
  BY <1>1 DEF BsAbort, SocketClose, EnterClosing, d, a
<1>6. /\ BsSameBytes(bz', d) /\ bz'.inbox = <<>> /\ bz'.errors = d.errors
      /\ bz'.link = "closed" /\ bz'.state = "Unconnected" /\ bz'.agent = d.agent
  BY <1>3, <1>5, BackendAbortLeaves
<1>7. BsSameBytes(bz', bz) /\ bz'.errors = bz.errors /\ ~bz'.agent
  BY <1>4, <1>6 DEF BsSameBytes
<1>8. BsOrdered(bz') /\ BsCounted(bz')
  BY <1>6, <1>7, BsOrderedSame, BsCountedSame DEF BsAll, BsWhole, BsOrdered
<1>9. BsJoined(bz') /\ BsBatched(bz') /\ BsMoving(bz')
  BY <1>1, <1>6, <1>7
     DEF BsJoined, BsBatched, BsMoving, BsSameBytes, Links, SocketStates
<1> QED
  BY <1>8, <1>9 DEF BsLinked, BsWhole

LEMMA BsLinkWhole ==
  ASSUME BsAll, BsConnected \/ BsRefused \/ BsPeerCloses
  PROVE  BsLinked(bz') /\ BsWhole(bz')
<1>1. PICK l \in {"up", "refused", "lost"} :
        /\ bz' = [bz EXCEPT !.link = l]
        /\ l \in {"up", "refused"} => bz.link = "connecting"
        /\ l = "lost" => bz.link = "up"
  BY DEF BsConnected, BsRefused, BsPeerCloses
<1>2. /\ DOMAIN bz = BsFields /\ BsJoined(bz) /\ BsBatched(bz) /\ BsMoving(bz)
      /\ BsOrdered(bz) /\ BsCounted(bz)
  BY DEF BsAll, BsInv, BsGood, BsCore, BsLinked, BsWhole
<1>3. bz'["link"] = l /\ \A f \in BsFields \ {"link"} : bz'[f] = bz[f]
  BY <1>1, <1>2 DEF BsFields
<1>4. /\ bz'["sent"] = bz["sent"] /\ bz'["session"] = bz["session"]
      /\ bz'["got"] = bz["got"] /\ bz'["rx"] = bz["rx"]
      /\ bz'["written"] = bz["written"] /\ bz'["peer"] = bz["peer"]
      /\ bz'["tx"] = bz["tx"] /\ bz'["scenario"] = bz["scenario"]
      /\ bz'["inbox"] = bz["inbox"] /\ bz'["events"] = bz["events"]
      /\ bz'["state"] = bz["state"] /\ bz'["agent"] = bz["agent"]
      /\ bz'["errors"] = bz["errors"] /\ bz'["rn"] = bz["rn"] /\ bz'["wn"] = bz["wn"]
      /\ bz'["connecting"] = bz["connecting"] /\ bz'["posted"] = bz["posted"]
  BY <1>3 DEF BsFields
<1>5. BsSameBytes(bz', bz)
  BY <1>4 DEF BsSameBytes
<1>6. BsOrdered(bz')
  BY <1>2, <1>4, <1>5, BsOrderedSame DEF BsOrdered
<1>7. BsJoined(bz')
  BY <1>1, <1>2, <1>3, <1>4 DEF BsJoined, Links
<1>8. BsBatched(bz') /\ BsMoving(bz')
  BY <1>1, <1>2, <1>3, <1>4 DEF BsBatched, BsMoving
<1>9. l = "up" /\ bz.session = 1 => Len(bz.got \o bz.rx \o bz.inbox) = bz.sent
  <2>1. SUFFICES ASSUME l = "up", bz.session = 1
                 PROVE  Len(bz.got \o bz.rx \o bz.inbox) = bz.sent
    OBVIOUS
  <2>2. bz.sent = 0
    BY <1>1, <1>2, <2>1 DEF BsCounted
  <2>3. bz.got = <<>> /\ bz.rx = <<>> /\ bz.inbox = <<>>
    <3>1. ASSUME NEW s \in Seq(1..0)
          PROVE  s = <<>>
      <4>1. Len(s) \in Nat /\ \A i \in 1..Len(s) : s[i] \in 1..0
        BY <3>1, LenProperties, ElementOfSeq
      <4>2. Len(s) = 0
        <5>1. SUFFICES ASSUME Len(s) # 0
                       PROVE  FALSE
          OBVIOUS
        <5>2. 1 \in 1..Len(s)
          BY <4>1, <5>1
        <5>3. s[1] \in 1..0
          BY <4>1, <5>2
        <5> QED
          BY <5>3
      <4> QED
        BY <3>1, <4>2, EmptySeq
    <3>2. bz.got \in Seq(1..0) /\ bz.rx \in Seq(1..0) /\ bz.inbox \in Seq(1..0)
      BY <1>2, <2>2 DEF BsOrdered
    <3> QED
      BY <3>1, <3>2
  <2>4. (<<>> \o <<>>) \o <<>> = <<>> /\ Len(<<>>) = 0
    BY EmptySeq, ConcatEmptySeq
  <2> QED
    BY <2>2, <2>3, <2>4
<1>10. BsCounted(bz')
  BY <1>1, <1>2, <1>3, <1>4, <1>9 DEF BsCounted
<1> QED
  BY <1>6, <1>7, <1>8, <1>10 DEF BsLinked, BsWhole

LEMMA BsPeerSendsWhole ==
  ASSUME BsAll, BsPeerSends
  PROVE  BsLinked(bz') /\ BsWhole(bz')
<1> DEFINE b == bz.sent + 1
           all == bz.got \o bz.rx
<1>1. /\ DOMAIN bz = BsFields /\ bz.link = "up" /\ BsOrdered(bz) /\ BsCounted(bz)
      /\ BsJoined(bz) /\ BsBatched(bz) /\ BsMoving(bz)
  BY DEF BsPeerSends, BsAll, BsInv, BsGood, BsCore, BsLinked, BsWhole
<1>2. bz' = [bz EXCEPT !.inbox = Append(bz.inbox, b), !.sent = b]
  BY DEF BsPeerSends
<1>3. bz.sent \in Nat
  BY <1>1 DEF BsOrdered
<1>4. /\ bz.got \in Seq(1..bz.sent) /\ bz.rx \in Seq(1..bz.sent)
      /\ bz.inbox \in Seq(1..bz.sent) /\ InOrder(all \o bz.inbox)
  BY <1>1 DEF BsOrdered
<1>5. b \in Nat /\ 1..bz.sent \subseteq 1..b
  BY <1>3
<1>6. bz.got \in Seq(1..b) /\ bz.rx \in Seq(1..b) /\ all \in Seq(1..bz.sent)
  BY <1>4, <1>5, SeqMonotonic, ConcatProperties
<1>7. /\ Append(bz.inbox, b) \in Seq(1..b) /\ InOrder(all \o Append(bz.inbox, b))
      /\ Len(all \o Append(bz.inbox, b)) = Len(all \o bz.inbox) + 1
  <2>1. PICK n \in Nat : n = bz.sent
    BY <1>3
  <2>2. PICK p \in Seq(1..n), t \in Seq(1..n) : p = all /\ t = bz.inbox
    BY <1>4, <1>6, <2>1
  <2>3. b = n + 1 /\ InOrder(p \o t)
    BY <1>4, <2>1, <2>2
  <2> HIDE DEF b, all
  <2>4. /\ Append(t, b) \in Seq(1..b) /\ InOrder(p \o Append(t, b))
        /\ Len(p \o Append(t, b)) = Len(p \o t) + 1
    BY <2>3, NextInOrder
  <2> QED
    BY <2>2, <2>4
<1>8. Append(bz.inbox, b) # <<>>
  BY <1>3, <1>4, <1>5, AppendProperties
<1> DEFINE new == Append(bz.inbox, b)
<1> HIDE DEF b, new
<1>9. /\ bz'["inbox"] = new /\ bz'["sent"] = b
      /\ \A f \in BsFields \ {"inbox", "sent"} : bz'[f] = bz[f]
  BY <1>1, <1>2 DEF BsFields, new
<1>10. /\ bz'["session"] = bz["session"] /\ bz'["got"] = bz["got"]
       /\ bz'["rx"] = bz["rx"]
       /\ bz'["written"] = bz["written"] /\ bz'["peer"] = bz["peer"]
       /\ bz'["tx"] = bz["tx"] /\ bz'["scenario"] = bz["scenario"]
       /\ bz'["link"] = bz["link"] /\ bz'["events"] = bz["events"]
       /\ bz'["state"] = bz["state"] /\ bz'["agent"] = bz["agent"]
       /\ bz'["errors"] = bz["errors"] /\ bz'["rn"] = bz["rn"] /\ bz'["wn"] = bz["wn"]
       /\ bz'["connecting"] = bz["connecting"] /\ bz'["posted"] = bz["posted"]
  BY <1>9 DEF BsFields
<1>11. BsOrdered(bz')
  <2>1. /\ bz'.sent \in Nat /\ bz'.got \in Seq(1..bz'.sent)
        /\ bz'.rx \in Seq(1..bz'.sent) /\ bz'.inbox \in Seq(1..bz'.sent)
        /\ InOrder(bz'.got \o bz'.rx \o bz'.inbox)
    BY <1>5, <1>6, <1>7, <1>9, <1>10 DEF new
  <2> QED
    BY <1>1, <1>10, <2>1 DEF BsOrdered
<1>12. BsCounted(bz')
  <2>1. bz.session = 1 => Len(bz'.got \o bz'.rx \o bz'.inbox) = bz'.sent
    BY <1>1, <1>3, <1>7, <1>9, <1>10 DEF BsCounted, new, b
  <2>2. bz'.session # 0 /\ bz'.link = "up" /\ ~bz'.agent
    BY <1>1, <1>10 DEF BsJoined, BsCounted
  <2> QED
    BY <1>10, <2>1, <2>2 DEF BsCounted
<1>13. BsJoined(bz')
  BY <1>1, <1>10 DEF BsJoined
<1>14. BsBatched(bz') /\ BsMoving(bz')
  BY <1>1, <1>10 DEF BsBatched, BsMoving
<1> QED
  BY <1>11, <1>12, <1>13, <1>14 DEF BsLinked, BsWhole

LEMMA BsNextWhole ==
  ASSUME QueuedWritesRun, BsAll, [BsNext]_bz
  PROVE  BsAll'
<1>1. BsInv'
  BY BsNextInv DEF BsAll
<1>2. CASE UNCHANGED bz
  BY <1>1, <1>2 DEF BsAll
<1>3. CASE BsCloses
  <2>1. bz' = BsClose(bz)
    BY <1>3 DEF BsCloses
  <2>2. BsLinked(bz') /\ BsWhole(bz')
    BY <2>1, BsCloseWhole DEF BsAll, BsInv, BsLinked
  <2> QED
    BY <1>1, <2>2 DEF BsAll
<1>4. CASE BsNext /\ ~BsCloses
  <2>1. BsLinked(bz') /\ BsWhole(bz')
    BY <1>4, BsConnectWhole, BsLookupWhole, BsWriteWhole, BsReadWhole, BsAbortWhole,
       BsPollWhole, BsNotifiedWhole, BsPostedWhole, BsLinkWhole, BsPeerSendsWhole
       DEF BsNext
  <2> QED
    BY <1>1, <2>1 DEF BsAll
<1> QED
  BY <1>2, <1>3, <1>4

LEMMA BsBytesPromise == BsAll => BsStreams /\ BsWriteCarried /\ BsConnectedIsUp
<1> SUFFICES ASSUME BsAll
             PROVE  BsStreams /\ BsWriteCarried /\ BsConnectedIsUp
  OBVIOUS
<1>1. BsOrdered(bz) /\ BsCounted(bz) /\ BsJoined(bz) /\ BsMoving(bz)
  BY DEF BsAll, BsLinked, BsWhole
<1>2. BsStreams
  BY <1>1 DEF BsStreams, BsOrdered, BsCounted
<1>3. BsWriteCarried
  BY <1>1 DEF BsWriteCarried, BsMoving
<1>4. BsConnectedIsUp
  BY <1>1 DEF BsConnectedIsUp, BsJoined, Links
<1> QED
  BY <1>2, <1>3, <1>4

-------------------------------------------------------------------------------
(* AndroidSocket: the thread that reads belongs to the connection, and the   *)
(* connection to the attempt made last.                                      *)

AsCalls == {"connect", "close"}
AsSockets ==
  [link : {"new", "connecting", "up", "lost", "failed", "closed"},
   worker : {"idle", "busy", "quit", "gone"}, work : Seq(AsCalls), fallback : BOOLEAN,
   reader : {"none", "reading", "done"}, expectClosure : BOOLEAN, inbox : Seq(Nat)]
AsSignals == [name : {"done", "failed", "error", "expected"}, socket : Nat]
AsFields ==
  {"scenario", "sockets", "socketObject", "inputThread", "events", "rx", "sent", "peer",
   "state", "agent", "told", "errors", "session", "written", "got"}
AsShape(r) ==
  /\ DOMAIN r = AsFields /\ r.sockets \in Seq(AsSockets) /\ r.events \in Seq(AsSignals)
  /\ \A k \in DOMAIN r.events : r.events[k].socket \in DOMAIN r.sockets

\* Of the signals on their way: none is of a socket; one is, and of a name; those
\* of a socket are the outcomes of its connect().
AsQuiet(e, i) == \A k \in DOMAIN e : e[k].socket # i
AsOnce(e, i, names) ==
  \E k \in DOMAIN e : /\ e[k].socket = i /\ e[k].name \in names
                      /\ \A l \in DOMAIN e : e[l].socket = i => l = k
AsCalm(e, i) == \A k \in DOMAIN e : e[k].socket = i => e[k].name \in {"done", "failed"}

\* A worker that will not connect any more; the outcome of connect() is still to
\* come, once; the reading thread reads, or its end is still to be told, once.
AsSettled(s) == s.worker # "busy" /\ \A k \in DOMAIN s.work : s.work[k] # "connect"
AsWaits(s, e, i) ==
  \/ s.work = <<"connect">> /\ s.worker = "idle" /\ AsQuiet(e, i)
  \/ s.work = <<>> /\ s.worker = "busy" /\ AsQuiet(e, i)
  \/ AsSettled(s) /\ AsOnce(e, i, {"done", "failed"})
AsHeard(s, e, i) ==
  \/ s.reader = "reading" /\ AsQuiet(e, i)
  \/ s.reader # "reading" /\ AsOnce(e, i, {"error", "expected"})

AsHeld(r) ==
  LET n == Len(r.sockets) IN
  /\ AsShape(r)
  /\ r.state \in {"Unconnected", "Connecting", "Connected", "Closing"}
  /\ \A i \in DOMAIN r.sockets :
       i # n \/ r.state \in {"Unconnected", "Connecting"} =>
         r.sockets[i].reader # "reading" /\ AsCalm(r.events, i)
  /\ r.state \in {"Unconnected", "Closing"} => r.socketObject = 0
  /\ r.state \in {"Connecting", "Connected"} => r.socketObject = n
  /\ r.state # "Unconnected" => n > 0
  /\ r.inputThread = IF r.state = "Connected" THEN n ELSE 0
  /\ r.state = "Connecting" => AsWaits(r.sockets[n], r.events, n)
  /\ r.state \in {"Connected", "Closing"} =>
       AsSettled(r.sockets[n]) /\ AsHeard(r.sockets[n], r.events, n)

LEMMA AsEmitted ==
  ASSUME NEW e \in Seq(AsSignals), NEW i, NEW m, NEW j, NEW names
  PROVE  LET f == Append(e, [name |-> m, socket |-> i]) IN
         /\ AsQuiet(e, j) /\ j # i => AsQuiet(f, j)
         /\ AsOnce(e, j, names) /\ j # i => AsOnce(f, j, names)
         /\ AsQuiet(e, i) /\ m \in names => AsOnce(f, i, names)
         /\ AsCalm(e, j) /\ (j # i \/ m \in {"done", "failed"}) => AsCalm(f, j)
<1> DEFINE f == Append(e, [name |-> m, socket |-> i])
<1>1. /\ Len(e) \in Nat /\ DOMAIN e = 1..Len(e) /\ DOMAIN f = 1..(Len(e) + 1)
      /\ \A k \in DOMAIN e : f[k] = e[k]
      /\ f[Len(e) + 1].socket = i /\ f[Len(e) + 1].name = m
  OBVIOUS
<1> HIDE DEF f
<1>2. AsQuiet(e, j) /\ j # i => AsQuiet(f, j)
  BY <1>1 DEF AsQuiet
<1>3. ASSUME AsOnce(e, j, names), j # i
      PROVE  AsOnce(f, j, names)
  <2>1. PICK k \in DOMAIN e : /\ e[k].socket = j /\ e[k].name \in names
                              /\ \A l \in DOMAIN e : e[l].socket = j => l = k
    BY <1>3 DEF AsOnce
  <2>2. /\ k \in DOMAIN f /\ f[k].socket = j /\ f[k].name \in names
        /\ \A l \in DOMAIN f : f[l].socket = j => l = k
    BY <1>1, <1>3, <2>1
  <2> QED
    BY <2>2 DEF AsOnce
<1>4. ASSUME AsQuiet(e, i), m \in names
      PROVE  AsOnce(f, i, names)
  <2>1. \A l \in DOMAIN f : f[l].socket = i => l = Len(e) + 1
    BY <1>1, <1>4 DEF AsQuiet
  <2> QED
    BY <1>1, <1>4, <2>1 DEF AsOnce
<1>5. AsCalm(e, j) /\ (j # i \/ m \in {"done", "failed"}) => AsCalm(f, j)
  BY <1>1 DEF AsCalm
<1> QED
  BY <1>2, <1>3, <1>4, <1>5 DEF f

LEMMA AsHandled ==
  ASSUME NEW e \in Seq(AsSignals), e # <<>>, NEW j, NEW names
  PROVE  /\ AsQuiet(e, j) => AsQuiet(Tail(e), j) /\ Head(e).socket # j
         /\ AsOnce(e, j, names) /\ Head(e).socket # j => AsOnce(Tail(e), j, names)
         /\ AsOnce(e, j, names) /\ Head(e).socket = j =>
              AsQuiet(Tail(e), j) /\ Head(e).name \in names
         /\ AsCalm(e, j) => AsCalm(Tail(e), j)
<1> DEFINE f == Tail(e)
<1>1. /\ Len(e) \in Nat \ {0} /\ DOMAIN e = 1..Len(e) /\ DOMAIN f = 1..(Len(e) - 1)
      /\ \A k \in DOMAIN f : k + 1 \in DOMAIN e /\ f[k] = e[k + 1]
      /\ Head(e) = e[1]
  OBVIOUS
<1> HIDE DEF f
<1>2. AsQuiet(e, j) => AsQuiet(f, j) /\ Head(e).socket # j
  BY <1>1 DEF AsQuiet
<1>3. ASSUME AsOnce(e, j, names)
      PROVE  /\ Head(e).socket # j => AsOnce(f, j, names)
             /\ Head(e).socket = j => AsQuiet(f, j) /\ Head(e).name \in names
  <2>1. PICK k \in DOMAIN e : /\ e[k].socket = j /\ e[k].name \in names
                              /\ \A l \in DOMAIN e : e[l].socket = j => l = k
    BY <1>3 DEF AsOnce
  <2>2. CASE k = 1
    <3>1. \A l \in DOMAIN f : f[l].socket # j
      BY <1>1, <2>1, <2>2
    <3> QED
      BY <1>1, <2>1, <2>2, <3>1 DEF AsQuiet
  <2>3. CASE k # 1
    <3>1. /\ k - 1 \in DOMAIN f /\ f[k - 1].socket = j /\ f[k - 1].name \in names
          /\ \A l \in DOMAIN f : f[l].socket = j => l = k - 1
          /\ Head(e).socket # j
      BY <1>1, <2>1, <2>3
    <3> QED
      BY <3>1 DEF AsOnce
  <2> QED
    BY <2>2, <2>3
<1>4. AsCalm(e, j) => AsCalm(f, j)
  BY <1>1 DEF AsCalm
<1> QED
  BY <1>2, <1>3, <1>4 DEF f

\* The sockets are as before, but for a call more in the queues of some workers.
AsCalled(q, p, what) ==
  /\ q \in Seq(AsSockets) /\ Len(q) = Len(p) /\ DOMAIN q = DOMAIN p
  /\ \A i \in DOMAIN p :
       /\ q[i].worker = p[i].worker /\ q[i].reader = p[i].reader
       /\ q[i].inbox = p[i].inbox
       /\ q[i].work \in {p[i].work, Append(p[i].work, what)}
       /\ p[i].worker # "gone" => q[i].work = Append(p[i].work, what)

LEMMA AsBroadcast ==
  ASSUME NEW r, DOMAIN r = AsFields, r.sockets \in Seq(AsSockets), NEW what \in AsCalls
  PROVE  /\ DOMAIN Broadcast(r, what) = AsFields
         /\ \A f \in AsFields \ {"sockets"} : Broadcast(r, what)[f] = r[f]
         /\ AsCalled(Broadcast(r, what)["sockets"], r["sockets"], what)
<1> DEFINE p == r.sockets
           q == [i \in DOMAIN p |-> IF p[i].worker = "gone" THEN p[i]
                                    ELSE [p[i] EXCEPT !.work = Append(@, what)]]
           b == Broadcast(r, what)
<1>1. DOMAIN b = AsFields /\ b["sockets"] = q /\ \A f \in AsFields \ {"sockets"} : b[f] = r[f]
  <2>1. b = [r EXCEPT !.sockets = q]
    BY ONLY Zenon DEF Broadcast, b, q, p
  <2> HIDE DEF b, q, p
  <2> QED
    BY <2>1 DEF AsFields
<1>2. Len(p) \in Nat /\ DOMAIN p = 1..Len(p) /\ \A i \in 1..Len(p) : p[i] \in AsSockets
  OBVIOUS
<1>3. \A s \in AsSockets :
        LET t == [s EXCEPT !.work = Append(@, what)] IN
        /\ t \in AsSockets /\ t.worker = s.worker /\ t.reader = s.reader
        /\ t.inbox = s.inbox /\ t.work = Append(s.work, what)
  <2> SUFFICES ASSUME NEW s \in AsSockets
               PROVE  LET t == [s EXCEPT !.work = Append(@, what)] IN
                      /\ t \in AsSockets /\ t.worker = s.worker /\ t.reader = s.reader
                      /\ t.inbox = s.inbox /\ t.work = Append(s.work, what)
    OBVIOUS
  <2> DEFINE w == Append(s.work, what)
  <2>1. w \in Seq(AsCalls)
    BY DEF AsSockets
  <2> HIDE DEF w
  <2>2. LET t == [s EXCEPT !.work = w] IN
        /\ t \in AsSockets /\ t.worker = s.worker /\ t.reader = s.reader
        /\ t.inbox = s.inbox /\ t.work = w
    BY <2>1 DEF AsSockets
  <2> QED
    BY <2>2, Zenon DEF w
<1>4. \A i \in 1..Len(p) :
        /\ q[i] \in AsSockets /\ q[i].worker = p[i].worker /\ q[i].reader = p[i].reader
        /\ q[i].inbox = p[i].inbox /\ q[i].work \in {p[i].work, Append(p[i].work, what)}
        /\ p[i].worker # "gone" => q[i].work = Append(p[i].work, what)
  BY <1>2, <1>3
<1>5. q \in [1..Len(p) -> AsSockets] /\ DOMAIN q = 1..Len(p)
  BY <1>2, <1>4
<1> HIDE DEF q
<1>6. q \in Seq(AsSockets) /\ Len(q) = Len(p)
  BY <1>2, <1>5
<1> HIDE DEF b, p
<1>7. AsCalled(b["sockets"], p, what)
  BY <1>1, <1>2, <1>4, <1>5, <1>6 DEF AsCalled
<1> QED
  BY <1>1, <1>7 DEF b, p

LEMMA AsStateSets ==
  ASSUME NEW r, DOMAIN r = AsFields, NEW new
  PROVE  /\ DOMAIN SetSocketState(r, new) = AsFields
         /\ SetSocketState(r, new)["state"] = new
         /\ \A f \in AsFields \ {"state", "told"} : SetSocketState(r, new)[f] = r[f]
BY DEF SetSocketState, AsFields
LEMMA AsErrorSets ==
  ASSUME NEW r, DOMAIN r = AsFields
  PROVE  /\ DOMAIN SetSocketError(r) = AsFields
         /\ \A f \in AsFields \ {"errors"} : SetSocketError(r)[f] = r[f]
BY DEF SetSocketError, AsFields

\* A socket more, and the calls that its worker has.
LEMMA AsAdded ==
  ASSUME NEW p \in Seq(AsSockets), NEW s \in AsSockets
  PROVE  /\ Append(p, s) \in Seq(AsSockets) /\ Len(Append(p, s)) = Len(p) + 1
         /\ Len(p) + 1 \in Nat /\ DOMAIN Append(p, s) = 1..(Len(p) + 1)
         /\ DOMAIN p = 1..Len(p) /\ Len(p) \in Nat
         /\ Append(p, s)[Len(p) + 1] = s
         /\ \A i \in 1..Len(p) : Append(p, s)[i] = p[i]
OBVIOUS

LEMMA AsSettledCalled ==
  ASSUME NEW s \in AsSockets, AsSettled(s), NEW t, t.worker = s.worker,
         t.work \in {s.work, Append(s.work, "close")}
  PROVE  AsSettled(t)
<1>1. s.work \in Seq(AsCalls)
  BY DEF AsSockets
<1>2. \A k \in DOMAIN t.work : t.work[k] # "connect"
  BY <1>1 DEF AsSettled
<1> QED
  BY <1>2 DEF AsSettled

\* The bytes that the newest socket has for the application come after those read.
AsInbox(r) == IF Len(r.sockets) = 0 THEN <<>> ELSE r.sockets[Len(r.sockets)].inbox
AsOrdered(r) ==
  /\ r.sent \in Nat /\ r.got \in Seq(1..r.sent) /\ r.rx \in Seq(1..r.sent)
  /\ AsInbox(r) \in Seq(1..r.sent)
  /\ InOrder((r.got \o r.rx) \o AsInbox(r))
  /\ r.peer = r.written

LEMMA AsHeldSame ==
  ASSUME NEW r, AsHeld(r), NEW c, DOMAIN c = AsFields, c.state = r.state,
         c.socketObject = r.socketObject, c.inputThread = r.inputThread,
         c.events = r.events, c.sockets \in Seq(AsSockets),
         Len(c.sockets) = Len(r.sockets), DOMAIN c.sockets = DOMAIN r.sockets,
         \A i \in DOMAIN r.sockets :
           /\ c.sockets[i].worker = r.sockets[i].worker
           /\ c.sockets[i].work = r.sockets[i].work
           /\ c.sockets[i].reader = r.sockets[i].reader
  PROVE  AsHeld(c)
<1> DEFINE n == Len(r.sockets)
<1>1. /\ n \in Nat /\ (n > 0 => n \in DOMAIN r.sockets)
      /\ AsShape(c)
  BY DEF AsHeld, AsShape
<1>2. n > 0 =>
        /\ c.sockets[n].worker = r.sockets[n].worker
        /\ c.sockets[n].work = r.sockets[n].work
        /\ c.sockets[n].reader = r.sockets[n].reader
  BY <1>1
<1>3. n > 0 /\ AsWaits(r.sockets[n], r.events, n) => AsWaits(c.sockets[n], c.events, n)
  BY <1>2, Zenon DEF AsWaits, AsSettled
<1>4. n > 0 /\ AsSettled(r.sockets[n]) /\ AsHeard(r.sockets[n], r.events, n) =>
        AsSettled(c.sockets[n]) /\ AsHeard(c.sockets[n], c.events, n)
  BY <1>2, Zenon DEF AsHeard, AsSettled
<1> QED
  BY <1>1, <1>3, <1>4 DEF AsHeld

LEMMA AsOrderedSame ==
  ASSUME NEW r, AsOrdered(r), NEW c, c.sent = r.sent, c.got = r.got, c.rx = r.rx,
         c.peer = r.peer, c.written = r.written, AsInbox(c) = AsInbox(r)
  PROVE  AsOrdered(c)
BY DEF AsOrdered

\* A new socket has nothing yet, and what the last one still had is lost.
LEMMA AsOrderedAnew ==
  ASSUME NEW r, AsOrdered(r), NEW c, c.sent = r.sent, c.got = r.got, c.rx = r.rx,
         c.peer = r.peer, c.written = r.written, AsInbox(c) = <<>>
  PROVE  AsOrdered(c)
<1>1. /\ r.sent \in Nat /\ r.got \in Seq(1..r.sent) /\ r.rx \in Seq(1..r.sent)
      /\ AsInbox(r) \in Seq(1..r.sent) /\ InOrder((r.got \o r.rx) \o AsInbox(r))
  BY DEF AsOrdered
<1>2. 1..r.sent \subseteq Nat
  BY <1>1
<1>3. /\ r.got \in Seq(Nat) /\ r.rx \in Seq(Nat) /\ AsInbox(r) \in Seq(Nat)
      /\ <<>> \in Seq(1..r.sent)
  BY <1>1, <1>2, SeqMonotonic
<1>4. r.got \o r.rx \in Seq(Nat)
  BY <1>3, ConcatProperties
<1>5. InOrder((r.got \o r.rx) \o <<>>)
  BY <1>1, <1>3, <1>4, OrderOfParts
<1> QED
  BY <1>1, <1>3, <1>5 DEF AsOrdered

\* One of the sockets changes.
LEMMA AsOneOf ==
  ASSUME NEW p \in Seq(AsSockets), NEW i \in DOMAIN p
  PROVE  p[i] \in AsSockets
OBVIOUS
LEMMA AsUpdated ==
  ASSUME NEW p \in Seq(AsSockets), NEW i \in DOMAIN p, NEW t \in AsSockets
  PROVE  LET q == [p EXCEPT ![i] = t] IN
         /\ q \in Seq(AsSockets) /\ Len(q) = Len(p) /\ DOMAIN q = DOMAIN p
         /\ q[i] = t /\ \A j \in DOMAIN p \ {i} : q[j] = p[j]
<1> DEFINE q == [p EXCEPT ![i] = t]
<1>1. Len(p) \in Nat /\ DOMAIN p = 1..Len(p) /\ \A j \in 1..Len(p) : p[j] \in AsSockets
  OBVIOUS
<1>2. q \in [1..Len(p) -> AsSockets] /\ DOMAIN q = 1..Len(p)
  BY <1>1
<1>3. q \in Seq(AsSockets) /\ Len(q) = Len(p)
  BY <1>1, <1>2
<1> QED
  BY <1>1, <1>2, <1>3

\* Nobody reads, nor is the end of a reading thread still to be told.
AsUnread(r) ==
  \A i \in DOMAIN r.sockets : r.sockets[i].reader # "reading" /\ AsCalm(r.events, i)
AsBytes == {"scenario", "sent", "got", "rx", "peer", "written"}

LEMMA AsStarted ==
  ASSUME NEW r, AsShape(r), AsUnread(r), r.state = "Connecting", r.inputThread = 0,
         NEW fallback \in BOOLEAN
  PROVE  /\ AsHeld(StartWorker(r, fallback))
         /\ \A f \in AsBytes : StartWorker(r, fallback)[f] = r[f]
         /\ AsInbox(StartWorker(r, fallback)) = <<>>
<1> DEFINE s == NewSocket("new", <<>>, fallback)
           q == Append(r.sockets, s)
           n == [r EXCEPT !.sockets = q]
           m == [n EXCEPT !.socketObject = Newest(n)]
           b == Broadcast(m, "connect")
           l == Len(q)
<1>1. b = StartWorker(r, fallback)
  BY Zenon DEF StartWorker, b, m, n, q, s
<1>2. /\ s \in AsSockets /\ s.worker = "idle" /\ s.work = <<>> /\ s.reader = "none"
      /\ s.inbox = <<>>
  <2>1. <<>> \in Seq(AsCalls) /\ <<>> \in Seq(Nat)
    OBVIOUS
  <2> QED
    BY <2>1 DEF NewSocket, AsSockets
<1> HIDE DEF s
<1>3. /\ DOMAIN r = AsFields /\ r.sockets \in Seq(AsSockets)
      /\ \A k \in DOMAIN r.events : r.events[k].socket \in DOMAIN r.sockets
  BY DEF AsShape
<1>4. /\ q \in Seq(AsSockets) /\ l = Len(r.sockets) + 1 /\ DOMAIN q = DOMAIN r.sockets \cup {l}
      /\ l \notin DOMAIN r.sockets /\ l > 0 /\ q[l] = s
      /\ \A i \in DOMAIN r.sockets : q[i] = r.sockets[i]
  BY <1>2, <1>3, AsAdded
<1>5. l \in Nat /\ DOMAIN q = 1..l
  BY <1>4
<1> HIDE DEF q
<1>6. /\ DOMAIN n = AsFields /\ n["sockets"] = q
      /\ \A f \in AsFields \ {"sockets"} : n[f] = r[f]
  BY <1>3 DEF AsFields
<1> HIDE DEF n
<1>7. /\ DOMAIN m = AsFields /\ m["sockets"] = q /\ m["socketObject"] = l
      /\ \A f \in AsFields \ {"sockets", "socketObject"} : m[f] = r[f]
  BY <1>6 DEF AsFields, Newest
<1> HIDE DEF m
<1>8. /\ DOMAIN b = AsFields /\ AsCalled(b["sockets"], q, "connect")
      /\ b["socketObject"] = l
      /\ \A f \in AsFields \ {"sockets", "socketObject"} : b[f] = r[f]
  <2>1. m.sockets \in Seq(AsSockets) /\ "connect" \in AsCalls
    BY <1>4, <1>7 DEF AsCalls
  <2>2. /\ DOMAIN b = AsFields /\ \A f \in AsFields \ {"sockets"} : b[f] = m[f]
        /\ AsCalled(b["sockets"], m["sockets"], "connect")
    BY <1>7, <2>1, AsBroadcast DEF b
  <2> QED
    BY <1>7, <2>2 DEF AsFields
<1> HIDE DEF b
<1>9. /\ b["state"] = "Connecting" /\ b["inputThread"] = 0 /\ b["events"] = r["events"]
  BY <1>8 DEF AsFields
<1> DEFINE p == b["sockets"]
<1>10. /\ p \in Seq(AsSockets) /\ Len(p) = l /\ DOMAIN p = 1..l
       /\ p[l].worker = "idle" /\ p[l].reader = "none" /\ p[l].inbox = <<>>
       /\ p[l].work = <<"connect">>
       /\ \A i \in DOMAIN r.sockets : p[i].reader = r.sockets[i].reader
  BY <1>2, <1>4, <1>5, <1>8 DEF AsCalled
<1> HIDE DEF p, l
<1>11. AsQuiet(r.events, l) /\ AsCalm(r.events, l)
  BY <1>3, <1>4 DEF AsQuiet, AsCalm
<1>12. \A i \in 1..l : p[i].reader # "reading" /\ AsCalm(r.events, i)
  BY <1>4, <1>5, <1>10, <1>11 DEF AsUnread
<1>13. AsShape(b)
  BY <1>3, <1>4, <1>5, <1>8, <1>9, <1>10 DEF AsShape, p
<1>14. AsHeld(b)
  <2>1. b.sockets = p /\ b.events = r.events /\ Len(b.sockets) = l /\ DOMAIN b.sockets = 1..l
    BY <1>9, <1>10 DEF p
  <2>2. AsWaits(b.sockets[l], b.events, l)
    BY <1>10, <1>11, <2>1 DEF AsWaits
  <2> QED
    BY <1>4, <1>5, <1>8, <1>9, <1>12, <1>13, <2>1, <2>2 DEF AsHeld
<1>15. AsInbox(b) = <<>>
  BY <1>4, <1>5, <1>10 DEF AsInbox, p
<1>16. \A f \in AsBytes : b[f] = r[f]
  BY <1>8 DEF AsFields, AsBytes
<1> QED
  BY <1>1, <1>14, <1>15, <1>16

LEMMA AsReaderStarted ==
  ASSUME NEW r, AsShape(r), NEW i \in DOMAIN r.sockets, i = Len(r.sockets),
         r.socketObject = i, AsSettled(r.sockets[i]), AsQuiet(r.events, i),
         \A j \in DOMAIN r.sockets \ {i} :
           r.sockets[j].reader # "reading" /\ AsCalm(r.events, j)
  PROVE  /\ AsHeld(SetSocketState(StartReader(r, i), "Connected"))
         /\ \A f \in AsBytes : SetSocketState(StartReader(r, i), "Connected")[f] = r[f]
         /\ AsInbox(SetSocketState(StartReader(r, i), "Connected")) = AsInbox(r)
<1> DEFINE t == [r.sockets[i] EXCEPT !.reader = "reading"]
           q == [r.sockets EXCEPT ![i] = t]
           n == [r EXCEPT !.inputThread = i, !.sockets = q]
           c == SetSocketState(n, "Connected")
<1>1. n = StartReader(r, i)
  BY Zenon DEF StartReader, n, q, t
<1>2. r.sockets[i] \in AsSockets
  BY DEF AsShape
<1>3. /\ t \in AsSockets /\ t.worker = r.sockets[i].worker /\ t.work = r.sockets[i].work
      /\ t.inbox = r.sockets[i].inbox /\ t.reader = "reading"
  BY <1>2 DEF AsSockets
<1> HIDE DEF t
<1>4. /\ q \in Seq(AsSockets) /\ Len(q) = Len(r.sockets) /\ DOMAIN q = DOMAIN r.sockets
      /\ q[i] = t /\ \A j \in DOMAIN r.sockets \ {i} : q[j] = r.sockets[j]
  BY <1>3, AsUpdated DEF AsShape
<1> HIDE DEF q
<1>5. /\ DOMAIN n = AsFields /\ n["inputThread"] = i /\ n["sockets"] = q
      /\ \A f \in AsFields \ {"sockets", "inputThread"} : n[f] = r[f]
  BY DEF AsShape, AsFields
<1> HIDE DEF n
<1>6. /\ DOMAIN c = AsFields /\ c["state"] = "Connected"
      /\ \A f \in AsFields \ {"state", "told"} : c[f] = n[f]
  BY <1>5, AsStateSets
<1> HIDE DEF c
<1>7. /\ c["inputThread"] = i /\ c["sockets"] = q /\ c["events"] = r["events"]
      /\ c["socketObject"] = i
      /\ \A f \in AsBytes : c[f] = r[f]
  BY <1>5, <1>6 DEF AsFields, AsBytes
<1>8. AsShape(c)
  BY <1>4, <1>6, <1>7 DEF AsShape
<1>9. AsSettled(c.sockets[i]) /\ AsHeard(c.sockets[i], c.events, i)
  BY <1>3, <1>4, <1>7, Zenon DEF AsSettled, AsHeard
<1>10. i > 0
  BY DEF AsShape
<1>11. \A j \in DOMAIN c.sockets \ {i} :
         c.sockets[j].reader # "reading" /\ AsCalm(c.events, j)
  BY <1>4, <1>7
<1>12. Len(c.sockets) = i
  BY <1>4, <1>7
<1>13. AsHeld(c)
  BY <1>6, <1>7, <1>8, <1>9, <1>10, <1>11, <1>12 DEF AsHeld
<1>14. AsInbox(c) = AsInbox(r)
  BY <1>3, <1>4, <1>7, <1>10 DEF AsInbox
<1> QED
  BY <1>1, <1>7, <1>13, <1>14 DEF c

AsAll == AsHeld(as) /\ AsOrdered(as)

LEMMA AsConnectHolds ==
  ASSUME AsAll, AsConnect
  PROVE  AsAll'
<1> DEFINE n == NewSession(as)
           r == SetSocketState(n, "Connecting")
<1>1. AsShape(as) /\ AsUnread(as) /\ as.inputThread = 0 /\ as' = StartWorker(r, FALSE)
  BY DEF AsAll, AsHeld, AsConnect, AsUnread, AsConnectTo
<1>2. DOMAIN n = AsFields /\ \A f \in AsFields \ {"session"} : n[f] = as[f]
  BY <1>1 DEF NewSession, AsShape, AsFields
<1> HIDE DEF n
<1>3. /\ DOMAIN r = AsFields /\ r["state"] = "Connecting"
      /\ \A f \in AsFields \ {"state", "told"} : r[f] = n[f]
  BY <1>2, AsStateSets
<1> HIDE DEF r
<1>4. /\ r["sockets"] = as["sockets"] /\ r["events"] = as["events"]
      /\ r["inputThread"] = as["inputThread"]
      /\ \A f \in AsBytes : r[f] = as[f]
  BY <1>2, <1>3 DEF AsFields, AsBytes
<1>5. AsShape(r) /\ AsUnread(r) /\ r.inputThread = 0
  BY <1>1, <1>3, <1>4 DEF AsShape, AsUnread
<1>6. /\ AsHeld(as') /\ AsInbox(as') = <<>> /\ \A f \in AsBytes : as'[f] = r[f]
  BY <1>1, <1>3, <1>5, AsStarted
<1>7. /\ as'["sent"] = as["sent"] /\ as'["got"] = as["got"] /\ as'["rx"] = as["rx"]
      /\ as'["peer"] = as["peer"] /\ as'["written"] = as["written"]
  BY <1>4, <1>6 DEF AsBytes
<1>8. AsOrdered(as')
  BY <1>6, <1>7, AsOrderedAnew DEF AsAll
<1> QED
  BY <1>6, <1>8 DEF AsAll

LEMMA AsAcceptHolds ==
  ASSUME AsAll, AsAccept
  PROVE  AsAll'
<1> DEFINE s == NewSocket("up", <<>>, FALSE)
           m == NewSession(as)
           q == Append(m.sockets, s)
           n == [m EXCEPT !.sockets = q]
           i == Newest(n)
           r == [n EXCEPT !.socketObject = i]
<1>1. AsShape(as) /\ AsUnread(as) /\ as' = SetSocketState(StartReader(r, i), "Connected")
  <2>1. as' = SetSocketState(StartReader(r, i), "Connected")
    BY DEF AsAccept, SetSocketDescriptor
  <2> QED
    BY <2>1 DEF AsAll, AsHeld, AsAccept, AsUnread
<1>2. /\ s \in AsSockets /\ s.worker = "idle" /\ s.work = <<>> /\ s.inbox = <<>>
  <2>1. <<>> \in Seq(AsCalls) /\ <<>> \in Seq(Nat)
    OBVIOUS
  <2> QED
    BY <2>1 DEF NewSocket, AsSockets
<1> HIDE DEF s
<1>3. /\ DOMAIN m = AsFields /\ \A f \in AsFields \ {"session"} : m[f] = as[f]
      /\ m["sockets"] = as["sockets"]
  BY <1>1 DEF NewSession, AsShape, AsFields
<1> HIDE DEF m
<1>4. /\ q \in Seq(AsSockets) /\ Len(q) = Len(as.sockets) + 1
      /\ DOMAIN q = DOMAIN as.sockets \cup {Len(q)}
      /\ Len(q) \notin DOMAIN as.sockets /\ Len(q) > 0 /\ q[Len(q)] = s
      /\ \A j \in DOMAIN as.sockets : q[j] = as.sockets[j]
  <2> DEFINE p == as.sockets
  <2>1. p \in Seq(AsSockets) /\ s \in AsSockets
    BY <1>1, <1>2 DEF AsShape
  <2>2. q = Append(p, s)
    BY <1>3
  <2> HIDE DEF q, p
  <2>3. /\ q \in Seq(AsSockets) /\ Len(q) = Len(p) + 1
        /\ Len(q) \in Nat /\ DOMAIN q = 1..Len(q)
        /\ DOMAIN p = 1..Len(p) /\ Len(p) \in Nat
        /\ q[Len(q)] = s /\ \A j \in 1..Len(p) : q[j] = p[j]
    BY ONLY <2>1, <2>2, AsAdded
  <2>4. /\ q \in Seq(AsSockets) /\ Len(q) = Len(p) + 1
        /\ DOMAIN q = DOMAIN p \cup {Len(q)}
        /\ Len(q) \notin DOMAIN p /\ Len(q) > 0 /\ q[Len(q)] = s
        /\ \A j \in DOMAIN p : q[j] = p[j]
    BY ONLY <2>3
  <2> QED
    BY ONLY <2>4 DEF p
<1> HIDE DEF q
<1>5. /\ DOMAIN n = AsFields /\ n["sockets"] = q /\ i = Len(q)
      /\ \A f \in AsFields \ {"sockets"} : n[f] = m[f]
  BY <1>3 DEF AsFields, Newest
<1> HIDE DEF n, i
<1>6. /\ DOMAIN r = AsFields /\ r["sockets"] = q /\ r["socketObject"] = i
      /\ \A f \in AsFields \ {"sockets", "socketObject"} : r[f] = n[f]
  BY <1>5 DEF AsFields
<1> HIDE DEF r
<1>7. r["events"] = as["events"] /\ \A f \in AsBytes : r[f] = as[f]
  BY <1>3, <1>5, <1>6 DEF AsFields, AsBytes
<1>8. AsShape(r)
  BY <1>1, <1>4, <1>6, <1>7 DEF AsShape
<1>9. AsSettled(r.sockets[i]) /\ AsQuiet(r.events, i) /\ i \in DOMAIN r.sockets
  <2>1. i \in DOMAIN r.sockets /\ r.sockets[i] = s
    BY <1>4, <1>5, <1>6
  <2>2. AsSettled(s)
    BY <1>2 DEF AsSettled
  <2>3. AsQuiet(as.events, i)
    BY <1>1, <1>4, <1>5 DEF AsQuiet, AsShape
  <2> QED
    BY <1>7, <2>1, <2>2, <2>3
<1>10. \A j \in DOMAIN r.sockets \ {i} :
         r.sockets[j].reader # "reading" /\ AsCalm(r.events, j)
  BY <1>1, <1>4, <1>5, <1>6, <1>7 DEF AsUnread
<1>11. /\ AsHeld(as') /\ AsInbox(as') = AsInbox(r) /\ \A f \in AsBytes : as'[f] = r[f]
  BY <1>1, <1>5, <1>6, <1>8, <1>9, <1>10, AsReaderStarted
<1>12. AsInbox(r) = <<>>
  BY <1>2, <1>4, <1>6 DEF AsInbox
<1>13. /\ as'["sent"] = as["sent"] /\ as'["got"] = as["got"] /\ as'["rx"] = as["rx"]
       /\ as'["peer"] = as["peer"] /\ as'["written"] = as["written"]
  BY <1>7, <1>11 DEF AsBytes
<1>14. AsOrdered(as')
  BY <1>11, <1>12, <1>13, AsOrderedAnew DEF AsAll
<1> QED
  BY <1>11, <1>14 DEF AsAll

LEMMA AsForgotten ==
  ASSUME NEW r, AsShape(r)
  PROVE  LET f == Forget(Broadcast(r, "close")) IN
         /\ AsShape(f) /\ AsCalled(f["sockets"], r["sockets"], "close")
         /\ f["socketObject"] = 0 /\ f["inputThread"] = 0
         /\ \A g \in AsFields \ {"sockets", "socketObject", "inputThread"} : f[g] = r[g]
         /\ AsInbox(f) = AsInbox(r)
<1> DEFINE b == Broadcast(r, "close")
           f == Forget(b)
<1>1. /\ DOMAIN b = AsFields /\ AsCalled(b["sockets"], r["sockets"], "close")
      /\ \A g \in AsFields \ {"sockets"} : b[g] = r[g]
  <2>1. DOMAIN r = AsFields /\ r.sockets \in Seq(AsSockets) /\ "close" \in AsCalls
    BY DEF AsShape, AsCalls
  <2> QED
    BY <2>1, AsBroadcast
<1> HIDE DEF b
<1>2. /\ DOMAIN f = AsFields /\ f["sockets"] = b["sockets"] /\ f["socketObject"] = 0
      /\ f["inputThread"] = 0
      /\ \A g \in AsFields \ {"socketObject", "inputThread"} : f[g] = b[g]
  BY <1>1 DEF Forget, AsFields
<1> HIDE DEF f
<1>3. \A g \in AsFields \ {"sockets", "socketObject", "inputThread"} : f[g] = r[g]
  BY <1>1, <1>2
<1>4. AsCalled(f["sockets"], r["sockets"], "close") /\ f["events"] = r["events"]
  BY <1>1, <1>2, <1>3 DEF AsFields
<1>5. AsShape(f)
  BY <1>2, <1>4 DEF AsShape, AsCalled
<1>6. AsInbox(f) = AsInbox(r)
  <2>1. Len(r.sockets) \in Nat /\ DOMAIN r.sockets = 1..Len(r.sockets)
    BY DEF AsShape
  <2> QED
    BY <1>4, <2>1 DEF AsCalled, AsInbox
<1> QED
  BY <1>2, <1>3, <1>4, <1>5, <1>6 DEF f, b

\* Nobody reads: the socket is unconnected.
LEMMA AsUnconnected ==
  ASSUME NEW r, AsShape(r), AsUnread(r), r.socketObject = 0, r.inputThread = 0
  PROVE  /\ AsHeld(Unconnect(r)) /\ AsInbox(Unconnect(r)) = AsInbox(r)
         /\ \A f \in AsBytes : Unconnect(r)[f] = r[f]
<1> DEFINE c == Unconnect(r)
<1>1. /\ DOMAIN c = AsFields /\ c["state"] = "Unconnected"
      /\ \A f \in AsFields \ {"state", "told"} : c[f] = r[f]
  BY AsStateSets DEF AsShape, Unconnect
<1> HIDE DEF c
<1>2. /\ c["sockets"] = r["sockets"] /\ c["events"] = r["events"]
      /\ c["socketObject"] = 0 /\ c["inputThread"] = 0
      /\ \A f \in AsBytes : c[f] = r[f]
  BY <1>1 DEF AsFields, AsBytes
<1>3. AsShape(c) /\ AsInbox(c) = AsInbox(r)
  BY <1>1, <1>2 DEF AsShape, AsInbox
<1>4. AsHeld(c)
  BY <1>1, <1>2, <1>3 DEF AsHeld, AsUnread
<1> QED
  BY <1>2, <1>3, <1>4 DEF c

LEMMA AsSameBytes ==
  ASSUME NEW r, AsOrdered(r), NEW c, \A f \in AsBytes : c[f] = r[f],
         AsInbox(c) = AsInbox(r)
  PROVE  AsOrdered(c)
<1>1. /\ c["sent"] = r["sent"] /\ c["got"] = r["got"] /\ c["rx"] = r["rx"]
      /\ c["peer"] = r["peer"] /\ c["written"] = r["written"]
  BY DEF AsBytes
<1> QED
  BY <1>1, AsOrderedSame

LEMMA AsAttempt ==
  ASSUME NEW r, AsHeld(r)
  PROVE  LET n == Len(r.sockets) IN
         /\ n \in Nat /\ DOMAIN r.sockets = 1..n
         /\ \A i \in 1..n : r.sockets[i] \in AsSockets
         /\ \A i \in DOMAIN r.sockets : i \in Nat \ {0} /\ n # 0 /\ n \in DOMAIN r.sockets
         /\ r.state # "Unconnected" => n > 0 /\ n \in DOMAIN r.sockets
         /\ r.state # "Unconnected" /\ r.socketObject = 0 => r.state = "Closing"
         /\ r.inputThread # 0 => r.state = "Connected" /\ r.inputThread = n
         /\ r.socketObject # 0 => r.state \in {"Connecting", "Connected"}
         /\ r.socketObject # 0 => r.socketObject = n
         /\ r.inputThread = 0 => r.state # "Connected"
<1> DEFINE p == r.sockets
           n == Len(p)
<1>1. p \in Seq(AsSockets)
  BY DEF AsHeld, AsShape
<1>2. /\ n \in Nat /\ DOMAIN p = 1..n /\ \A i \in 1..n : p[i] \in AsSockets
      /\ \A i \in DOMAIN p : i \in Nat \ {0} /\ n # 0 /\ n \in DOMAIN p
  BY <1>1
<1> HIDE DEF p
<1>3. /\ r.state \in {"Unconnected", "Connecting", "Connected", "Closing"}
      /\ r.state \in {"Unconnected", "Closing"} => r.socketObject = 0
      /\ r.state \in {"Connecting", "Connected"} => r.socketObject = n
      /\ r.state # "Unconnected" => n > 0
      /\ r.inputThread = IF r.state = "Connected" THEN n ELSE 0
  BY DEF AsHeld, p
<1>4. n > 0 => n \in 1..n
  BY <1>2
<1> QED
  BY <1>2, <1>3, <1>4 DEF p

LEMMA AsCloseHolds ==
  ASSUME AsAll, AsClose
  PROVE  AsAll'
<1> DEFINE g == [as EXCEPT !.agent = FALSE]
           e == SetSocketState(g, "Closing")
<1>1. as' = BackendAbortAndroid(e) /\ as.state # "Unconnected" /\ AsHeld(as) /\ AsShape(as)
  BY DEF AsClose, SocketClose, EnterClosing, AsAll, AsHeld
<1>2. DOMAIN g = AsFields /\ \A f \in AsFields \ {"agent"} : g[f] = as[f]
  BY <1>1 DEF AsShape, AsFields
<1> HIDE DEF g
<1>3. /\ DOMAIN e = AsFields /\ e["state"] = "Closing"
      /\ \A f \in AsFields \ {"state", "told"} : e[f] = g[f]
  BY <1>2, AsStateSets
<1> HIDE DEF e
<1>4. /\ e["sockets"] = as["sockets"] /\ e["events"] = as["events"]
      /\ e["inputThread"] = as["inputThread"] /\ e["socketObject"] = as["socketObject"]
      /\ \A f \in AsBytes : e[f] = as[f]
  BY <1>2, <1>3 DEF AsFields, AsBytes
<1>5. AsShape(e) /\ AsInbox(e) = AsInbox(as)
  BY <1>1, <1>3, <1>4 DEF AsShape, AsInbox
<1>6. CASE e.socketObject = 0
  <2>1. as' = e /\ as.state = "Closing"
    BY <1>1, <1>4, <1>6, AsAttempt DEF BackendAbortAndroid
  <2>2. AsHeld(e)
    BY <1>1, <1>3, <1>4, <2>1, AsHeldSame DEF AsShape
  <2>3. AsOrdered(e)
    BY <1>4, <1>5, AsSameBytes DEF AsAll
  <2> QED
    BY <2>1, <2>2, <2>3 DEF AsAll
<1>7. CASE e.socketObject # 0
  <2> DEFINE f == Forget(Broadcast(e, "close"))
             n == Len(as.sockets)
  <2>1. /\ AsShape(f) /\ AsCalled(f["sockets"], e["sockets"], "close")
        /\ f["socketObject"] = 0 /\ f["inputThread"] = 0
        /\ \A h \in AsFields \ {"sockets", "socketObject", "inputThread"} : f[h] = e[h]
        /\ AsInbox(f) = AsInbox(e)
    BY <1>5, AsForgotten
  <2>2. as' = IF e.inputThread = 0 THEN Unconnect(f)
              ELSE [f EXCEPT !.sockets[e.inputThread].expectClosure = TRUE]
    BY <1>1, <1>7 DEF BackendAbortAndroid
  <2> HIDE DEF f
  <2>3. /\ f["state"] = "Closing" /\ f["events"] = as["events"]
        /\ AsCalled(f["sockets"], as["sockets"], "close")
        /\ \A h \in AsBytes : f[h] = as[h]
    BY <1>3, <1>4, <2>1 DEF AsFields, AsBytes
  <2>4. CASE e.inputThread = 0
    <3>1. as.state = "Connecting"
      BY <1>1, <1>4, <1>7, <2>4 DEF AsHeld
    <3>2. AsUnread(f)
      BY <1>1, <2>3, <3>1 DEF AsHeld, AsUnread, AsCalled
    <3>3. /\ AsHeld(as') /\ AsInbox(as') = AsInbox(f)
          /\ \A h \in AsBytes : as'[h] = f[h]
      BY <2>1, <2>2, <2>4, <3>2, AsUnconnected
    <3>4. AsOrdered(as')
      BY <1>5, <2>1, <2>3, <3>3, AsSameBytes DEF AsAll
    <3> QED
      BY <3>3, <3>4 DEF AsAll
  <2>5. CASE e.inputThread # 0
    <3>1. as.state = "Connected" /\ e.inputThread = n /\ n \in DOMAIN as.sockets
      BY <1>1, <1>4, <2>5, AsAttempt
    <3> DEFINE p == f.sockets
               t == [p[n] EXCEPT !.expectClosure = TRUE]
               q == [p EXCEPT ![n] = t]
    <3>2. as' = [f EXCEPT !.sockets = q]
      BY <2>2, <2>5, <3>1
    <3>3. /\ p \in Seq(AsSockets) /\ DOMAIN p = DOMAIN as.sockets /\ Len(p) = n
          /\ p[n] \in AsSockets
      <4>1. /\ p \in Seq(AsSockets) /\ DOMAIN p = DOMAIN as.sockets /\ Len(p) = n
        BY <2>3 DEF AsCalled
      <4>2. n \in DOMAIN p
        BY <3>1, <4>1
      <4> HIDE DEF p, n
      <4>3. p[n] \in AsSockets
        BY ONLY <4>1, <4>2, AsOneOf
      <4> QED
        BY <4>1, <4>3
    <3> HIDE DEF p
    <3>4. /\ t \in AsSockets /\ t.worker = p[n].worker /\ t.work = p[n].work
          /\ t.reader = p[n].reader /\ t.inbox = p[n].inbox
      BY <3>3 DEF AsSockets
    <3> HIDE DEF t
    <3>5. /\ q \in Seq(AsSockets) /\ Len(q) = n /\ DOMAIN q = DOMAIN as.sockets
          /\ q[n] = t /\ \A j \in DOMAIN p \ {n} : q[j] = p[j]
      <4>1. n \in DOMAIN p
        BY <3>1, <3>3
      <4> HIDE DEF n
      <4>2. p \in Seq(AsSockets) /\ t \in AsSockets
        BY <3>3, <3>4
      <4>3. /\ q \in Seq(AsSockets) /\ Len(q) = Len(p) /\ DOMAIN q = DOMAIN p
            /\ q[n] = t /\ \A j \in DOMAIN p \ {n} : q[j] = p[j]
        BY ONLY <4>1, <4>2, AsUpdated
      <4> QED
        BY ONLY <3>3, <4>3
    <3> HIDE DEF q
    <3>6. /\ DOMAIN as' = AsFields /\ as'["sockets"] = q
          /\ \A h \in AsFields \ {"sockets"} : as'[h] = f[h]
      BY <2>1, <3>2 DEF AsShape, AsFields
    <3>7. /\ as'["state"] = "Closing" /\ as'["events"] = as["events"]
          /\ as'["socketObject"] = 0 /\ as'["inputThread"] = 0
          /\ \A h \in AsBytes : as'[h] = as[h]
      BY <2>1, <2>3, <3>6 DEF AsFields, AsBytes
    <3>8. /\ as'.sockets = q /\ q[n].worker = as.sockets[n].worker
          /\ q[n].reader = as.sockets[n].reader /\ q[n].inbox = as.sockets[n].inbox
          /\ q[n].work \in {as.sockets[n].work, Append(as.sockets[n].work, "close")}
          /\ \A j \in DOMAIN as.sockets : q[j].reader = as.sockets[j].reader
      BY <2>3, <3>1, <3>3, <3>4, <3>5, <3>6 DEF AsCalled, p
    <3>9. as.sockets[n] \in AsSockets /\ n > 0
      BY <1>1, <3>1, AsAttempt
    <3>10. AsSettled(q[n]) /\ AsHeard(q[n], as.events, n)
      <4>1. AsSettled(as.sockets[n]) /\ AsHeard(as.sockets[n], as.events, n)
        BY <1>1, <3>1 DEF AsHeld
      <4> QED
        BY <3>8, <3>9, <4>1, AsSettledCalled DEF AsHeard
    <3>11. AsShape(as')
      BY <1>1, <3>5, <3>6, <3>7 DEF AsShape
    <3>12. AsHeld(as')
      BY <1>1, <3>1, <3>5, <3>7, <3>8, <3>9, <3>10, <3>11 DEF AsHeld
    <3>13. AsInbox(as') = AsInbox(as)
      BY <3>5, <3>8 DEF AsInbox
    <3>14. AsOrdered(as')
      BY <3>7, <3>13, AsSameBytes DEF AsAll
    <3> QED
      BY <3>12, <3>14 DEF AsAll
  <2> QED
    BY <2>4, <2>5
<1> QED
  BY <1>6, <1>7

LEMMA AsWriteHolds ==
  ASSUME AsAll, AsWrite
  PROVE  AsAll'
<1>1. AsHeld(as) /\ AsShape(as) /\ DOMAIN as = AsFields
  BY DEF AsAll, AsHeld, AsShape
<1>2. CASE as' = SetSocketError(as)
  <2>1. DOMAIN as' = AsFields /\ \A f \in AsFields \ {"errors"} : as'[f] = as[f]
    BY <1>1, <1>2, AsErrorSets
  <2>2. /\ as'["state"] = as["state"] /\ as'["socketObject"] = as["socketObject"]
        /\ as'["inputThread"] = as["inputThread"] /\ as'["events"] = as["events"]
        /\ as'["sockets"] = as["sockets"]
        /\ \A f \in AsBytes : as'[f] = as[f]
    BY <2>1 DEF AsFields, AsBytes
  <2>3. AsHeld(as')
    BY <1>1, <2>1, <2>2, AsHeldSame DEF AsShape
  <2>4. AsOrdered(as')
    BY <2>2, AsSameBytes DEF AsAll, AsInbox
  <2> QED
    BY <2>3, <2>4 DEF AsAll
<1>3. CASE as' = [as EXCEPT !.written = Append(@, NextByte(@)),
                            !.peer = Append(@, NextByte(as.written))]
  <2> DEFINE w == Append(as.written, NextByte(as.written))
             p == Append(as.peer, NextByte(as.written))
  <2>1. as' = [as EXCEPT !.written = w, !.peer = p]
    BY <1>3, Zenon
  <2>2. p = w
    BY DEF AsAll, AsOrdered
  <2> HIDE DEF w, p
  <2>3. /\ DOMAIN as' = AsFields /\ as'["written"] = w /\ as'["peer"] = p
        /\ \A f \in AsFields \ {"written", "peer"} : as'[f] = as[f]
    BY <1>1, <2>1 DEF AsFields
  <2>4. /\ as'["state"] = as["state"] /\ as'["socketObject"] = as["socketObject"]
        /\ as'["inputThread"] = as["inputThread"] /\ as'["events"] = as["events"]
        /\ as'["sockets"] = as["sockets"] /\ as'["sent"] = as["sent"]
        /\ as'["got"] = as["got"] /\ as'["rx"] = as["rx"]
    BY <2>3 DEF AsFields
  <2>5. AsHeld(as')
    BY <1>1, <2>3, <2>4, AsHeldSame DEF AsShape
  <2>6. AsOrdered(as')
    BY <2>2, <2>3, <2>4 DEF AsAll, AsOrdered, AsInbox
  <2> QED
    BY <2>5, <2>6 DEF AsAll
<1> QED
  BY <1>2, <1>3 DEF AsWrite, WriteJava

LEMMA AsReadDataHolds ==
  ASSUME AsAll, AsReadData
  PROVE  AsAll'
<1> DEFINE g == as.got \o as.rx
           i == AsInbox(as)
           B == 1..as.sent
<1>1. AsHeld(as) /\ AsShape(as) /\ DOMAIN as = AsFields
  BY DEF AsAll, AsHeld, AsShape
<1>2. as' = [as EXCEPT !.got = g, !.rx = <<>>]
  BY Zenon DEF AsReadData, g
<1>3. /\ as.sent \in Nat /\ as.got \in Seq(B) /\ as.rx \in Seq(B) /\ i \in Seq(B)
      /\ InOrder(g \o i) /\ as.peer = as.written
  BY DEF AsAll, AsOrdered
<1>4. g \in Seq(B) /\ <<>> \in Seq(B)
  <2> HIDE DEF B, i
  <2>1. g \in Seq(B)
    BY <1>3, ConcatProperties
  <2>2. <<>> \in Seq(B)
    OBVIOUS
  <2> QED
    BY <2>1, <2>2
<1> HIDE DEF g
<1>5. /\ DOMAIN as' = AsFields /\ as'["got"] = g /\ as'["rx"] = <<>>
      /\ \A f \in AsFields \ {"got", "rx"} : as'[f] = as[f]
  BY <1>1, <1>2 DEF AsFields
<1>6. /\ as'["state"] = as["state"] /\ as'["socketObject"] = as["socketObject"]
      /\ as'["inputThread"] = as["inputThread"] /\ as'["events"] = as["events"]
      /\ as'["sockets"] = as["sockets"] /\ as'["sent"] = as["sent"]
      /\ as'["peer"] = as["peer"] /\ as'["written"] = as["written"]
  BY <1>5 DEF AsFields
<1>7. AsHeld(as')
  BY <1>1, <1>5, <1>6, AsHeldSame DEF AsShape
<1>8. AsInbox(as') = i
  BY <1>6 DEF AsInbox
<1> HIDE DEF i
<1>9. g \o <<>> = g
  BY <1>4, ConcatEmptySeq
<1>10. AsOrdered(as')
  BY <1>3, <1>4, <1>5, <1>6, <1>8, <1>9 DEF AsOrdered
<1> QED
  BY <1>7, <1>10 DEF AsAll

\* One socket changes, and its worker and its reading thread do not.
LEMMA AsSocketSame ==
  ASSUME AsHeld(as), NEW i \in DOMAIN as.sockets, NEW t \in AsSockets,
         t.worker = as.sockets[i].worker, t.work = as.sockets[i].work,
         t.reader = as.sockets[i].reader,
         DOMAIN as' = AsFields, as'["sockets"] = [as["sockets"] EXCEPT ![i] = t],
         as'["state"] = as["state"], as'["socketObject"] = as["socketObject"],
         as'["inputThread"] = as["inputThread"], as'["events"] = as["events"]
  PROVE  /\ AsHeld(as')
         /\ AsInbox(as') = IF i = Len(as.sockets) THEN t.inbox ELSE AsInbox(as)
<1> DEFINE p == as.sockets
           q == [p EXCEPT ![i] = t]
<1>1. p \in Seq(AsSockets) /\ Len(p) \in Nat /\ DOMAIN p = 1..Len(p)
  <2>1. p \in Seq(AsSockets)
    BY DEF AsHeld, AsShape
  <2> HIDE DEF p
  <2> QED
    BY <2>1
<1>2. as'.sockets = q
  OBVIOUS
<1>3. /\ q \in Seq(AsSockets) /\ Len(q) = Len(p) /\ DOMAIN q = DOMAIN p
      /\ q[i] = t /\ \A j \in DOMAIN p \ {i} : q[j] = p[j]
  BY <1>1, AsUpdated
<1> HIDE DEF q
<1>4. \A j \in DOMAIN as.sockets :
        /\ q[j].worker = as.sockets[j].worker /\ q[j].work = as.sockets[j].work
        /\ q[j].reader = as.sockets[j].reader
  BY <1>3
<1>5. AsHeld(as')
  BY <1>2, <1>3, <1>4, AsHeldSame
<1>6. AsInbox(as') = IF i = Len(as.sockets) THEN t.inbox ELSE AsInbox(as)
  <2>1. AsInbox(as') = IF Len(q) = 0 THEN <<>> ELSE q[Len(q)].inbox
    BY <1>2 DEF AsInbox
  <2>2. AsInbox(as) = IF Len(p) = 0 THEN <<>> ELSE p[Len(p)].inbox
    BY DEF AsInbox
  <2>3. i \in 1..Len(p)
    BY <1>1
  <2> HIDE DEF p
  <2>4. IF i = Len(p) THEN AsInbox(as') = t.inbox ELSE AsInbox(as') = AsInbox(as)
    BY <1>1, <1>3, <2>1, <2>2, <2>3
  <2> QED
    BY <2>4 DEF p
<1> QED
  BY <1>5, <1>6

LEMMA AsPeerHolds ==
  ASSUME AsAll, AsPeerSends \/ AsPeerCloses
  PROVE  AsAll'
<1>1. AsHeld(as) /\ AsShape(as) /\ DOMAIN as = AsFields
  BY DEF AsAll, AsHeld, AsShape
<1>2. CASE AsPeerCloses
  <2>1. PICK i \in DOMAIN as.sockets : as' = [as EXCEPT !.sockets[i].link = "lost"]
    BY <1>2 DEF AsPeerCloses
  <2> DEFINE t == [as.sockets[i] EXCEPT !.link = "lost"]
             q == [as["sockets"] EXCEPT ![i] = t]
  <2>2. as' = [as EXCEPT !.sockets = q]
    BY <2>1
  <2>3. as.sockets[i] \in AsSockets
    BY <1>1, AsOneOf DEF AsShape
  <2>4. /\ t \in AsSockets /\ t.worker = as.sockets[i].worker /\ t.work = as.sockets[i].work
        /\ t.reader = as.sockets[i].reader /\ t.inbox = as.sockets[i].inbox
    BY <2>3 DEF AsSockets
  <2> HIDE DEF t, q
  <2>5. /\ DOMAIN as' = AsFields /\ as'["sockets"] = q
        /\ \A f \in AsFields \ {"sockets"} : as'[f] = as[f]
    BY <1>1, <2>2 DEF AsFields
  <2>6. /\ as'["state"] = as["state"] /\ as'["socketObject"] = as["socketObject"]
        /\ as'["inputThread"] = as["inputThread"] /\ as'["events"] = as["events"]
        /\ \A f \in AsBytes : as'[f] = as[f]
    BY <2>5 DEF AsFields, AsBytes
  <2>7. /\ AsHeld(as')
        /\ AsInbox(as') = IF i = Len(as.sockets) THEN t.inbox ELSE AsInbox(as)
    BY <1>1, <2>4, <2>5, <2>6, AsSocketSame DEF q
  <2>8. AsInbox(as') = AsInbox(as)
    <3>1. Len(as.sockets) # 0
      BY <1>1, AsAttempt
    <3>2. i = Len(as.sockets) => t.inbox = AsInbox(as)
      BY <2>4, <3>1 DEF AsInbox
    <3> QED
      BY <2>7, <3>2
  <2> QED
    BY <2>6, <2>7, <2>8, AsSameBytes DEF AsAll
<1>3. CASE AsPeerSends
  <2>1. PICK i \in DOMAIN as.sockets :
          as' = [as EXCEPT !.sent = @ + 1, !.sockets[i].inbox = Append(@, as.sent + 1)]
    BY <1>3 DEF AsPeerSends
  <2> DEFINE m == as.sent
  <2>0. m \in Nat
    BY DEF AsAll, AsOrdered
  <2> HIDE DEF m
  <2> DEFINE b == m + 1
             a == Append(as.sockets[i].inbox, b)
             t == [as.sockets[i] EXCEPT !.inbox = a]
             q == [as["sockets"] EXCEPT ![i] = t]
             n == Len(as.sockets)
             p == as.got \o as.rx
             B == 1..m
  <2>2. as' = [as EXCEPT !.sent = b, !.sockets = q]
    BY <2>1 DEF m
  <2>3. as.sockets[i] \in AsSockets
    BY <1>1, AsOneOf DEF AsShape
  <2>4. /\ as.got \in Seq(B) /\ as.rx \in Seq(B)
        /\ AsInbox(as) \in Seq(B) /\ p \in Seq(B)
        /\ InOrder(p \o AsInbox(as)) /\ as.peer = as.written
    BY ConcatProperties DEF AsAll, AsOrdered, m
  <2>5. a \in Seq(Nat) /\ b \in Nat
    <3>1. as.sockets[i].inbox \in Seq(Nat)
      BY <2>3 DEF AsSockets
    <3>2. b \in Nat
      BY <2>0
    <3> DEFINE v == as.sockets[i].inbox
    <3> HIDE DEF b, v
    <3>3. v \in Seq(Nat)
      BY <3>1 DEF v
    <3>4. Append(v, b) \in Seq(Nat)
      BY <3>2, <3>3
    <3> QED
      BY <3>2, <3>4 DEF v
  <2> HIDE DEF a
  <2>6. /\ t \in AsSockets /\ t.worker = as.sockets[i].worker /\ t.work = as.sockets[i].work
        /\ t.reader = as.sockets[i].reader /\ t.inbox = a
    BY <2>3, <2>5 DEF AsSockets
  <2> HIDE DEF t, q, b
  <2>7. /\ DOMAIN as' = AsFields /\ as'["sockets"] = q /\ as'["sent"] = b
        /\ \A f \in AsFields \ {"sockets", "sent"} : as'[f] = as[f]
    BY <1>1, <2>2 DEF AsFields
  <2>8. /\ as'["state"] = as["state"] /\ as'["socketObject"] = as["socketObject"]
        /\ as'["inputThread"] = as["inputThread"] /\ as'["events"] = as["events"]
        /\ as'["got"] = as["got"] /\ as'["rx"] = as["rx"]
        /\ as'["peer"] = as["peer"] /\ as'["written"] = as["written"]
    BY <2>7 DEF AsFields
  <2>9. /\ AsHeld(as') /\ AsInbox(as') = IF i = n THEN a ELSE AsInbox(as)
    BY <1>1, <2>6, <2>7, <2>8, AsSocketSame DEF q
  <2>10. 1..m \subseteq 1..b /\ b = m + 1 /\ b \in Nat
    BY ONLY <2>0 DEF b
  <2>11. as.got \in Seq(1..b) /\ as.rx \in Seq(1..b) /\ AsInbox(as) \in Seq(1..b)
    BY <2>4, <2>10, SeqMonotonic
  <2>12. /\ Append(AsInbox(as), b) \in Seq(1..b)
         /\ InOrder(p \o Append(AsInbox(as), b))
    <3> HIDE DEF p
    <3> QED
      BY <2>0, <2>4, <2>10, NextInOrder
  <2>13. i = n => a = Append(AsInbox(as), b)
    <3>1. n # 0
      BY <1>1, AsAttempt
    <3> QED
      BY <3>1 DEF AsInbox, a
  <2>14. AsInbox(as') \in Seq(1..b) /\ InOrder(p \o AsInbox(as'))
    <3> HIDE DEF p, n
    <3> QED
      BY ONLY <2>4, <2>9, <2>11, <2>12, <2>13
  <2>15. AsOrdered(as')
    BY <2>4, <2>5, <2>7, <2>8, <2>11, <2>14 DEF AsOrdered
  <2> QED
    BY <2>9, <2>15 DEF AsAll
<1> QED
  BY <1>2, <1>3

LEMMA AsErred ==
  ASSUME NEW r, AsShape(r)
  PROVE  /\ AsShape(SetSocketError(r))
         /\ AsUnread(r) => AsUnread(SetSocketError(r))
         /\ AsInbox(SetSocketError(r)) = AsInbox(r)
         /\ SetSocketError(r)["socketObject"] = r["socketObject"]
         /\ SetSocketError(r)["inputThread"] = r["inputThread"]
         /\ \A f \in AsBytes : SetSocketError(r)[f] = r[f]
<1> DEFINE c == SetSocketError(r)
<1>1. DOMAIN c = AsFields /\ \A f \in AsFields \ {"errors"} : c[f] = r[f]
  BY AsErrorSets DEF AsShape
<1> HIDE DEF c
<1>2. /\ c["sockets"] = r["sockets"] /\ c["events"] = r["events"]
      /\ c["socketObject"] = r["socketObject"] /\ c["inputThread"] = r["inputThread"]
      /\ \A f \in AsBytes : c[f] = r[f]
  BY <1>1 DEF AsFields, AsBytes
<1>3. AsShape(c) /\ (AsUnread(r) => AsUnread(c)) /\ AsInbox(c) = AsInbox(r)
  BY <1>1, <1>2 DEF AsShape, AsUnread, AsInbox
<1> QED
  BY <1>2, <1>3 DEF c

\* A signal is taken from the queue: the outcome of the attempt that goes on, or of
\* one that nobody waits for; or the end of the thread that reads.
LEMMA AsTaken ==
  ASSUME AsHeld(as), as.events # <<>>
  PROVE  LET r == [as EXCEPT !.events = Tail(@)]
             i == Head(as.events).socket
             m == Head(as.events).name IN
         /\ AsShape(r) /\ AsInbox(r) = AsInbox(as) /\ \A f \in AsBytes : r[f] = as[f]
         /\ r["socketObject"] = as["socketObject"]
         /\ i \in DOMAIN r.sockets
         /\ m \in {"done", "failed"} /\ i # r.socketObject => AsHeld(r)
         /\ m \in {"done", "failed"} /\ i = r.socketObject =>
              /\ r.state = "Connecting" /\ r.inputThread = 0 /\ i = Len(r.sockets)
              /\ AsSettled(r.sockets[i]) /\ AsQuiet(r.events, i) /\ AsUnread(r)
         /\ m \in {"error", "expected"} => AsUnread(r)
<1> DEFINE e == as.events
           r == [as EXCEPT !.events = Tail(e)]
           i == Head(e).socket
           m == Head(e).name
           n == Len(as.sockets)
           t == Tail(e)
<1>1. AsShape(as) /\ e \in Seq(AsSignals) /\ e # <<>>
  BY DEF AsHeld, AsShape
<1>2. /\ n \in Nat
      /\ as.state # "Unconnected" => n > 0 /\ n \in DOMAIN as.sockets
      /\ as.socketObject # 0 => as.socketObject = n
      /\ \A j \in DOMAIN as.sockets : j # 0
  BY AsAttempt
<1>3. /\ i \in DOMAIN as.sockets /\ t \in Seq(AsSignals)
      /\ \A k \in DOMAIN t : t[k].socket \in DOMAIN as.sockets
      /\ 1 \in DOMAIN e /\ Head(e) = e[1]
  <2>1. \A k \in DOMAIN e : e[k].socket \in DOMAIN as.sockets
    BY <1>1 DEF AsShape
  <2>2. /\ t \in Seq(AsSignals) /\ 1 \in DOMAIN e /\ Head(e) = e[1]
        /\ \A k \in DOMAIN t : k + 1 \in DOMAIN e /\ t[k] = e[k + 1]
    <3> HIDE DEF e
    <3> QED
      BY <1>1
  <2> QED
    BY <2>1, <2>2
<1> HIDE DEF t, e
<1>4. /\ DOMAIN r = AsFields /\ r["events"] = t
      /\ \A f \in AsFields \ {"events"} : r[f] = as[f]
  BY <1>1 DEF AsShape, AsFields, t
<1> HIDE DEF r
<1>5. /\ r["sockets"] = as["sockets"] /\ r["state"] = as["state"]
      /\ r["socketObject"] = as["socketObject"] /\ r["inputThread"] = as["inputThread"]
      /\ \A f \in AsBytes : r[f] = as[f]
  BY <1>4 DEF AsFields, AsBytes
<1>6. AsShape(r) /\ AsInbox(r) = AsInbox(as)
  BY <1>1, <1>3, <1>4, <1>5 DEF AsShape, AsInbox
<1>7. \A j, names :
        /\ AsQuiet(e, j) => AsQuiet(t, j) /\ i # j
        /\ AsOnce(e, j, names) /\ i # j => AsOnce(t, j, names)
        /\ AsOnce(e, j, names) /\ i = j => AsQuiet(t, j) /\ m \in names
        /\ AsCalm(e, j) => AsCalm(t, j)
        /\ AsQuiet(t, j) => AsCalm(t, j)
  BY <1>1, AsHandled, Zenon DEF t, AsQuiet, AsCalm
<1>8. AsCalm(e, i) => m \in {"done", "failed"}
  BY <1>3 DEF AsCalm
<1> HIDE DEF i, m
<1>9. /\ \A j \in DOMAIN as.sockets :
           j # n \/ as.state \in {"Unconnected", "Connecting"} =>
             as.sockets[j].reader # "reading" /\ AsCalm(e, j)
      /\ as.state \in {"Unconnected", "Connecting", "Connected", "Closing"}
      /\ as.state \in {"Unconnected", "Closing"} => as.socketObject = 0
      /\ as.state \in {"Connecting", "Connected"} => as.socketObject = n
      /\ as.inputThread = IF as.state = "Connected" THEN n ELSE 0
      /\ as.state = "Connecting" => AsWaits(as.sockets[n], e, n)
      /\ as.state \in {"Connected", "Closing"} =>
           AsSettled(as.sockets[n]) /\ AsHeard(as.sockets[n], e, n)
  BY DEF AsHeld, e
<1>10. ASSUME m \in {"done", "failed"}, i # as.socketObject
       PROVE  AsHeld(r)
  <2>1. as.state = "Connecting" => AsWaits(as.sockets[n], t, n)
    BY <1>7, <1>9, <1>10, Zenon DEF AsWaits
  <2>2. m \notin {"error", "expected"}
    BY <1>10
  <2>3. as.state \in {"Connected", "Closing"} => AsHeard(as.sockets[n], t, n)
    BY <1>7, <1>9, <2>2, Zenon DEF AsHeard
  <2> QED
    BY <1>2, <1>4, <1>5, <1>6, <1>7, <1>9, <2>1, <2>3 DEF AsHeld
<1>11. ASSUME m \in {"done", "failed"}, i = as.socketObject
       PROVE  /\ as.state = "Connecting" /\ i = n
              /\ AsSettled(as.sockets[i]) /\ AsQuiet(t, i) /\ AsUnread(r)
  <2>1. i = n /\ as.state \in {"Connecting", "Connected"}
    BY <1>2, <1>3, <1>9, <1>11
  <2>2. m \notin {"error", "expected"}
    BY <1>11
  <2>3. as.state # "Connected"
    BY <1>7, <1>9, <2>1, <2>2, Zenon DEF AsHeard
  <2>4. AsSettled(as.sockets[n]) /\ AsQuiet(t, n)
    BY <1>7, <1>9, <2>1, <2>3, Zenon DEF AsWaits
  <2>5. AsUnread(r)
    BY <1>4, <1>5, <1>7, <1>9, <2>1, <2>3 DEF AsUnread
  <2> QED
    BY <2>1, <2>3, <2>4, <2>5
<1>12. ASSUME m \in {"error", "expected"}
       PROVE  AsUnread(r)
  <2>1. i = n /\ as.state \in {"Connected", "Closing"}
    BY <1>3, <1>8, <1>9, <1>12
  <2>2. as.sockets[n].reader # "reading" /\ AsQuiet(t, n)
    BY <1>7, <1>9, <2>1, Zenon DEF AsHeard
  <2> QED
    BY <1>4, <1>5, <1>7, <1>9, <2>1, <2>2 DEF AsUnread
<1>13. /\ m \in {"done", "failed"} /\ i # r.socketObject => AsHeld(r)
       /\ m \in {"done", "failed"} /\ i = r.socketObject =>
            /\ r.state = "Connecting" /\ r.inputThread = 0 /\ i = Len(r.sockets)
            /\ AsSettled(r.sockets[i]) /\ AsQuiet(r.events, i) /\ AsUnread(r)
       /\ i \in DOMAIN r.sockets
  BY <1>3, <1>4, <1>5, <1>9, <1>10, <1>11 DEF i
<1> QED
  BY <1>5, <1>6, <1>12, <1>13 DEF r, i, m, e

\* The connection is given up: its worker is to close it.
LEMMA AsGivenUp ==
  ASSUME NEW r, AsShape(r), AsUnread(r)
  PROVE  LET f == Forget(Broadcast(r, "close")) IN
         /\ AsShape(f) /\ AsUnread(f) /\ f.socketObject = 0 /\ f.inputThread = 0
         /\ AsInbox(f) = AsInbox(r) /\ \A g \in AsBytes : f[g] = r[g]
<1> DEFINE f == Forget(Broadcast(r, "close"))
<1>1. /\ AsShape(f) /\ AsCalled(f["sockets"], r["sockets"], "close")
      /\ f["socketObject"] = 0 /\ f["inputThread"] = 0
      /\ \A g \in AsFields \ {"sockets", "socketObject", "inputThread"} : f[g] = r[g]
      /\ AsInbox(f) = AsInbox(r)
  BY AsForgotten
<1> HIDE DEF f
<1>2. f["events"] = r["events"] /\ \A g \in AsBytes : f[g] = r[g]
  BY <1>1 DEF AsFields, AsBytes
<1>3. AsUnread(f)
  BY <1>1, <1>2 DEF AsUnread, AsCalled
<1> QED
  BY <1>1, <1>2, <1>3 DEF f

LEMMA AsEventHolds ==
  ASSUME AsAll, AsEvent
  PROVE  AsAll'
<1> DEFINE r == [as EXCEPT !.events = Tail(@)]
           e == Head(as.events)
           i == e.socket
           m == e.name
<1>1. as' \in Handlers(r, e) /\ AsHeld(as) /\ as.events # <<>> /\ AsOrdered(as)
  BY Zenon DEF AsEvent, AsAll
<1>2. /\ AsShape(r) /\ AsInbox(r) = AsInbox(as) /\ \A f \in AsBytes : r[f] = as[f]
      /\ i \in DOMAIN r.sockets
      /\ m \in {"done", "failed"} /\ i # r.socketObject => AsHeld(r)
      /\ m \in {"done", "failed"} /\ i = r.socketObject =>
           /\ r.state = "Connecting" /\ r.inputThread = 0 /\ i = Len(r.sockets)
           /\ AsSettled(r.sockets[i]) /\ AsQuiet(r.events, i) /\ AsUnread(r)
      /\ m \in {"error", "expected"} => AsUnread(r)
      /\ r["socketObject"] = as["socketObject"]
  BY <1>1, AsTaken, Zenon
<1>3. as.socketObject = 0 => as.state # "Connected" /\ as.inputThread = 0
  BY <1>1, AsAttempt
<1>4. AsOrdered(r) /\ r["inputThread"] = as["inputThread"]
  <2>1. r["inputThread"] = as["inputThread"]
    BY <1>1 DEF AsHeld, AsShape, AsFields
  <2> HIDE DEF r
  <2> QED
    BY <1>1, <1>2, <2>1, AsSameBytes
<1> HIDE DEF r, i, m
<1>5. \/ m = "done" /\ \E ok \in BOOLEAN : as' = SocketConnectSuccess(r, i, ok)
      \/ m = "failed" /\ \E fallback \in BOOLEAN : as' = ConnectFailed(r, i, fallback)
      \/ m \in {"error", "expected"}
           /\ \E expected \in BOOLEAN : as' = InputThreadError(r, i, expected)
  <2>1. e \in AsSignals
    <3> DEFINE v == as.events
    <3>1. v \in Seq(AsSignals) /\ v # <<>>
      BY <1>1 DEF AsHeld, AsShape
    <3> HIDE DEF v
    <3>2. Head(v) \in AsSignals
      BY <3>1
    <3> QED
      BY <3>2 DEF v
  <2>2. m \in {"done", "failed", "error", "expected"}
    BY <2>1 DEF AsSignals, m
  <2> HIDE DEF e
  <2>3. m = "done" => \E ok \in BOOLEAN : as' = SocketConnectSuccess(r, i, ok)
    BY <1>1 DEF Handlers, i, m
  <2>4. m = "failed" => as' = ConnectFailed(r, i, AsMay("fallback"))
    BY <1>1 DEF Handlers, i, m
  <2>5. m \in {"error", "expected"} => as' = InputThreadError(r, i, m = "expected")
    BY <1>1 DEF Handlers, i, m
  <2>6. AsMay("fallback") \in BOOLEAN /\ (m = "expected") \in BOOLEAN
    BY DEF AsMay
  <2> QED
    BY <2>2, <2>3, <2>4, <2>5, <2>6
<1>6. CASE m \in {"done", "failed"} /\ i # r.socketObject
  <2>1. as' = r
    BY <1>5, <1>6 DEF SocketConnectSuccess, ConnectFailed
  <2> QED
    BY <1>2, <1>4, <1>6, <2>1 DEF AsAll
<1>7. ASSUME NEW c, AsHeld(c), \A f \in AsBytes : c[f] = r[f],
             AsInbox(c) = AsInbox(r), as' = c
      PROVE  AsAll'
  BY <1>4, <1>7, AsSameBytes DEF AsAll
<1>8. CASE m = "done" /\ i = r.socketObject
  <2>1. PICK ok \in BOOLEAN : as' = SocketConnectSuccess(r, i, ok)
    BY <1>5, <1>8
  <2>2. CASE ok
    <3> DEFINE c == SetSocketState(StartReader(r, i), "Connected")
    <3>1. as' = c
      BY <1>8, <2>1, <2>2 DEF SocketConnectSuccess
    <3>2. AsHeld(c) /\ AsInbox(c) = AsInbox(r) /\ \A f \in AsBytes : c[f] = r[f]
      BY <1>2, <1>8, AsReaderStarted DEF AsUnread
    <3> HIDE DEF c
    <3> QED
      BY <1>7, <3>1, <3>2
  <2>3. CASE ~ok
    <3> DEFINE g == Forget(Broadcast(r, "close"))
               h == SetSocketError(g)
               c == Unconnect(h)
    <3>1. as' = c
      BY <1>8, <2>1, <2>3 DEF SocketConnectSuccess
    <3>2. /\ AsShape(g) /\ AsUnread(g) /\ g.socketObject = 0 /\ g.inputThread = 0
          /\ AsInbox(g) = AsInbox(r) /\ \A f \in AsBytes : g[f] = r[f]
      BY <1>2, <1>8, AsGivenUp
    <3> HIDE DEF g
    <3>3. /\ AsShape(h) /\ AsUnread(h) /\ h.socketObject = 0 /\ h.inputThread = 0
          /\ AsInbox(h) = AsInbox(g) /\ \A f \in AsBytes : h[f] = g[f]
      BY <3>2, AsErred
    <3> HIDE DEF h
    <3>4. AsHeld(c) /\ AsInbox(c) = AsInbox(h) /\ \A f \in AsBytes : c[f] = h[f]
      BY <3>3, AsUnconnected
    <3> HIDE DEF c
    <3> QED
      BY <1>7, <3>1, <3>2, <3>3, <3>4
  <2> QED
    BY <2>2, <2>3
<1>9. CASE m = "failed" /\ i = r.socketObject
  <2>1. PICK fallback \in BOOLEAN : as' = ConnectFailed(r, i, fallback)
    BY <1>5, <1>9
  <2>2. CASE fallback /\ ~r.sockets[i].fallback
    <3>1. as' = StartWorker(r, TRUE)
      BY <1>9, <2>1, <2>2 DEF ConnectFailed
    <3>2. /\ AsHeld(as') /\ AsInbox(as') = <<>> /\ \A f \in AsBytes : as'[f] = r[f]
      BY <1>2, <1>9, <3>1, AsStarted
    <3>3. /\ as'["sent"] = r["sent"] /\ as'["got"] = r["got"] /\ as'["rx"] = r["rx"]
          /\ as'["peer"] = r["peer"] /\ as'["written"] = r["written"]
      BY <3>2 DEF AsBytes
    <3>4. AsOrdered(as')
      BY <1>4, <3>2, <3>3, AsOrderedAnew
    <3> QED
      BY <3>2, <3>4 DEF AsAll
  <2>3. CASE ~(fallback /\ ~r.sockets[i].fallback)
    <3> DEFINE g == [r EXCEPT !.socketObject = 0]
               h == SetSocketError(g)
               c == Unconnect(h)
    <3>1. as' = c
      BY <1>9, <2>1, <2>3 DEF ConnectFailed
    <3>2. /\ DOMAIN g = AsFields /\ g["socketObject"] = 0
          /\ \A f \in AsFields \ {"socketObject"} : g[f] = r[f]
      BY <1>2 DEF AsShape, AsFields
    <3> HIDE DEF g
    <3>3. /\ g["sockets"] = r["sockets"] /\ g["events"] = r["events"]
          /\ g["inputThread"] = r["inputThread"]
          /\ \A f \in AsBytes : g[f] = r[f]
      BY <3>2 DEF AsFields, AsBytes
    <3>4. /\ AsShape(g) /\ AsUnread(g) /\ g.inputThread = 0
          /\ AsInbox(g) = AsInbox(r)
      BY <1>2, <1>9, <3>2, <3>3 DEF AsShape, AsUnread, AsInbox
    <3>5. /\ AsShape(h) /\ AsUnread(h) /\ h.socketObject = 0 /\ h.inputThread = 0
          /\ AsInbox(h) = AsInbox(g) /\ \A f \in AsBytes : h[f] = g[f]
      BY <3>2, <3>4, AsErred
    <3> HIDE DEF h
    <3>6. AsHeld(c) /\ AsInbox(c) = AsInbox(h) /\ \A f \in AsBytes : c[f] = h[f]
      BY <3>5, AsUnconnected
    <3> HIDE DEF c
    <3> QED
      BY <1>7, <3>1, <3>3, <3>4, <3>5, <3>6
  <2> QED
    BY <2>2, <2>3
<1>10. CASE m \in {"error", "expected"}
  <2>1. PICK expected \in BOOLEAN : as' = InputThreadError(r, i, expected)
    BY <1>5, <1>10
  <2>2. PICK d : /\ d = IF expected THEN r ELSE SetSocketError(r)
                 /\ as' = Unconnect(IF d.socketObject = 0 THEN d
                                    ELSE Forget(Broadcast(d, "close")))
    BY <2>1 DEF InputThreadError
  <2>3. /\ AsShape(d) /\ AsUnread(d) /\ d.socketObject = r.socketObject
        /\ d.inputThread = r.inputThread
        /\ AsInbox(d) = AsInbox(r) /\ \A f \in AsBytes : d[f] = r[f]
    <3>1. AsShape(r) /\ AsUnread(r)
      BY <1>2, <1>10
    <3>2. CASE expected
      BY <2>2, <3>1, <3>2
    <3>3. CASE ~expected
      BY <2>2, <3>1, <3>3, AsErred
    <3> QED
      BY <3>2, <3>3
  <2> DEFINE g == Forget(Broadcast(d, "close"))
  <2>4. /\ AsShape(g) /\ AsUnread(g) /\ g.socketObject = 0 /\ g.inputThread = 0
        /\ AsInbox(g) = AsInbox(d) /\ \A f \in AsBytes : g[f] = d[f]
    BY <2>3, AsGivenUp
  <2> HIDE DEF g
  <2>5. PICK k : /\ k = IF d.socketObject = 0 THEN d ELSE g
                 /\ as' = Unconnect(k)
    BY <2>2 DEF g
  <2>6. /\ AsShape(k) /\ AsUnread(k) /\ k.socketObject = 0 /\ k.inputThread = 0
        /\ AsInbox(k) = AsInbox(r) /\ \A f \in AsBytes : k[f] = r[f]
    BY <1>2, <1>3, <1>4, <2>3, <2>4, <2>5
  <2> DEFINE c == Unconnect(k)
  <2>7. AsHeld(c) /\ AsInbox(c) = AsInbox(k) /\ \A f \in AsBytes : c[f] = k[f]
    BY <2>6, AsUnconnected
  <2>8. as' = c
    BY <2>5
  <2> HIDE DEF c
  <2> QED
    BY <1>7, <2>6, <2>7, <2>8
<1> QED
  BY <1>5, <1>6, <1>8, <1>9, <1>10

\* A thread of one socket takes a step, and may emit a signal.
LEMMA AsStepped ==
  ASSUME AsHeld(as), NEW i \in DOMAIN as.sockets, NEW t \in AsSockets,
         NEW m \in {"done", "failed", "error", "expected"},
         NEW f, f \in {as.events, Append(as.events, [name |-> m, socket |-> i])},
         t.reader # "reading" \/ as.sockets[i].reader = "reading",
         t.inbox = as.sockets[i].inbox,
         as.sockets[i].reader # "reading" =>
           f = as.events \/ m \in {"done", "failed"},
         as.sockets[i].reader # "reading" /\ AsWaits(as.sockets[i], as.events, i) =>
           AsWaits(t, f, i),
         AsSettled(as.sockets[i]) /\ AsHeard(as.sockets[i], as.events, i) =>
           AsSettled(t) /\ AsHeard(t, f, i),
         as' = [as EXCEPT !.sockets = [as.sockets EXCEPT ![i] = t], !.events = f]
  PROVE  AsHeld(as') /\ AsInbox(as') = AsInbox(as) /\ \A g \in AsBytes : as'[g] = as[g]
<1> DEFINE p == as.sockets
           q == [p EXCEPT ![i] = t]
           n == Len(p)
           e == as.events
<1>1. p \in Seq(AsSockets) /\ e \in Seq(AsSignals) /\ AsShape(as) /\ DOMAIN as = AsFields
  BY DEF AsHeld, AsShape
<1>2. /\ n \in Nat /\ n # 0 /\ n \in DOMAIN p /\ i \in Nat
      /\ as.state # "Unconnected" => n > 0
  BY AsAttempt
<1>3. as' = [as EXCEPT !.sockets = q, !.events = f]
  OBVIOUS
<1>4. /\ q \in Seq(AsSockets) /\ Len(q) = n /\ DOMAIN q = DOMAIN p
      /\ q[i] = t /\ \A j \in DOMAIN p \ {i} : q[j] = p[j]
  BY <1>1, AsUpdated
<1>5. \A k \in DOMAIN e : e[k].socket \in DOMAIN p
  BY <1>1 DEF AsShape
<1>6. /\ p[i].reader # "reading" => f = e \/ m \in {"done", "failed"}
      /\ p[i].reader # "reading" /\ AsWaits(p[i], e, i) => AsWaits(t, f, i)
      /\ AsSettled(p[i]) /\ AsHeard(p[i], e, i) => AsSettled(t) /\ AsHeard(t, f, i)
      /\ t.reader # "reading" \/ p[i].reader = "reading"
      /\ t.inbox = p[i].inbox
      /\ f \in {e, Append(e, [name |-> m, socket |-> i])}
  OBVIOUS
<1>7. f \in Seq(AsSignals) /\ \A k \in DOMAIN f : f[k].socket \in DOMAIN p
  <2>1. [name |-> m, socket |-> i] \in AsSignals /\ i \in DOMAIN p
    BY <1>2 DEF AsSignals
  <2> DEFINE a == [name |-> m, socket |-> i]
  <2> HIDE DEF p, e
  <2>2. a.socket = i
    OBVIOUS
  <2> HIDE DEF a
  <2>3. CASE f = Append(e, a)
    <3>1. /\ Len(e) \in Nat /\ DOMAIN e = 1..Len(e) /\ DOMAIN f = 1..(Len(e) + 1)
          /\ f \in Seq(AsSignals) /\ f[Len(e) + 1] = a
          /\ \A k \in 1..Len(e) : f[k] = e[k]
      BY ONLY <1>1, <2>1, <2>3 DEF a
    <3> QED
      BY ONLY <1>5, <2>1, <2>2, <3>1
  <2>4. CASE f = e
    BY <1>1, <1>5, <2>4
  <2> QED
    BY <1>6, <2>3, <2>4 DEF a
<1>8. \A j, names :
        /\ AsQuiet(e, j) /\ j # i => AsQuiet(f, j)
        /\ AsOnce(e, j, names) /\ j # i => AsOnce(f, j, names)
        /\ AsCalm(e, j) /\ (j # i \/ p[i].reader # "reading") => AsCalm(f, j)
  <2> HIDE DEF e, p
  <2>1. CASE f = e
    BY <2>1
  <2>2. CASE f = Append(e, [name |-> m, socket |-> i])
    BY <1>1, <1>6, <2>2, AsEmitted, Zenon
  <2> QED
    BY <1>6, <2>1, <2>2
<1>9. /\ \A j \in DOMAIN p :
           j # n \/ as.state \in {"Unconnected", "Connecting"} =>
             p[j].reader # "reading" /\ AsCalm(e, j)
      /\ as.state \in {"Unconnected", "Connecting", "Connected", "Closing"}
      /\ as.state \in {"Unconnected", "Closing"} => as.socketObject = 0
      /\ as.state \in {"Connecting", "Connected"} => as.socketObject = n
      /\ as.inputThread = IF as.state = "Connected" THEN n ELSE 0
      /\ as.state = "Connecting" => AsWaits(p[n], e, n)
      /\ as.state \in {"Connected", "Closing"} => AsSettled(p[n]) /\ AsHeard(p[n], e, n)
  BY DEF AsHeld
<1> HIDE DEF q
<1>10. /\ DOMAIN as' = AsFields /\ as'["sockets"] = q /\ as'["events"] = f
       /\ \A g \in AsFields \ {"sockets", "events"} : as'[g] = as[g]
  BY <1>1, <1>3 DEF AsFields
<1>11. /\ as'["state"] = as["state"] /\ as'["socketObject"] = as["socketObject"]
       /\ as'["inputThread"] = as["inputThread"]
       /\ \A g \in AsBytes : as'[g] = as[g]
  BY <1>10 DEF AsFields, AsBytes
<1>12. AsShape(as')
  BY <1>4, <1>7, <1>10 DEF AsShape
<1>13. \A j \in DOMAIN p :
         j # n \/ as.state \in {"Unconnected", "Connecting"} =>
           q[j].reader # "reading" /\ AsCalm(f, j)
  <2> HIDE DEF p, e, n
  <2> QED
    BY <1>4, <1>6, <1>8, <1>9
<1>14. as.state = "Connecting" => AsWaits(q[n], f, n)
  <2> HIDE DEF p, e, n
  <2>1. ASSUME as.state = "Connecting"
        PROVE  AsWaits(q[n], f, n)
    <3>1. n \in DOMAIN p /\ p[n].reader # "reading" /\ AsWaits(p[n], e, n)
      BY <1>2, <1>9, <2>1
    <3>2. CASE n = i
      BY <1>4, <1>6, <3>1, <3>2
    <3>3. CASE n # i
      <4>1. q[n] = p[n]
        BY <1>4, <3>1, <3>3
      <4> QED
        BY <1>8, <3>1, <3>3, <4>1, Zenon DEF AsWaits
    <3> QED
      BY <3>2, <3>3
  <2> QED
    BY <2>1
<1>15. as.state \in {"Connected", "Closing"} => AsSettled(q[n]) /\ AsHeard(q[n], f, n)
  <2> HIDE DEF p, e, n
  <2>1. ASSUME as.state \in {"Connected", "Closing"}
        PROVE  AsSettled(q[n]) /\ AsHeard(q[n], f, n)
    <3>1. n \in DOMAIN p /\ AsSettled(p[n]) /\ AsHeard(p[n], e, n)
      BY <1>2, <1>9, <2>1
    <3>2. CASE n = i
      BY <1>4, <1>6, <3>1, <3>2
    <3>3. CASE n # i
      <4>1. q[n] = p[n]
        BY <1>4, <3>1, <3>3
      <4> QED
        BY <1>8, <3>1, <3>3, <4>1, Zenon DEF AsHeard
    <3> QED
      BY <3>2, <3>3
  <2> QED
    BY <2>1
<1>16. AsHeld(as')
  BY ONLY <1>2, <1>4, <1>9, <1>10, <1>11, <1>12, <1>13, <1>14, <1>15 DEF AsHeld
<1>17. AsInbox(as') = AsInbox(as)
  <2>1. AsInbox(as') = IF Len(q) = 0 THEN <<>> ELSE q[Len(q)].inbox
    <3>1. as'.sockets = q
      BY <1>10
    <3> QED
      BY ONLY <3>1 DEF AsInbox
  <2>2. AsInbox(as) = IF n = 0 THEN <<>> ELSE p[n].inbox
    BY DEF AsInbox
  <2> HIDE DEF p, n
  <2> QED
    BY <1>2, <1>4, <1>6, <2>1, <2>2
<1> QED
  BY <1>11, <1>16, <1>17

\* The call that a worker takes from its queue.
LEMMA AsCallTaken ==
  ASSUME NEW s \in AsSockets, s.work # <<>>
  PROVE  /\ Tail(s.work) \in Seq(AsCalls) /\ Head(s.work) \in AsCalls
         /\ s.work = <<"connect">> => Tail(s.work) = <<>> /\ Head(s.work) = "connect"
         /\ AsSettled(s) => /\ Head(s.work) # "connect"
                            /\ \A k \in DOMAIN Tail(s.work) : Tail(s.work)[k] # "connect"
<1> DEFINE w == s.work
<1>1. w \in Seq(AsCalls) /\ w # <<>>
  BY DEF AsSockets
<1>2. AsSettled(s) => \A k \in DOMAIN w : w[k] # "connect"
  BY DEF AsSettled
<1> HIDE DEF w
<1>3. /\ Tail(w) \in Seq(AsCalls) /\ Head(w) \in AsCalls /\ Head(w) = w[1]
      /\ 1 \in DOMAIN w
      /\ \A k \in DOMAIN Tail(w) : k + 1 \in DOMAIN w /\ Tail(w)[k] = w[k + 1]
  BY <1>1
<1>4. w = <<"connect">> => Tail(w) = <<>> /\ Head(w) = "connect"
  OBVIOUS
<1> QED
  BY <1>2, <1>3, <1>4 DEF w

LEMMA AsWorkerHolds ==
  ASSUME AsAll, NEW i \in DOMAIN as.sockets, AsWorker(i)
  PROVE  AsAll'
<1> DEFINE s == as.sockets[i]
           w == Tail(s.work)
           e == as.events
<1>1. /\ AsHeld(as) /\ AsOrdered(as) /\ s \in AsSockets /\ e \in Seq(AsSignals)
      /\ s.worker \in {"idle", "quit"} /\ s.work # <<>>
  BY AsOneOf DEF AsAll, AsHeld, AsShape, AsWorker
<1>2. /\ w \in Seq(AsCalls) /\ Head(s.work) \in {"connect", "close"}
      /\ s.work = <<"connect">> => w = <<>> /\ Head(s.work) = "connect"
      /\ AsSettled(s) => /\ Head(s.work) # "connect"
                         /\ \A k \in DOMAIN w : w[k] # "connect"
  <2> HIDE DEF s
  <2> QED
    BY <1>1, AsCallTaken DEF AsCalls
<1>4. ASSUME AsHeld(as'), AsInbox(as') = AsInbox(as), \A g \in AsBytes : as'[g] = as[g]
      PROVE  AsAll'
  BY <1>1, <1>4, AsSameBytes DEF AsAll
<1>5. CASE Head(s.work) = "connect" /\ s.link = "new"
  <2> DEFINE t == [s EXCEPT !.link = "connecting", !.worker = "busy", !.work = w]
  <2>1. as' = [as EXCEPT !.sockets = [as.sockets EXCEPT ![i] = t], !.events = e]
    <3>1. as' = ConnectSocket([as EXCEPT !.sockets[i].work = Tail(@)], i)
      BY <1>5 DEF AsWorker
    <3> QED
      BY <1>1, <1>5, <3>1, ZenonT(60) DEF ConnectSocket, AsHeld, AsShape, AsFields, AsSockets
  <2>2. /\ t \in AsSockets /\ t.worker = "busy" /\ t.work = w /\ t.reader = s.reader
        /\ t.inbox = s.inbox
    <3> HIDE DEF s, w
    <3> QED
      BY <1>1, <1>2 DEF AsSockets
  <2> HIDE DEF t
  <2>3. AsWaits(s, e, i) => AsWaits(t, e, i)
    BY <1>1, <1>2, <1>5, <2>2, Zenon DEF AsWaits
  <2>4. ~AsSettled(s)
    BY <1>2, <1>5
  <2>5. AsHeld(as') /\ AsInbox(as') = AsInbox(as) /\ \A g \in AsBytes : as'[g] = as[g]
    BY <1>1, <2>1, <2>2, <2>3, <2>4, AsStepped
  <2> QED
    BY <1>4, <2>5
<1>6. CASE Head(s.work) = "connect" /\ s.link # "new"
  <2> DEFINE t == [s EXCEPT !.worker = "quit", !.work = w]
             f == Append(e, [name |-> "failed", socket |-> i])
  <2>1. as' = [as EXCEPT !.sockets = [as.sockets EXCEPT ![i] = t], !.events = f]
    <3> DEFINE r == [as EXCEPT !.sockets[i].work = Tail(@)]
               q == [as.sockets EXCEPT ![i] = t]
               c == [as EXCEPT !.sockets = q]
    <3>1. as' = ConnectSocket(r, i)
      BY <1>6 DEF AsWorker
    <3>2. r.sockets[i].link # "new" /\ [r EXCEPT !.sockets[i].worker = "quit"] = c
      BY <1>1, <1>6, ZenonT(60) DEF AsHeld, AsShape, AsFields, AsSockets
    <3>3. as' = Emit([r EXCEPT !.sockets[i].worker = "quit"], "failed", i)
      BY <3>1, <3>2, Zenon DEF ConnectSocket
    <3> HIDE DEF r
    <3>4. as' = Emit(c, "failed", i)
      BY <3>2, <3>3
    <3> HIDE DEF q
    <3>5. DOMAIN as = AsFields /\ c.events = e
      BY <1>1 DEF AsHeld, AsShape, AsFields
    <3>6. as' = [as EXCEPT !.sockets = q, !.events = f]
      BY <3>4, <3>5 DEF Emit, AsFields
    <3> QED
      BY <3>6 DEF q
  <2>2. /\ t \in AsSockets /\ t.worker = "quit" /\ t.work = w /\ t.reader = s.reader
        /\ t.inbox = s.inbox
    <3> HIDE DEF s, w
    <3> QED
      BY <1>1, <1>2 DEF AsSockets
  <2> HIDE DEF t
  <2>3. AsQuiet(e, i) => AsOnce(f, i, {"done", "failed"})
    BY <1>1, AsEmitted
  <2>4. AsWaits(s, e, i) => w = <<>> /\ AsQuiet(e, i)
    BY <1>1, <1>2, <1>6, Zenon DEF AsWaits
  <2>5. w = <<>> => AsSettled(t)
    <3> HIDE DEF w
    <3>1. w = <<>> => \A k \in DOMAIN w : w[k] # "connect"
      OBVIOUS
    <3>2. t.worker # "busy" /\ t.work = w
      BY <2>2
    <3> QED
      BY <3>1, <3>2, Zenon DEF AsSettled
  <2>6. AsWaits(s, e, i) => AsWaits(t, f, i)
    BY <2>3, <2>4, <2>5, Zenon DEF AsWaits
  <2>7. ~AsSettled(s)
    BY <1>2, <1>6
  <2>8. AsHeld(as') /\ AsInbox(as') = AsInbox(as) /\ \A g \in AsBytes : as'[g] = as[g]
    BY <1>1, <2>1, <2>2, <2>6, <2>7, AsStepped
  <2> QED
    BY <1>4, <2>8
<1>7. CASE Head(s.work) # "connect"
  <2> DEFINE t == [s EXCEPT !.link = "closed", !.worker = "quit", !.work = w]
  <2>1. as' = [as EXCEPT !.sockets = [as.sockets EXCEPT ![i] = t], !.events = e]
    <3>1. as' = CloseSocketOf([as EXCEPT !.sockets[i].work = Tail(@)], i)
      BY <1>7 DEF AsWorker
    <3> QED
      BY <1>1, <1>7, <3>1 DEF CloseSocketOf, AsHeld, AsShape, AsFields, AsSockets
  <2>2. /\ t \in AsSockets /\ t.worker = "quit" /\ t.work = w /\ t.reader = s.reader
        /\ t.inbox = s.inbox
    <3> HIDE DEF s, w
    <3> QED
      BY <1>1, <1>2 DEF AsSockets
  <2> HIDE DEF t
  <2>3. AsSettled(s) => AsSettled(t)
    BY <1>2, <2>2 DEF AsSettled
  <2>4. AsWaits(s, e, i) => AsWaits(t, e, i)
    BY <1>1, <1>2, <1>7, <2>3, Zenon DEF AsWaits
  <2>5. AsHeard(s, e, i) => AsHeard(t, e, i)
    BY <2>2, Zenon DEF AsHeard
  <2>6. AsHeld(as') /\ AsInbox(as') = AsInbox(as) /\ \A g \in AsBytes : as'[g] = as[g]
    BY <1>1, <2>1, <2>2, <2>3, <2>4, <2>5, AsStepped
  <2> QED
    BY <1>4, <2>6
<1> QED
  BY <1>5, <1>6, <1>7

LEMMA AsWorkerEndsHolds ==
  ASSUME AsAll, NEW i \in DOMAIN as.sockets, AsWorkerEnds(i)
  PROVE  AsAll'
<1> DEFINE s == as.sockets[i]
           e == as.events
           t == [s EXCEPT !.worker = "gone", !.work = <<>>]
<1>1. /\ AsHeld(as) /\ AsOrdered(as) /\ s \in AsSockets /\ s.worker = "quit"
  BY AsOneOf DEF AsAll, AsHeld, AsShape, AsWorkerEnds
<1>2. as' = [as EXCEPT !.sockets = [as.sockets EXCEPT ![i] = t], !.events = e]
  BY <1>1 DEF AsWorkerEnds, AsHeld, AsShape, AsFields, AsSockets
<1>3. /\ t \in AsSockets /\ t.worker = "gone" /\ t.work = <<>> /\ t.reader = s.reader
      /\ t.inbox = s.inbox
  <2>1. <<>> \in Seq(AsCalls)
    OBVIOUS
  <2> HIDE DEF s
  <2> QED
    BY <1>1, <2>1 DEF AsSockets
<1> HIDE DEF t
<1>4. AsSettled(t)
  <2>1. \A k \in DOMAIN <<>> : <<>>[k] # "connect"
    OBVIOUS
  <2>2. t.worker # "busy" /\ t.work = <<>>
    BY <1>3
  <2> QED
    BY <2>1, <2>2, Zenon DEF AsSettled
<1>5. AsWaits(s, e, i) => AsWaits(t, e, i)
  <2>1. s.worker # "idle" /\ s.worker # "busy"
    BY <1>1
  <2> QED
    BY <1>4, <2>1, Zenon DEF AsWaits
<1>6. AsHeard(s, e, i) => AsHeard(t, e, i)
  BY <1>3, Zenon DEF AsHeard
<1>7. AsHeld(as') /\ AsInbox(as') = AsInbox(as) /\ \A g \in AsBytes : as'[g] = as[g]
  BY <1>1, <1>2, <1>3, <1>4, <1>5, <1>6, AsStepped
<1> QED
  BY <1>1, <1>7, AsSameBytes DEF AsAll

\* connect() returns: with a connection, or with none.
LEMMA AsConnectReturnsHolds ==
  ASSUME AsAll, NEW i \in DOMAIN as.sockets, AsConnectReturns(i)
  PROVE  AsAll'
<1> DEFINE s == as.sockets[i]
           e == as.events
<1>1. /\ AsHeld(as) /\ AsOrdered(as) /\ s \in AsSockets /\ s.worker = "busy"
      /\ e \in Seq(AsSignals)
  BY AsOneOf DEF AsAll, AsHeld, AsShape, AsConnectReturns
<1>2. PICK k \in {"idle", "quit"}, l \in {"up", "failed"}, m \in {"done", "failed"} :
        as' = Emit([as EXCEPT !.sockets[i].worker = k, !.sockets[i].link = l], m, i)
  BY DEF AsConnectReturns
<1> DEFINE t == [s EXCEPT !.worker = k, !.link = l]
           f == Append(e, [name |-> m, socket |-> i])
           q == [as.sockets EXCEPT ![i] = t]
           c == [as EXCEPT !.sockets = q]
<1>3. as' = [as EXCEPT !.sockets = q, !.events = f]
  <2>1. as' = Emit(c, m, i)
    BY <1>1, <1>2 DEF AsHeld, AsShape, AsFields, AsSockets
  <2> HIDE DEF q
  <2>2. DOMAIN as = AsFields /\ c.events = e
    BY <1>1 DEF AsHeld, AsShape, AsFields
  <2> QED
    BY <2>1, <2>2 DEF Emit, AsFields
<1>4. /\ t \in AsSockets /\ t.worker # "busy" /\ t.work = s.work /\ t.reader = s.reader
      /\ t.inbox = s.inbox
  <2> HIDE DEF s
  <2> QED
    BY <1>1 DEF AsSockets
<1> HIDE DEF t
<1>5. AsWaits(s, e, i) => AsWaits(t, f, i)
  <2>1. AsWaits(s, e, i) => s.work = <<>> /\ AsQuiet(e, i)
    <3>1. s.worker # "idle" /\ s.worker = "busy"
      BY <1>1
    <3> QED
      BY <3>1, Zenon DEF AsWaits, AsSettled
  <2>2. AsQuiet(e, i) => AsOnce(f, i, {"done", "failed"})
    BY <1>1, AsEmitted
  <2>3. s.work = <<>> => AsSettled(t)
    <3>1. \A h \in DOMAIN <<>> : <<>>[h] # "connect"
      OBVIOUS
    <3>2. t.worker # "busy" /\ t.work = s.work
      BY <1>4
    <3> QED
      BY <3>1, <3>2, Zenon DEF AsSettled
  <2> QED
    BY <2>1, <2>2, <2>3, Zenon DEF AsWaits
<1>6. ~AsSettled(s)
  BY <1>1 DEF AsSettled
<1>7. AsHeld(as') /\ AsInbox(as') = AsInbox(as) /\ \A g \in AsBytes : as'[g] = as[g]
  BY <1>1, <1>3, <1>4, <1>5, <1>6, AsStepped
<1> QED
  BY <1>1, <1>7, AsSameBytes DEF AsAll

\* The reading thread takes what has arrived, or tells of its end.
LEMMA AsReadsHolds ==
  ASSUME AsAll, NEW i \in DOMAIN as.sockets, AsReads(i)
  PROVE  AsAll'
<1> DEFINE s == as.sockets[i]
           e == as.events
           n == Len(as.sockets)
<1>1. /\ AsHeld(as) /\ AsOrdered(as) /\ s \in AsSockets /\ s.reader = "reading"
      /\ e \in Seq(AsSignals) /\ i = n /\ DOMAIN as = AsFields
  BY AsOneOf DEF AsAll, AsHeld, AsShape, AsReads
<1>2. CASE \E m \in {"error", "expected"} :
             as' = Emit([as EXCEPT !.sockets[i].reader = "done"], m, i)
  <2>1. PICK m \in {"error", "expected"} :
          as' = Emit([as EXCEPT !.sockets[i].reader = "done"], m, i)
    BY <1>2
  <2> DEFINE t == [s EXCEPT !.reader = "done"]
             f == Append(e, [name |-> m, socket |-> i])
             q == [as.sockets EXCEPT ![i] = t]
             c == [as EXCEPT !.sockets = q]
  <2>2. as' = [as EXCEPT !.sockets = q, !.events = f]
    <3>1. as' = Emit(c, m, i)
      BY <1>1, <2>1 DEF AsHeld, AsShape, AsFields, AsSockets
    <3> HIDE DEF q
    <3>2. DOMAIN as = AsFields /\ c.events = e
      BY <1>1 DEF AsFields
    <3> QED
      BY <3>1, <3>2 DEF Emit, AsFields
  <2>3. /\ t \in AsSockets /\ t.worker = s.worker /\ t.work = s.work /\ t.reader = "done"
        /\ t.inbox = s.inbox
    <3> HIDE DEF s
    <3> QED
      BY <1>1 DEF AsSockets
  <2> HIDE DEF t
  <2>4. AsHeard(s, e, i) => AsQuiet(e, i)
    BY <1>1, Zenon DEF AsHeard
  <2>5. AsQuiet(e, i) => AsOnce(f, i, {"error", "expected"})
    BY <1>1, AsEmitted
  <2>6. AsHeard(s, e, i) => AsHeard(t, f, i)
    <3>1. t.reader # "reading"
      BY <2>3
    <3> QED
      BY <2>4, <2>5, <3>1, Zenon DEF AsHeard
  <2>7. AsSettled(s) => AsSettled(t)
    BY <2>3, Zenon DEF AsSettled
  <2>8. AsHeld(as') /\ AsInbox(as') = AsInbox(as) /\ \A g \in AsBytes : as'[g] = as[g]
    <3>1. as.sockets[i].reader = "reading" /\ t.reader # "reading" /\ AsHeld(as)
      BY <1>1, <2>3
    <3>2. f \in {as.events, Append(as.events, [name |-> m, socket |-> i])}
      OBVIOUS
    <3>3. m \in {"done", "failed", "error", "expected"}
      BY <2>1
    <3> QED
      BY <2>2, <2>3, <2>6, <2>7, <3>1, <3>2, <3>3, AsStepped
  <2> QED
    BY <1>1, <2>8, AsSameBytes DEF AsAll
<1>3. CASE as' = [as EXCEPT !.rx = @ \o as.sockets[i].inbox, !.sockets[i].inbox = <<>>]
  <2> DEFINE t == [s EXCEPT !.inbox = <<>>]
             q == [as["sockets"] EXCEPT ![i] = t]
             x == as.rx \o s.inbox
             b == s.inbox
             B == 1..as.sent
  <2>1. as' = [as EXCEPT !.rx = x, !.sockets = q]
    BY <1>3
  <2>2. /\ t \in AsSockets /\ t.worker = s.worker /\ t.work = s.work
        /\ t.reader = s.reader /\ t.inbox = <<>>
    <3>1. <<>> \in Seq(Nat)
      OBVIOUS
    <3> HIDE DEF s
    <3> QED
      BY <1>1, <3>1 DEF AsSockets
  <2> HIDE DEF t
  <2>3. AsInbox(as) = b
    <3>1. n # 0
      BY <1>1, AsAttempt
    <3> QED
      BY <1>1, <3>1 DEF AsInbox
  <2>4. /\ as.got \in Seq(B) /\ as.rx \in Seq(B) /\ b \in Seq(B) /\ as.sent \in Nat
        /\ InOrder((as.got \o as.rx) \o b) /\ as.peer = as.written
    BY <1>1, <2>3 DEF AsOrdered
  <2> DEFINE g == as.got
             y == as.rx
             cat(u, v) == u \o v
  <2>5. /\ x = cat(y, b) /\ InOrder(cat(cat(g, y), b))
        /\ g \in Seq(B) /\ y \in Seq(B) /\ b \in Seq(B)
    BY <2>4
  <2>6. \A u, v, w \in Seq(B) : cat(u, v) \in Seq(B) /\ cat(cat(u, v), w) = cat(u, cat(v, w))
    <3> HIDE DEF B
    <3>1. \A u, v \in Seq(B) : cat(u, v) \in Seq(B)
      BY ConcatProperties
    <3>2. \A u, v, w \in Seq(B) : cat(cat(u, v), w) = cat(u, cat(v, w))
      BY ConcatAssociative
    <3> QED
      BY <3>1, <3>2
  <2>7. \A u \in Seq(B) : cat(u, <<>>) = u
    BY ConcatEmptySeq
  <2> HIDE DEF q, x, b, B, g, y, cat
  <2>8. x \in Seq(B) /\ InOrder(cat(cat(g, x), <<>>))
    BY ONLY <2>5, <2>6, <2>7
  <2>9. /\ DOMAIN as' = AsFields /\ as'["sockets"] = q /\ as'["rx"] = x
        /\ \A f \in AsFields \ {"sockets", "rx"} : as'[f] = as[f]
    BY <1>1, <2>1 DEF AsFields
  <2>10. /\ as'["state"] = as["state"] /\ as'["socketObject"] = as["socketObject"]
         /\ as'["inputThread"] = as["inputThread"] /\ as'["events"] = as["events"]
         /\ as'["got"] = as["got"] /\ as'["sent"] = as["sent"]
         /\ as'["peer"] = as["peer"] /\ as'["written"] = as["written"]
    BY <2>9 DEF AsFields
  <2>11. AsHeld(as') /\ AsInbox(as') = <<>>
    BY <1>1, <2>2, <2>9, <2>10, AsSocketSame DEF q
  <2>12. <<>> \in Seq(B)
    OBVIOUS
  <2>13. /\ InOrder((as'.got \o as'.rx) \o AsInbox(as'))
    BY <2>8, <2>9, <2>10, <2>11, Zenon DEF cat, g
  <2>14. AsOrdered(as')
    BY <2>4, <2>8, <2>9, <2>10, <2>11, <2>12, <2>13 DEF AsOrdered, B
  <2> QED
    BY <2>11, <2>14 DEF AsAll
<1>4. \/ as' = [as EXCEPT !.rx = @ \o as.sockets[i].inbox, !.sockets[i].inbox = <<>>]
      \/ as' = ReaderError(as, i)
  BY DEF AsReads
<1>5. as' = ReaderError(as, i) =>
        \E m \in {"error", "expected"} :
          as' = Emit([as EXCEPT !.sockets[i].reader = "done"], m, i)
  BY DEF ReaderError
<1> QED
  BY <1>2, <1>3, <1>4, <1>5

LEMMA AsInitHolds == AsInit => AsAll
<1> SUFFICES ASSUME AsInit
             PROVE  AsAll
  OBVIOUS
<1>1. PICK s \in AsScenarios :
        as = SocketBase([scenario |-> s, sockets |-> <<>>, socketObject |-> 0,
                         inputThread |-> 0, events |-> <<>>, rx |-> <<>>, sent |-> 0,
                         peer |-> <<>>])
  BY DEF AsInit
<1> DEFINE own == [scenario |-> s, sockets |-> <<>>, socketObject |-> 0,
                   inputThread |-> 0, events |-> <<>>, rx |-> <<>>, sent |-> 0,
                   peer |-> <<>>]
           base == [state |-> "Unconnected", agent |-> FALSE, told |-> "nothing",
                    errors |-> 0, session |-> 0, written |-> <<>>, got |-> <<>>]
<1>2. as = [f \in DOMAIN own \cup DOMAIN base |->
              IF f \in DOMAIN own THEN own[f] ELSE base[f]]
  BY <1>1, Zenon DEF SocketBase
<1>3. /\ DOMAIN own = {"scenario", "sockets", "socketObject", "inputThread", "events",
                       "rx", "sent", "peer"}
      /\ DOMAIN base = {"state", "agent", "told", "errors", "session", "written", "got"}
      /\ own["sockets"] = <<>> /\ own["socketObject"] = 0 /\ own["inputThread"] = 0
      /\ own["events"] = <<>> /\ own["rx"] = <<>> /\ own["sent"] = 0 /\ own["peer"] = <<>>
      /\ base["state"] = "Unconnected" /\ base["written"] = <<>> /\ base["got"] = <<>>
  OBVIOUS
<1> HIDE DEF own, base
<1>4. /\ DOMAIN as = AsFields
      /\ as.sockets = <<>> /\ as.socketObject = 0 /\ as.inputThread = 0
      /\ as.events = <<>> /\ as.rx = <<>> /\ as.sent = 0 /\ as.peer = <<>>
      /\ as.state = "Unconnected" /\ as.written = <<>> /\ as.got = <<>>
  BY <1>2, <1>3 DEF AsFields
<1>5. /\ <<>> \in Seq(AsSockets) /\ <<>> \in Seq(AsSignals) /\ <<>> \in Seq(1..0)
      /\ DOMAIN <<>> = {} /\ Len(<<>>) = 0
  OBVIOUS
<1>6. AsShape(as)
  BY <1>4, <1>5 DEF AsShape
<1>7. AsHeld(as)
  BY <1>4, <1>5, <1>6 DEF AsHeld
<1>8. InOrder((<<>> \o <<>>) \o <<>>)
  BY DEF InOrder
<1>9. AsInbox(as) = <<>>
  BY <1>4, <1>5 DEF AsInbox
<1>10. AsOrdered(as)
  BY <1>4, <1>5, <1>8, <1>9 DEF AsOrdered
<1> QED
  BY <1>7, <1>10 DEF AsAll

LEMMA AsNextHolds ==
  ASSUME AsAll, [AsNext]_as
  PROVE  AsAll'
<1>1. CASE UNCHANGED as
  BY <1>1 DEF AsAll
<1>2. CASE AsConnect \/ AsAccept \/ AsClose \/ AsWrite \/ AsReadData \/ AsEvent
  BY <1>2, AsConnectHolds, AsAcceptHolds, AsCloseHolds, AsWriteHolds, AsReadDataHolds,
     AsEventHolds
<1>3. CASE AsPeerSends \/ AsPeerCloses
  BY <1>3, AsPeerHolds
<1>4. CASE \E i \in AsIds : AsThread(i)
  <2>1. PICK i : i \in DOMAIN as.sockets /\ (AsWorker(i) \/ AsConnectReturns(i) \/ AsReads(i))
    BY <1>4 DEF AsThread
  <2> QED
    BY <2>1, AsWorkerHolds, AsConnectReturnsHolds, AsReadsHolds
<1>5. CASE \E i \in DOMAIN as.sockets : AsWorkerEnds(i)
  BY <1>5, AsWorkerEndsHolds
<1> QED
  BY <1>1, <1>2, <1>3, <1>4, <1>5 DEF AsNext

LEMMA AsPromise == AsAll => AsReaderIsOwn /\ AsConnectedIsOwn /\ AsStreams
<1> SUFFICES ASSUME AsAll
             PROVE  AsReaderIsOwn /\ AsConnectedIsOwn /\ AsStreams
  OBVIOUS
<1> DEFINE n == Len(as.sockets)
           e == as.events
<1>1. AsHeld(as) /\ AsOrdered(as)
  BY DEF AsAll
<1>2. /\ n \in Nat /\ (as.state # "Unconnected" => n \in DOMAIN as.sockets)
  BY <1>1, AsAttempt
<1>3. /\ \A i \in DOMAIN as.sockets :
           i # n \/ as.state \in {"Unconnected", "Connecting"} =>
             as.sockets[i].reader # "reading" /\ AsCalm(e, i)
      /\ as.state \in {"Unconnected", "Connecting", "Connected", "Closing"}
      /\ as.state \in {"Connecting", "Connected"} => as.socketObject = n
      /\ as.inputThread = IF as.state = "Connected" THEN n ELSE 0
      /\ as.state \in {"Connected", "Closing"} => AsHeard(as.sockets[n], e, n)
  BY <1>1 DEF AsHeld
<1>4. AsReaderIsOwn
  <2> HIDE DEF n
  <2>1. SUFFICES ASSUME NEW i \in DOMAIN as.sockets, ReaderOf(i)
                 PROVE  i = n /\ as.state \in {"Connected", "Closing"}
    BY DEF AsReaderIsOwn, n
  <2>2. as.sockets[i].reader = "reading" \/ ~AsCalm(e, i)
    BY <2>1 DEF ReaderOf, AsCalm
  <2> QED
    BY <1>3, <2>2
<1>5. AsConnectedIsOwn
  <2>1. SUFFICES ASSUME as.state = "Connected"
                 PROVE  /\ as.socketObject = n /\ as.inputThread = as.socketObject
                        /\ ReaderOf(as.socketObject)
    BY DEF AsConnectedIsOwn
  <2>2. AsHeard(as.sockets[n], e, n) => ReaderOf(n)
    BY DEF AsHeard, AsOnce, ReaderOf
  <2> QED
    BY <1>3, <2>1, <2>2
<1>6. AsStreams
  <2> DEFINE p == as.got \o as.rx
             B == 1..as.sent
  <2>1. /\ as.sent \in Nat /\ as.got \in Seq(B) /\ as.rx \in Seq(B)
        /\ AsInbox(as) \in Seq(B) /\ InOrder(p \o AsInbox(as)) /\ as.peer = as.written
    BY <1>1 DEF AsOrdered
  <2>2. B \subseteq Nat
    <3>1. as.sent \in Nat
      BY <2>1
    <3>2. \A k \in Nat : 1..k \subseteq Nat
      OBVIOUS
    <3> QED
      BY <3>1, <3>2, Zenon
  <2>3. p \in Seq(Nat) /\ AsInbox(as) \in Seq(Nat)
    <3>1. as.got \in Seq(Nat) /\ as.rx \in Seq(Nat) /\ AsInbox(as) \in Seq(Nat)
      BY <2>1, <2>2, SeqMonotonic
    <3> QED
      BY <3>1, ConcatProperties
  <2>4. InOrder(p)
    <3> HIDE DEF p
    <3> QED
      BY <2>1, <2>3, OrderOfParts
  <2> QED
    BY <2>1, <2>4 DEF AsStreams
<1> QED
  BY <1>4, <1>5, <1>6

-------------------------------------------------------------------------------
(* DarwinSocket: a connected socket has its channel open.                      *)

\* A socket that looks up its service does so once: what an earlier connection has
\* left in txBuffer keeps close() waiting in ServiceLookupState.
LooksUpOnce == \A s \in MoScenarios : "lookup" \in s.may => s.sessions \in {0, 1}

MoFields ==
  {"scenario", "channel", "tx", "rx", "posted", "inFlight", "failed", "deadCalls",
   "sent", "peer", "state", "agent", "told", "errors", "session", "written", "got"}
MoLinked(r) ==
  /\ DOMAIN r = MoFields /\ r.scenario \in MoScenarios
  /\ r.state \in SocketStates /\ r.agent \in BOOLEAN /\ r.session \in Nat
  /\ r.state \in {"Connected", "Closing"} <=> r.channel = "open"
  /\ r.channel = "opening" => r.state = "Connecting"
  /\ r.agent => r.state = "ServiceLookup"
  /\ r.state \in {"ServiceLookup", "Connecting"} => r.tx = <<>>
  /\ r.session = 0 => r.state = "Unconnected" /\ r.tx = <<>>

LEMMA MoInitLinked == MoInit => MoLinked(mo)
<1> SUFFICES ASSUME MoInit PROVE MoLinked(mo)
  OBVIOUS
<1>1. PICK s \in MoScenarios :
    mo = SocketBase([scenario |-> s, channel |-> "none", tx |-> <<>>, rx |-> <<>>, posted |-> 0,
                     inFlight |-> 0, failed |-> FALSE, deadCalls |-> 0, sent |-> 0,
                     peer |-> <<>>])
  BY DEF MoInit
<1> DEFINE own == [scenario |-> s, channel |-> "none", tx |-> <<>>, rx |-> <<>>, posted |-> 0,
                   inFlight |-> 0, failed |-> FALSE, deadCalls |-> 0, sent |-> 0,
                   peer |-> <<>>]
           base == [state |-> "Unconnected", agent |-> FALSE, told |-> "nothing",
                    errors |-> 0, session |-> 0, written |-> <<>>, got |-> <<>>]
<1>2. mo = [f \in DOMAIN own \cup DOMAIN base |->
              IF f \in DOMAIN own THEN own[f] ELSE base[f]]
  BY <1>1 DEF SocketBase
<1>3. /\ DOMAIN own = {"scenario", "channel", "tx", "rx", "posted", "inFlight", "failed",
                       "deadCalls", "sent", "peer"}
      /\ DOMAIN base = {"state", "agent", "told", "errors", "session", "written", "got"}
      /\ own["tx"] = <<>> /\ own["channel"] = "none" /\ own["scenario"] = s
      /\ base["state"] = "Unconnected" /\ base["agent"] = FALSE /\ base["session"] = 0
  OBVIOUS
<1> HIDE DEF own, base
<1>4. /\ mo.tx = <<>> /\ mo.channel = "none" /\ mo.scenario = s /\ mo.state = "Unconnected"
      /\ mo.agent = FALSE /\ mo.session = 0
  BY <1>2, <1>3
<1>5. DOMAIN mo = MoFields
  BY <1>2, <1>3 DEF MoFields
<1> QED
  <2>1. mo.agent \in BOOLEAN /\ ~mo.agent
    BY <1>4, Zenon
  <2>2. mo.session \in Nat
    BY <1>4
  <2> QED
    BY <1>1, <1>4, <1>5, <2>1, <2>2 DEF MoLinked, SocketStates

LEMMA MoStateSets ==
  ASSUME NEW r, DOMAIN r = MoFields, NEW new
  PROVE  LET c == SetSocketState(r, new)
         IN  /\ DOMAIN c = MoFields /\ c.state = new
             /\ \A f \in MoFields \ {"state", "told"} : c[f] = r[f]
BY DEF SetSocketState, MoFields

LEMMA MoErrorSets ==
  ASSUME NEW r, DOMAIN r = MoFields
  PROVE  LET c == SetSocketError(r)
         IN  /\ DOMAIN c = MoFields
             /\ \A f \in MoFields \ {"errors"} : c[f] = r[f]
BY DEF SetSocketError, MoFields

\* What the invariant reads of a socket.
MoLinkSame(c, r) ==
  /\ DOMAIN c = MoFields
  /\ c.scenario = r.scenario /\ c.state = r.state /\ c.channel = r.channel
  /\ c.agent = r.agent /\ c.tx = r.tx /\ c.session = r.session
LEMMA MoSameLinked ==
  ASSUME NEW r, MoLinked(r), NEW c, MoLinkSame(c, r)
  PROVE  MoLinked(c)
BY DEF MoLinked, MoLinkSame

\* An end of the channel or of the connection: the socket is unconnected.
LEMMA MoEnded ==
  ASSUME NEW r, DOMAIN r = MoFields, r.scenario \in MoScenarios, r.session \in Nat,
         ~r.agent, r.agent \in BOOLEAN, r.session = 0 => r.tx = <<>>,
         r.channel \in {"none", "closed"}
  PROVE  MoLinked(SetSocketState(r, "Unconnected"))
<1> DEFINE c == SetSocketState(r, "Unconnected")
<1>1. /\ DOMAIN c = MoFields /\ c.state = "Unconnected"
      /\ \A f \in MoFields \ {"state", "told"} : c[f] = r[f]
  BY MoStateSets
<1> HIDE DEF c
<1>2. /\ c.scenario = r.scenario /\ c.channel = r.channel /\ c.agent = r.agent
      /\ c.tx = r.tx /\ c.session = r.session
  BY <1>1 DEF MoFields
<1>3. MoLinked(c)
  BY <1>1, <1>2 DEF MoLinked, SocketStates
<1> QED
  BY <1>3 DEF c

\* connectToService(), also from serviceDiscovered().
LEMMA MoChannelConnects ==
  ASSUME NEW r, DOMAIN r = MoFields, r.scenario \in MoScenarios,
         r.session \in Nat \ {0}, r.agent \in BOOLEAN,
         NEW result, NEW early \in EarlyCallbacks,
         \/ r.state = "Unconnected" /\ ~r.agent
         \/ r.state = "ServiceLookup" /\ result = "ok" /\ early = "nothing"
  PROVE  LET c == ConnectChannel(r, result, early)
         IN  /\ DOMAIN c = MoFields /\ c.agent = r.agent /\ c.tx = <<>>
             /\ c.scenario = r.scenario /\ c.session = r.session
             /\ \/ c.state = r.state /\ r.state = "Unconnected" /\ c.channel = "closed"
                \/ c.state = "Connected" /\ c.channel = "open" /\ r.state = "Unconnected"
                \/ c.state = "Connecting" /\ c.channel = "opening"
<1> DEFINE n == [r EXCEPT !.tx = <<>>, !.rx = <<>>, !.failed = FALSE, !.channel = "opening"]
           got == IF early = "openedData"
                    THEN [n EXCEPT !.rx = <<r.sent + 1>>, !.sent = @ + 1] ELSE n
           over == [n EXCEPT !.channel = "closed"]
           up == [got EXCEPT !.channel = "open"]
           c == ConnectChannel(r, result, early)
<1>1. c = IF result = "error" \/ early = "error" THEN SetSocketError(over)
          ELSE CASE early \in {"opened", "openedData"} -> SetSocketState(up, "Connected")
                 [] early = "closed" -> SetSocketError(over)
                 [] early = "nothing" -> SetSocketState(n, "Connecting")
  BY Zenon DEF ConnectChannel
<1>2. /\ DOMAIN n = MoFields /\ n.channel = "opening" /\ n.tx = <<>>
      /\ n.scenario = r.scenario /\ n.session = r.session /\ n.agent = r.agent
      /\ n.state = r.state
  BY DEF MoFields
<1>3. /\ DOMAIN got = MoFields /\ got.tx = <<>>
      /\ got.scenario = r.scenario /\ got.session = r.session /\ got.agent = r.agent
  <2> HIDE DEF n
  <2> QED
    BY <1>2 DEF MoFields
<1> HIDE DEF n, got
<1>4. /\ DOMAIN over = MoFields /\ over.channel = "closed" /\ over.tx = <<>>
      /\ over.scenario = r.scenario /\ over.session = r.session /\ over.agent = r.agent
      /\ over.state = r.state
  BY <1>2 DEF MoFields
<1>5. /\ DOMAIN up = MoFields /\ up.channel = "open" /\ up.tx = <<>>
      /\ up.scenario = r.scenario /\ up.session = r.session /\ up.agent = r.agent
  BY <1>3 DEF MoFields
<1> HIDE DEF over, up, c
<1>6. ASSUME c = SetSocketError(over), r.state = "Unconnected"
      PROVE  /\ DOMAIN c = MoFields /\ c.agent = r.agent /\ c.tx = <<>>
             /\ c.scenario = r.scenario /\ c.session = r.session
             /\ c.state = r.state /\ c.channel = "closed"
  <2>1. DOMAIN c = MoFields /\ \A f \in MoFields \ {"errors"} : c[f] = over[f]
    BY <1>4, <1>6, MoErrorSets
  <2> QED
    BY <1>4, <2>1 DEF MoFields
<1>7. ASSUME NEW d, NEW new, DOMAIN d = MoFields, c = SetSocketState(d, new)
      PROVE  /\ DOMAIN c = MoFields /\ c.state = new /\ c.agent = d.agent /\ c.tx = d.tx
             /\ c.scenario = d.scenario /\ c.session = d.session /\ c.channel = d.channel
  <2>1. /\ DOMAIN c = MoFields /\ c.state = new
        /\ \A f \in MoFields \ {"state", "told"} : c[f] = d[f]
    BY <1>7, MoStateSets
  <2> QED
    BY <2>1 DEF MoFields
<1>8. CASE result = "error" \/ early \in {"error", "closed"}
  <2>1. c = SetSocketError(over) /\ r.state = "Unconnected"
    BY <1>1, <1>8
  <2> QED
    BY <1>6, <2>1 DEF c
<1>9. CASE result # "error" /\ early \in {"opened", "openedData"}
  <2>1. c = SetSocketState(up, "Connected") /\ r.state = "Unconnected"
    BY <1>1, <1>9
  <2>2. /\ DOMAIN c = MoFields /\ c.state = "Connected" /\ c.agent = r.agent
        /\ c.tx = <<>> /\ c.scenario = r.scenario /\ c.session = r.session
        /\ c.channel = "open"
    BY <1>5, <1>7, <2>1
  <2> QED
    BY <2>1, <2>2 DEF c
<1>10. CASE result # "error" /\ early = "nothing"
  <2>1. c = SetSocketState(n, "Connecting")
    BY <1>1, <1>10
  <2>2. /\ DOMAIN c = MoFields /\ c.state = "Connecting" /\ c.agent = r.agent
        /\ c.tx = <<>> /\ c.scenario = r.scenario /\ c.session = r.session
        /\ c.channel = "opening"
    BY <1>2, <1>7, <2>1
  <2> QED
    BY <2>2 DEF c
<1> QED
  BY <1>8, <1>9, <1>10 DEF EarlyCallbacks

LEMMA MoConnectLinked ==
  ASSUME LooksUpOnce, MoLinked(mo), MoConnect
  PROVE  MoLinked(mo')
<1> DEFINE r == NewSession(mo)
<1>1. /\ mo.state = "Unconnected" /\ ~mo.agent /\ mo.agent \in BOOLEAN
      /\ mo.session < mo.scenario.sessions /\ mo.session \in Nat
      /\ mo.scenario \in MoScenarios /\ DOMAIN mo = MoFields
      /\ mo.channel # "open" /\ mo.channel # "opening"
  BY DEF MoConnect, MoLinked
<1>2. /\ DOMAIN r = MoFields /\ r.session = mo.session + 1 /\ r.state = "Unconnected"
      /\ r.agent = mo.agent /\ r.scenario = mo.scenario /\ r.channel = mo.channel
      /\ r.tx = mo.tx
  BY <1>1 DEF NewSession, MoFields
<1> HIDE DEF r
<1>3. CASE MoMay("lookup") /\ mo' = DoDeviceDiscovery(r)
  <2>1. mo.tx = <<>>
    <3>1. mo.scenario.sessions \in {0, 1}
      BY <1>1, <1>3 DEF LooksUpOnce, MoMay
    <3>2. mo.session = 0
      BY <1>1, <3>1
    <3> QED
      BY <3>2 DEF MoLinked
  <2> DEFINE s == SetSocketState(r, "ServiceLookup")
  <2>2. /\ DOMAIN s = MoFields /\ s.state = "ServiceLookup"
        /\ \A f \in MoFields \ {"state", "told"} : s[f] = r[f]
    BY <1>2, MoStateSets
  <2>3. mo' = [s EXCEPT !.agent = TRUE]
    BY <1>3, Zenon DEF DoDeviceDiscovery
  <2> HIDE DEF s
  <2>4. /\ s.session = mo.session + 1 /\ s.scenario = mo.scenario
        /\ s.channel = mo.channel /\ s.tx = <<>>
    BY <1>2, <2>1, <2>2 DEF MoFields
  <2>5. /\ DOMAIN mo' = MoFields /\ mo'.state = "ServiceLookup" /\ mo'.agent = TRUE
        /\ mo'.session = mo.session + 1 /\ mo'.scenario = mo.scenario
        /\ mo'.channel = mo.channel /\ mo'.tx = <<>>
    BY <2>2, <2>3, <2>4 DEF MoFields
  <2>6. mo'.agent \in BOOLEAN
    BY <2>5, Zenon
  <2>7. mo'.session \in Nat \ {0}
    BY <1>1, <2>5
  <2> QED
    BY <1>1, <2>5, <2>6, <2>7 DEF MoLinked, SocketStates
<1>4. ASSUME NEW result, NEW early \in EarlyCallbacks, mo' = ConnectChannel(r, result, early)
      PROVE  MoLinked(mo')
  <2>1. r.session \in Nat \ {0} /\ r.agent \in BOOLEAN /\ ~r.agent
    BY <1>1, <1>2
  <2>2. /\ DOMAIN mo' = MoFields /\ mo'.agent = r.agent /\ mo'.tx = <<>>
        /\ mo'.scenario = r.scenario /\ mo'.session = r.session
        /\ \/ mo'.state = r.state /\ r.state = "Unconnected" /\ mo'.channel = "closed"
           \/ mo'.state = "Connected" /\ mo'.channel = "open" /\ r.state = "Unconnected"
           \/ mo'.state = "Connecting" /\ mo'.channel = "opening"
    BY <1>1, <1>2, <1>4, <2>1, MoChannelConnects
  <2> QED
    BY <1>1, <1>2, <2>1, <2>2 DEF MoLinked, SocketStates
<1>5. CASE \E result \in MoResults, early \in EarlyOutcomes :
              mo' = ConnectChannel(r, result, early)
  BY <1>4, <1>5 DEF EarlyOutcomes, EarlyCallbacks
<1>6. \/ MoMay("lookup") /\ mo' = DoDeviceDiscovery(r)
      \/ \E result \in MoResults, early \in EarlyOutcomes :
              mo' = ConnectChannel(r, result, early)
  BY Zenon DEF MoConnect, r
<1> QED
  BY <1>3, <1>5, <1>6

LEMMA MoServiceLinked ==
  ASSUME MoLinked(mo), MoServiceDiscovered
  PROVE  MoLinked(mo')
<1> DEFINE c == ConnectChannel(mo, "ok", "nothing")
<1>1. mo' = [c EXCEPT !.agent = FALSE] /\ mo.agent
  BY Zenon DEF MoServiceDiscovered, ServiceDiscovered
<1>2. /\ mo.state = "ServiceLookup" /\ mo.session \in Nat \ {0} /\ mo.agent \in BOOLEAN
      /\ mo.scenario \in MoScenarios /\ DOMAIN mo = MoFields
  BY <1>1 DEF MoLinked
<1>3. /\ DOMAIN c = MoFields /\ c.tx = <<>> /\ c.scenario = mo.scenario
      /\ c.session = mo.session /\ c.state = "Connecting" /\ c.channel = "opening"
  <2>1. "nothing" \in EarlyCallbacks
    BY DEF EarlyCallbacks
  <2> HIDE DEF c
  <2>2. /\ DOMAIN c = MoFields /\ c.tx = <<>> /\ c.scenario = mo.scenario
        /\ c.session = mo.session
        /\ \/ c.state = mo.state /\ mo.state = "Unconnected" /\ c.channel = "closed"
           \/ c.state = "Connected" /\ c.channel = "open" /\ mo.state = "Unconnected"
           \/ c.state = "Connecting" /\ c.channel = "opening"
    BY <1>2, <2>1, MoChannelConnects DEF c
  <2> QED
    BY <1>2, <2>2
<1> HIDE DEF c
<1>4. /\ DOMAIN mo' = MoFields /\ mo'.tx = <<>> /\ mo'.scenario = mo.scenario
      /\ mo'.session = mo.session /\ mo'.state = "Connecting" /\ mo'.channel = "opening"
      /\ mo'.agent = FALSE
  BY <1>1, <1>3 DEF MoFields
<1>5. mo'.agent \in BOOLEAN /\ ~mo'.agent
  BY <1>4, Zenon
<1> QED
  BY <1>2, <1>4, <1>5 DEF MoLinked, SocketStates

LEMMA MoFinishedLinked ==
  ASSUME MoLinked(mo), MoDiscoveryFinished
  PROVE  MoLinked(mo')
<1> DEFINE e == SetSocketError(mo)
           s == SetSocketState(e, "Unconnected")
<1>1. mo' = [s EXCEPT !.agent = FALSE] /\ mo.agent
  BY Zenon DEF MoDiscoveryFinished, DiscoveryFinished
<1>2. /\ mo.state = "ServiceLookup" /\ mo.session \in Nat /\ mo.tx = <<>>
      /\ mo.scenario \in MoScenarios /\ DOMAIN mo = MoFields
      /\ mo.channel \notin {"open", "opening"}
  BY <1>1 DEF MoLinked
<1>3. DOMAIN e = MoFields /\ \A f \in MoFields \ {"errors"} : e[f] = mo[f]
  BY <1>2, MoErrorSets
<1> HIDE DEF e
<1>4. /\ DOMAIN s = MoFields /\ s.state = "Unconnected"
      /\ \A f \in MoFields \ {"state", "told"} : s[f] = e[f]
  BY <1>3, MoStateSets
<1> HIDE DEF s
<1>5. /\ s.tx = <<>> /\ s.scenario = mo.scenario /\ s.session = mo.session
      /\ s.channel = mo.channel
  BY <1>2, <1>3, <1>4 DEF MoFields
<1>6. /\ DOMAIN mo' = MoFields /\ mo'.tx = <<>> /\ mo'.scenario = mo.scenario
      /\ mo'.session = mo.session /\ mo'.state = "Unconnected"
      /\ mo'.channel = mo.channel /\ mo'.agent = FALSE
  BY <1>1, <1>4, <1>5 DEF MoFields
<1>7. mo'.agent \in BOOLEAN /\ ~mo'.agent
  BY <1>6, Zenon
<1> QED
  BY <1>2, <1>6, <1>7 DEF MoLinked, SocketStates

LEMMA MoAcceptLinked ==
  ASSUME MoLinked(mo), MoAccept
  PROVE  MoLinked(mo')
<1>1. /\ mo.state = "Unconnected" /\ mo.session = 0 /\ mo.tx = <<>>
      /\ mo.scenario \in MoScenarios /\ DOMAIN mo = MoFields
      /\ mo.agent \in BOOLEAN /\ ~mo.agent
  BY DEF MoAccept, MoLinked
<1> DEFINE r == NewSession(mo)
<1>2. /\ DOMAIN r = MoFields /\ r.session = 1 /\ r.agent = mo.agent
      /\ r.scenario = mo.scenario /\ r.tx = mo.tx
  BY <1>1 DEF NewSession, MoFields
<1>3. mo' = [r EXCEPT !.channel = "open", !.state = "Connected"]
  BY Zenon DEF MoAccept
<1> HIDE DEF r
<1>4. /\ DOMAIN mo' = MoFields /\ mo'.session = 1 /\ mo'.agent = mo.agent
      /\ mo'.scenario = mo.scenario /\ mo'.tx = mo.tx /\ mo'.channel = "open"
      /\ mo'.state = "Connected"
  BY <1>2, <1>3 DEF MoFields
<1> QED
  BY <1>1, <1>4 DEF MoLinked, SocketStates

LEMMA MoWriteLinked ==
  ASSUME MoLinked(mo), MoWrite \/ MoRead \/ MoPeerSends
  PROVE  MoLinked(mo')
<1>1. CASE MoWrite
  <2>1. /\ DOMAIN mo' = MoFields
        /\ mo'.scenario = mo.scenario /\ mo'.state = mo.state
        /\ mo'.channel = mo.channel /\ mo'.agent = mo.agent /\ mo'.session = mo.session
        /\ mo.state = "Connected"
    BY <1>1 DEF MoWrite, MoWriteData, MoLinked, MoFields
  <2> QED
    BY <2>1 DEF MoLinked
<1>2. CASE MoRead
  <2>1. MoLinkSame(mo', mo)
    BY <1>2 DEF MoRead, MoLinkSame, MoLinked, MoFields
  <2> QED
    BY <2>1, MoSameLinked
<1>3. CASE MoPeerSends
  <2> DEFINE r == [mo EXCEPT !.sent = @ + 1]
  <2>1. MoLinkSame(r, mo)
    BY DEF MoLinkSame, MoLinked, MoFields
  <2>2. mo' = [r EXCEPT !.rx = Append(@, mo.sent + 1)]
    BY <1>3, Zenon DEF MoPeerSends, ReadChannelData
  <2> HIDE DEF r
  <2>3. MoLinkSame(mo', mo)
    BY <2>1, <2>2 DEF MoLinkSame, MoFields
  <2> QED
    BY <2>3, MoSameLinked
<1> QED
  BY <1>1, <1>2, <1>3

LEMMA MoAbortLinked ==
  ASSUME NEW r, DOMAIN r = MoFields, r.scenario \in MoScenarios, r.session \in Nat,
         ~r.agent, r.agent \in BOOLEAN, r.session = 0 => r.tx = <<>>
  PROVE  MoLinked(MoAbort(r))
<1> DEFINE d == [r EXCEPT !.channel = "none", !.inFlight = 0]
<1>1. /\ DOMAIN d = MoFields /\ d.scenario = r.scenario /\ d.session = r.session
      /\ d.agent = r.agent /\ d.tx = r.tx /\ d.channel = "none"
  BY DEF MoFields
<1> HIDE DEF d
<1>2. MoLinked(SetSocketState(d, "Unconnected"))
  BY <1>1, MoEnded
<1> QED
  BY <1>2 DEF MoAbort, d

LEMMA MoCloseLinked ==
  ASSUME MoLinked(mo), MoCloses \/ MoAborts
  PROVE  MoLinked(mo')
<1> DEFINE a == [mo EXCEPT !.agent = FALSE]
           e == SetSocketState(a, "Closing")
<1>1. /\ mo.state # "Unconnected" /\ mo.session \in Nat \ {0} /\ DOMAIN mo = MoFields
      /\ mo.scenario \in MoScenarios
  BY DEF MoCloses, MoAborts, MoLinked
<1>2. mo' = MoAbort(e) \/ (e.tx # <<>> /\ mo' = e)
  <2>1. CASE MoCloses
    <3>1. mo' = MoClose(e)
      BY <1>1, <2>1, Zenon DEF MoCloses, SocketClose, EnterClosing
    <3> HIDE DEF e
    <3> QED
      BY <3>1 DEF MoClose
  <2>2. CASE MoAborts
    BY <2>2, Zenon DEF MoAborts, EnterClosing
  <2> QED
    BY <2>1, <2>2
<1>3. /\ DOMAIN a = MoFields /\ a.agent = FALSE /\ a.scenario = mo.scenario
      /\ a.session = mo.session /\ a.tx = mo.tx /\ a.channel = mo.channel
  BY <1>1 DEF MoFields
<1> HIDE DEF a
<1>4. /\ DOMAIN e = MoFields /\ e.state = "Closing"
      /\ \A f \in MoFields \ {"state", "told"} : e[f] = a[f]
  BY <1>3, MoStateSets
<1> HIDE DEF e
<1>5. /\ e.agent = FALSE /\ e.scenario = mo.scenario /\ e.session = mo.session
      /\ e.tx = mo.tx /\ e.channel = mo.channel
  BY <1>3, <1>4 DEF MoFields
<1>6. e.agent \in BOOLEAN /\ ~e.agent
  BY <1>5, Zenon
<1>7. CASE mo' = MoAbort(e)
  <2>1. MoLinked(MoAbort(e))
    BY <1>1, <1>4, <1>5, <1>6, MoAbortLinked
  <2> QED
    BY <1>7, <2>1
<1>8. CASE e.tx # <<>> /\ mo' = e
  <2>1. mo.state = "Connected" \/ mo.state = "Closing"
    BY <1>1, <1>5, <1>8 DEF MoLinked, SocketStates
  <2>2. e.channel = "open"
    BY <1>5, <2>1 DEF MoLinked
  <2>3. MoLinked(e)
    BY <1>1, <1>4, <1>5, <1>6, <2>2 DEF MoLinked, SocketStates
  <2> QED
    BY <1>8, <2>3
<1> QED
  BY <1>2, <1>7, <1>8

LEMMA MoChunkLinked ==
  ASSUME NEW r, MoLinked(r)
  PROVE  MoLinked(AfterChunk(r))
<1>1. CASE r.tx = <<>> /\ r.state = "Closing"
  <2>1. AfterChunk(r) = MoAbort(r)
    BY <1>1 DEF AfterChunk, MoClose
  <2>2. /\ DOMAIN r = MoFields /\ r.scenario \in MoScenarios /\ r.session \in Nat
        /\ ~r.agent /\ r.agent \in BOOLEAN /\ (r.session = 0 => r.tx = <<>>)
    BY <1>1 DEF MoLinked
  <2>3. MoLinked(MoAbort(r))
    BY <2>2, MoAbortLinked
  <2> QED
    BY <2>1, <2>3
<1>2. CASE ~(r.tx = <<>> /\ r.state = "Closing")
  BY <1>2 DEF AfterChunk
<1> QED
  BY <1>1, <1>2

LEMMA MoNotifyLinked ==
  ASSUME NEW r, MoLinked(r), NEW ok
  PROVE  MoLinked(MoWriteNotify(r, ok))
<1> DEFINE n == IF MoChunk < Len(r.tx) THEN MoChunk ELSE Len(r.tx)
           dead == [r EXCEPT !.deadCalls = 1]
           lost == [r EXCEPT !.tx = SubSeq(@, n + 1, Len(@)), !.failed = TRUE,
                             !.deadCalls = IF r.channel = "open" THEN @ ELSE 1]
           handed == HandOver(r, n)
<1>1. MoWriteNotify(r, ok) =
        IF r.channel = "none" THEN dead
        ELSE IF r.tx = <<>> THEN AfterChunk(r)
        ELSE IF ok /\ r.channel = "open" THEN AfterChunk(handed)
        ELSE SetSocketError(lost)
  BY Zenon DEF MoWriteNotify
<1>2. DOMAIN r = MoFields
  BY DEF MoLinked
<1>3. MoLinked(dead)
  <2>1. MoLinkSame(dead, r)
    BY <1>2 DEF MoLinkSame, MoFields
  <2> HIDE DEF dead
  <2> QED
    BY <2>1, MoSameLinked
<1>4. ASSUME r.tx # <<>>, NEW c, DOMAIN c = MoFields,
             \A f \in {"scenario", "state", "channel", "agent", "session"} : c[f] = r[f]
      PROVE  MoLinked(c)
  <2>1. /\ c.scenario = r.scenario /\ c.state = r.state /\ c.channel = r.channel
        /\ c.agent = r.agent /\ c.session = r.session
    BY <1>4
  <2> QED
    BY <1>4, <2>1 DEF MoLinked
<1>5. /\ DOMAIN handed = MoFields
      /\ \A f \in {"scenario", "state", "channel", "agent", "session"} : handed[f] = r[f]
  <2> HIDE DEF n
  <2> QED
    BY <1>2 DEF HandOver, MoFields
<1>6. /\ DOMAIN lost = MoFields
      /\ \A f \in {"scenario", "state", "channel", "agent", "session"} : lost[f] = r[f]
  <2> HIDE DEF n
  <2> QED
    BY <1>2 DEF MoFields
<1> HIDE DEF dead, lost, handed, n
<1>7. CASE r.channel # "none" /\ r.tx = <<>>
  <2>1. MoWriteNotify(r, ok) = AfterChunk(r)
    BY <1>1, <1>7
  <2> QED
    BY <2>1, MoChunkLinked
<1>8. CASE r.channel # "none" /\ r.tx # <<>>
  <2>1. MoLinked(handed)
    BY <1>4, <1>5, <1>8
  <2>2. MoLinked(AfterChunk(handed))
    BY <2>1, MoChunkLinked
  <2> DEFINE c == SetSocketError(lost)
  <2>3. DOMAIN c = MoFields /\ \A f \in MoFields \ {"errors"} : c[f] = lost[f]
    BY <1>6, MoErrorSets
  <2> HIDE DEF c
  <2>4. MoLinked(c)
    <3>1. \A f \in {"scenario", "state", "channel", "agent", "session"} : c[f] = r[f]
      BY <1>6, <2>3 DEF MoFields
    <3> QED
      BY <1>4, <1>8, <2>3, <3>1
  <2>5. MoWriteNotify(r, ok) = AfterChunk(handed) \/ MoWriteNotify(r, ok) = c
    BY <1>1, <1>8, Zenon DEF c
  <2> QED
    BY <2>2, <2>4, <2>5
<1> QED
  BY <1>1, <1>3, <1>7, <1>8

LEMMA MoPostedLinked ==
  ASSUME MoLinked(mo), MoPosted \/ MoWriteComplete
  PROVE  MoLinked(mo')
<1> DEFINE p == [mo EXCEPT !.posted = @ - 1]
           w == [mo EXCEPT !.inFlight = @ - 1]
<1>1. PICK r \in {p, w}, ok \in WriteResults : mo' = MoWriteNotify(r, ok)
  BY Zenon DEF MoPosted, MoWriteComplete
<1>2. MoLinkSame(p, mo) /\ MoLinkSame(w, mo)
  BY DEF MoLinkSame, MoLinked, MoFields
<1> HIDE DEF p, w
<1>3. MoLinked(r)
  BY <1>2, MoSameLinked
<1> QED
  BY <1>1, <1>3, MoNotifyLinked

LEMMA MoOpenedLinked ==
  ASSUME MoLinked(mo), MoOpened \/ MoRefused \/ MoPeerCloses
  PROVE  MoLinked(mo')
<1>1. DOMAIN mo = MoFields /\ mo.scenario \in MoScenarios /\ mo.session \in Nat
  BY DEF MoLinked
<1>2. CASE MoOpened
  <2> DEFINE u == [mo EXCEPT !.channel = "open"]
  <2>1. /\ DOMAIN u = MoFields /\ u.scenario = mo.scenario /\ u.session = mo.session
        /\ u.agent = mo.agent /\ u.tx = mo.tx /\ u.channel = "open"
    BY <1>1 DEF MoFields
  <2>2. mo' = SetSocketState(u, "Connected") /\ mo.channel = "opening"
    BY <1>2, Zenon DEF MoOpened, ChannelOpenComplete
  <2> HIDE DEF u
  <2>3. /\ DOMAIN mo' = MoFields /\ mo'.state = "Connected"
        /\ \A f \in MoFields \ {"state", "told"} : mo'[f] = u[f]
    BY <2>1, <2>2, MoStateSets
  <2>4. /\ mo'.scenario = mo.scenario /\ mo'.session = mo.session
        /\ mo'.agent = mo.agent /\ mo'.tx = mo.tx /\ mo'.channel = "open"
    BY <2>1, <2>3 DEF MoFields
  <2> QED
    BY <2>2, <2>3, <2>4 DEF MoLinked, SocketStates
<1> DEFINE d == [mo EXCEPT !.channel = "closed"]
<1>3. CASE MoRefused
  <2>1. /\ DOMAIN d = MoFields /\ d.scenario = mo.scenario /\ d.session = mo.session
        /\ d.agent = mo.agent /\ d.tx = mo.tx /\ d.channel = "closed" /\ d.state = mo.state
    BY <1>1 DEF MoFields
  <2>2. mo' = SetSocketError(d) /\ mo.channel = "opening"
    BY <1>3, Zenon DEF MoRefused, SetChannelError
  <2> HIDE DEF d
  <2>3. DOMAIN mo' = MoFields /\ \A f \in MoFields \ {"errors"} : mo'[f] = d[f]
    BY <2>1, <2>2, MoErrorSets
  <2>4. /\ mo'.scenario = mo.scenario /\ mo'.session = mo.session /\ mo'.state = mo.state
        /\ mo'.agent = mo.agent /\ mo'.tx = mo.tx /\ mo'.channel = "closed"
    BY <2>1, <2>3 DEF MoFields
  <2> QED
    BY <2>2, <2>3, <2>4 DEF MoLinked
<1>4. CASE MoPeerCloses
  <2> DEFINE x == [mo EXCEPT !.channel = "closed", !.inFlight = 0]
  <2>1. /\ DOMAIN x = MoFields /\ x.scenario = mo.scenario /\ x.session = mo.session
        /\ x.agent = mo.agent /\ x.tx = mo.tx /\ x.channel = "closed"
    BY <1>1 DEF MoFields
  <2>2. mo' = SetSocketState(x, "Unconnected") /\ mo.channel = "open"
    BY <1>4, Zenon DEF MoPeerCloses, ChannelClosed
  <2> HIDE DEF x
  <2>3. ~mo.agent /\ mo.agent \in BOOLEAN /\ (mo.session = 0 => mo.tx = <<>>)
    BY <2>2 DEF MoLinked
  <2>4. MoLinked(SetSocketState(x, "Unconnected"))
    BY <1>1, <2>1, <2>3, MoEnded
  <2> QED
    BY <2>2, <2>4
<1> QED
  BY <1>2, <1>3, <1>4

LEMMA MoNextLinked ==
  ASSUME LooksUpOnce, MoLinked(mo), [MoNext]_mo
  PROVE  MoLinked(mo')
<1>1. CASE UNCHANGED mo
  BY <1>1
<1> QED
  BY <1>1, MoConnectLinked, MoServiceLinked, MoFinishedLinked, MoAcceptLinked,
     MoWriteLinked, MoCloseLinked, MoPostedLinked, MoOpenedLinked DEF MoNext

-------------------------------------------------------------------------------
(* DBusSocket: a connected socket has its QLocalSocket, and the bytes go out   *)
(* in order.                                                                   *)

\* What holds whatever the state is said to be: a QLocalSocket is that of the last
\* attempt, whose profile is registered.
DsHeld(r) ==
  /\ DOMAIN r = DsFields /\ r.local \in {"none", "up", "closing"}
  /\ r.local # "none" => r.path = TRUE /\ r.context = TRUE /\ r.offered = r.session
  /\ r.session \in Nat /\ r.written \in Seq(Nat)
  /\ r.peer \in Seq(1..Len(r.written)) /\ r.tx \in Seq(1..Len(r.written))
  /\ InOrder(r.peer \o r.tx)
DsStated(r) ==
  /\ r.state = "Connected" <=> r.local = "up"
  /\ r.local = "closing" => r.state = "Closing"
DsTied(r) == DsHeld(r) /\ DsStated(r)

DsBytesKept(c, r) ==
  /\ c.written = r.written /\ c.peer = r.peer /\ c.tx \in {r.tx, <<>>}
  /\ c.session \in {r.session, r.session + 1}
LEMMA DsKeptHeld ==
  ASSUME NEW r, DsHeld(r), NEW c, DOMAIN c = DsFields, DsBytesKept(c, r),
         \/ c.local = "none"
         \/ /\ c.local \in {"up", "closing"} /\ r.local # "none" /\ c.path = r.path
            /\ c.context = r.context /\ c.offered = r.offered /\ c.session = r.session
  PROVE  DsHeld(c)
<1>1. r.peer \in Seq(Nat) /\ r.tx \in Seq(Nat)
  <2>1. Len(r.written) \in Nat
    BY LenProperties DEF DsHeld
  <2>2. 1..Len(r.written) \subseteq Nat
    BY <2>1
  <2> QED
    BY <2>2, SeqMonotonic DEF DsHeld
<1>2. InOrder(r.peer \o <<>>)
  BY <1>1, OrderOfParts DEF DsHeld
<1>3. <<>> \in Seq(1..Len(r.written))
  OBVIOUS
<1>4. /\ c.written \in Seq(Nat) /\ c.peer \in Seq(1..Len(c.written))
      /\ c.tx \in Seq(1..Len(c.written)) /\ InOrder(c.peer \o c.tx)
  BY <1>2, <1>3 DEF DsHeld, DsBytesKept
<1>5. c.session \in Nat
  BY DEF DsHeld, DsBytesKept
<1> QED
  BY <1>4, <1>5 DEF DsHeld

LEMMA DsStateHeld ==
  ASSUME NEW r, DsHeld(r), NEW new
  PROVE  LET c == SetSocketState(r, new)
         IN  /\ DsHeld(c) /\ c.state = new
             /\ \A f \in DsFields \ {"state", "told"} : c[f] = r[f]
<1> DEFINE c == SetSocketState(r, new)
<1>1. /\ DOMAIN c = DsFields /\ c.state = new
      /\ \A f \in DsFields \ {"state", "told"} : c[f] = r[f]
  BY DEF SetSocketState, DsHeld, DsFields
<1> HIDE DEF c
<1>2. /\ DsBytesKept(c, r) /\ c.local = r.local /\ c.path = r.path
      /\ c.context = r.context /\ c.offered = r.offered /\ c.session = r.session
  BY <1>1 DEF DsFields, DsBytesKept
<1>3. r.local \in {"none", "up", "closing"}
  BY DEF DsHeld
<1>4. DsHeld(c)
  BY <1>1, <1>2, <1>3, DsKeptHeld
<1> QED
  BY <1>1, <1>4 DEF c

LEMMA DsErrorTied ==
  ASSUME NEW r, DsTied(r)
  PROVE  DsTied(SetSocketError(r))
<1> DEFINE c == SetSocketError(r)
<1>1. DOMAIN c = DsFields /\ \A f \in DsFields \ {"errors"} : c[f] = r[f]
  BY DEF SetSocketError, DsTied, DsHeld, DsFields
<1> HIDE DEF c
<1>2. /\ DsBytesKept(c, r) /\ c.local = r.local /\ c.path = r.path /\ c.state = r.state
      /\ c.context = r.context /\ c.offered = r.offered /\ c.session = r.session
  BY <1>1 DEF DsFields, DsBytesKept
<1>3. r.local \in {"none", "up", "closing"} /\ DsHeld(r)
  BY DEF DsTied, DsHeld
<1>4. DsHeld(c)
  BY <1>1, <1>2, <1>3, DsKeptHeld
<1>5. DsTied(c)
  BY <1>2, <1>4 DEF DsTied, DsStated
<1> QED
  BY <1>5 DEF c

LEMMA DsUnconnectedTied ==
  ASSUME NEW r, DsHeld(r)
  PROVE  LET c == LocalUnconnected(r)
         IN  DsTied(c) /\ c.local = "none" /\ c.state = "Unconnected"
<1> DEFINE e == [r EXCEPT !.local = "none", !.tx = <<>>]
           u == [e EXCEPT !.path = FALSE, !.context = FALSE]
           d == ClearClosed(r)
           c == SetSocketState(d, "Unconnected")
<1>1. /\ DOMAIN u = DsFields /\ DsBytesKept(u, r) /\ u.local = "none"
  <2>1. /\ DOMAIN e = DsFields /\ e.written = r.written /\ e.peer = r.peer
        /\ e.tx = <<>> /\ e.local = "none" /\ e.session = r.session
    BY DEF DsHeld, DsFields
  <2> HIDE DEF e
  <2> QED
    BY <2>1 DEF DsFields, DsBytesKept
<1>2. d = IF ~r.path THEN r ELSE u
  BY Zenon DEF ClearClosed, Unregister
<1> HIDE DEF u, d
<1>3. DsHeld(u)
  BY <1>1, DsKeptHeld
<1>4. DsHeld(d) /\ d.local = "none"
  BY <1>1, <1>2, <1>3 DEF DsHeld
<1>5. /\ DsHeld(c) /\ c.state = "Unconnected"
      /\ \A f \in DsFields \ {"state", "told"} : c[f] = d[f]
  BY <1>4, DsStateHeld
<1>6. c = LocalUnconnected(r)
  BY Zenon DEF LocalUnconnected, d
<1> HIDE DEF c
<1>7. c.local = "none"
  BY <1>4, <1>5 DEF DsFields
<1>8. DsTied(c)
  BY <1>5, <1>7 DEF DsTied, DsStated
<1> QED
  BY <1>5, <1>6, <1>7, <1>8

LEMMA DsClearTied ==
  ASSUME NEW r, DsTied(r)
  PROVE  LET c == ClearSocket(r)
         IN  DsTied(c) /\ (c.local = "none" \/ c = r)
<1> DEFINE l == LocalUnconnected(r)
           n == [l EXCEPT !.nullUsed = TRUE]
           u == Unregister(r)
<1>1. ClearSocket(r) = IF ~r.path THEN r ELSE IF r.local # "none" THEN n ELSE u
  BY Zenon DEF ClearSocket
<1>2. DsTied(l) /\ l.local = "none" /\ l.state = "Unconnected"
  BY DsUnconnectedTied DEF DsTied
<1> HIDE DEF l
<1>3. /\ DOMAIN n = DsFields /\ DsBytesKept(n, l) /\ n.local = "none"
      /\ n.state = "Unconnected"
  BY <1>2 DEF DsTied, DsHeld, DsFields, DsBytesKept
<1> HIDE DEF n
<1>4. DsTied(n)
  <2>1. DsHeld(n)
    BY <1>2, <1>3, DsKeptHeld DEF DsTied
  <2> QED
    BY <1>3, <2>1 DEF DsTied, DsStated
<1>5. ASSUME r.local = "none"
      PROVE  DsTied(u) /\ u.local = "none"
  <2>1. /\ DOMAIN u = DsFields /\ DsBytesKept(u, r) /\ u.local = "none"
        /\ u.state = r.state
    BY <1>5 DEF Unregister, DsTied, DsHeld, DsFields, DsBytesKept
  <2> HIDE DEF u
  <2>2. DsHeld(u)
    BY <2>1, DsKeptHeld DEF DsTied
  <2> QED
    BY <1>5, <2>1, <2>2 DEF DsTied, DsStated
<1> HIDE DEF u
<1> QED
  BY <1>1, <1>3, <1>4, <1>5

LEMMA DsLocalCloseTied ==
  ASSUME NEW r, DsHeld(r), r.local # "none"
  PROVE  DsTied(LocalClose(r))
<1> DEFINE w == [r EXCEPT !.local = "closing"]
           c == SetSocketState(w, "Closing")
           s == SetSocketState(r, "Closing")
<1>1. LocalClose(r) = c \/ LocalClose(r) = LocalUnconnected(s)
  BY Zenon DEF LocalClose
<1>2. /\ DOMAIN w = DsFields /\ DsBytesKept(w, r) /\ w.local = "closing"
      /\ w.path = r.path /\ w.context = r.context /\ w.offered = r.offered
      /\ w.session = r.session
  BY DEF DsHeld, DsFields, DsBytesKept
<1> HIDE DEF w
<1>3. DsHeld(w)
  BY <1>2, DsKeptHeld
<1>4. /\ DsHeld(c) /\ c.state = "Closing"
      /\ \A f \in DsFields \ {"state", "told"} : c[f] = w[f]
  BY <1>3, DsStateHeld
<1>5. DsHeld(s)
  BY DsStateHeld
<1> HIDE DEF c, s
<1>6. c.local = "closing"
  BY <1>2, <1>4 DEF DsFields
<1>7. DsTied(c)
  BY <1>4, <1>6 DEF DsTied, DsStated
<1>8. DsTied(LocalUnconnected(s))
  BY <1>5, DsUnconnectedTied
<1> QED
  BY <1>1, <1>7, <1>8

LEMMA DsAbortTied ==
  ASSUME NEW r, DsHeld(r), r.state = "Closing"
  PROVE  DsTied(DsAbort(r))
<1>1. CASE r.local # "none"
  <2>1. DsAbort(r) = LocalClose(r)
    BY <1>1 DEF DsAbort
  <2> QED
    BY <1>1, <2>1, DsLocalCloseTied
<1>2. CASE r.local = "none"
  <2> DEFINE c == ClearSocket(r)
             u == SetSocketState(c, "Unconnected")
  <2>1. DsTied(r)
    BY <1>2 DEF DsTied, DsStated
  <2>2. DsTied(c) /\ c.local = "none"
    BY <1>2, <2>1, DsClearTied
  <2>3. DsAbort(r) = u
    BY <1>2 DEF DsAbort
  <2> HIDE DEF c
  <2>4. /\ DsHeld(u) /\ u.state = "Unconnected"
        /\ \A f \in DsFields \ {"state", "told"} : u[f] = c[f]
    BY <2>2, DsStateHeld DEF DsTied
  <2> HIDE DEF u
  <2>5. u.local = "none"
    BY <2>2, <2>4 DEF DsFields
  <2> QED
    BY <2>3, <2>4, <2>5 DEF DsTied, DsStated
<1> QED
  BY <1>1, <1>2

LEMMA DsConnectTied ==
  ASSUME DsTied(ds), DsConnect
  PROVE  DsTied(ds')
<1> DEFINE g == [ds EXCEPT !.context = TRUE, !.path = TRUE]
           s == NewSession(g)
           k == [s EXCEPT !.calls = @ \cup {ds.session + 1}]
<1>1. PICK outcome : ds' = ConnectProfile(ds, outcome) /\ ds.state = "Unconnected"
                     /\ outcome \in {"ok", "notFound", "registerFails"}
  BY DEF DsConnect
<1>2. ds' = IF ds.context THEN SetSocketError(ds)
            ELSE CASE outcome = "ok" -> SetSocketState(k, "Connecting")
                   [] outcome = "notFound" -> SetSocketError(ClearSocket(g))
                   [] outcome = "registerFails" -> SetSocketError(g)
  BY <1>1, Zenon DEF ConnectProfile
<1>3. CASE ds.context
  BY <1>2, <1>3, DsErrorTied
<1>4. CASE ~ds.context
  <2>1. ds.local = "none" /\ DOMAIN ds = DsFields
    BY <1>4 DEF DsTied, DsHeld
  <2>2. /\ DOMAIN g = DsFields /\ DsBytesKept(g, ds) /\ g.local = "none"
        /\ g.state = "Unconnected"
    BY <1>1, <2>1 DEF DsFields, DsBytesKept
  <2> HIDE DEF g
  <2>3. DsHeld(g)
    BY <2>2, DsKeptHeld DEF DsTied
  <2>4. DsTied(g)
    BY <2>2, <2>3 DEF DsTied, DsStated
  <2>5. /\ DOMAIN s = DsFields /\ DsBytesKept(s, g) /\ s.local = "none"
    BY <2>2 DEF NewSession, DsFields, DsBytesKept
  <2> HIDE DEF s
  <2>6. DsHeld(s)
    BY <2>3, <2>5, DsKeptHeld
  <2>7. /\ DOMAIN k = DsFields /\ DsBytesKept(k, s) /\ k.local = "none"
    BY <2>5 DEF DsFields, DsBytesKept
  <2> HIDE DEF k
  <2>8. DsHeld(k)
    BY <2>6, <2>7, DsKeptHeld
  <2> DEFINE c == SetSocketState(k, "Connecting")
  <2>9. /\ DsHeld(c) /\ c.state = "Connecting"
        /\ \A f \in DsFields \ {"state", "told"} : c[f] = k[f]
    BY <2>8, DsStateHeld
  <2> HIDE DEF c
  <2>10. c.local = "none"
    BY <2>7, <2>9 DEF DsFields
  <2>11. DsTied(c)
    BY <2>9, <2>10 DEF DsTied, DsStated
  <2>12. DsTied(SetSocketError(g))
    BY <2>4, DsErrorTied
  <2> DEFINE x == ClearSocket(g)
  <2>13. DsTied(x)
    BY <2>4, DsClearTied
  <2> HIDE DEF x
  <2>14. DsTied(SetSocketError(x))
    BY <2>13, DsErrorTied
  <2>15. ds' \in {c, SetSocketError(g), SetSocketError(x)}
    BY <1>1, <1>2, <1>4 DEF c, x
  <2> QED
    BY <2>11, <2>12, <2>14, <2>15
<1> QED
  BY <1>3, <1>4

LEMMA DsWriteTied ==
  ASSUME DsTied(ds), DsWrite
  PROVE  DsTied(ds')
<1> DEFINE b == Len(ds.written) + 1
<1>1. /\ DOMAIN ds' = DsFields /\ ds'.written = Append(ds.written, b)
      /\ ds'.tx = Append(ds.tx, b) /\ ds'.peer = ds.peer /\ ds'.local = ds.local
      /\ ds'.path = ds.path /\ ds'.context = ds.context /\ ds'.offered = ds.offered
      /\ ds'.session = ds.session /\ ds'.state = ds.state
  BY DEF DsWrite, NextByte, DsTied, DsHeld, DsFields
<1> DEFINE w == ds.written
           p == ds.peer
           t == ds.tx
<1>2. /\ w \in Seq(Nat) /\ p \in Seq(1..Len(w)) /\ t \in Seq(1..Len(w))
      /\ InOrder(p \o t) /\ b = Len(w) + 1
  BY DEF DsTied, DsHeld
<1> HIDE DEF b, w, p, t
<1>3. /\ Append(w, b) \in Seq(Nat) /\ Len(Append(w, b)) = b
      /\ p \in Seq(1..b) /\ Append(t, b) \in Seq(1..b)
      /\ InOrder(p \o Append(t, b))
  BY <1>2, NewByte
<1>4. /\ ds'.written \in Seq(Nat) /\ ds'.peer \in Seq(1..Len(ds'.written))
      /\ ds'.tx \in Seq(1..Len(ds'.written)) /\ InOrder(ds'.peer \o ds'.tx)
  BY <1>1, <1>3 DEF w, p, t
<1> QED
  BY <1>1, <1>4 DEF DsTied, DsHeld, DsStated

LEMMA FirstMoves ==
  ASSUME NEW S, NEW p \in Seq(S), NEW t \in Seq(S), t # <<>>
  PROVE  /\ Append(p, Head(t)) \in Seq(S) /\ Tail(t) \in Seq(S)
         /\ Append(p, Head(t)) \o Tail(t) = p \o t
<1> DEFINE h == <<Head(t)>>
           q == Tail(t)
<1>1. Head(t) \in S /\ q \in Seq(S) /\ Len(t) \in Nat /\ Len(t) > 0
  BY HeadTailProperties, LenProperties, EmptySeq
<1>2. Head(t) = t[1] /\ q = SubSeq(t, 2, Len(t)) /\ t = SubSeq(t, 1, Len(t))
  BY TailIsSubSeq, SubSeqFull
<1>3. h \in Seq(S)
  BY <1>1
<1>5. h \o q = t
  <2>1. 1 \in 1..Len(t) /\ Len(t) \in 1..Len(t) /\ 1 + 1 = 2
    BY <1>1
  <2>2. SubSeq(t, 1, Len(t)) = <<t[1]>> \o SubSeq(t, 1 + 1, Len(t))
    BY <2>1, SubSeqRecursiveFirst
  <2> QED
    BY ONLY <1>2, <2>1, <2>2, Zenon
<1> HIDE DEF h, q
<1>6. Append(p, Head(t)) = p \o h
  BY <1>1, AppendIsConcat, Zenon DEF h
<1>7. (p \o h) \o q = p \o (h \o q)
  BY <1>1, <1>3, ConcatAssociative
<1>8. p \o h \in Seq(S)
  BY <1>3, ConcatProperties
<1> QED
  BY <1>1, <1>5, <1>6, <1>7, <1>8 DEF q

LEMMA DsFlushTied ==
  ASSUME DsTied(ds), DsFlush
  PROVE  DsTied(ds')
<1> DEFINE r == [ds EXCEPT !.peer = Append(@, Head(ds.tx)), !.tx = Tail(@)]
<1>1. ds' = r \/ ds' = LocalUnconnected(r)
  BY DEF DsFlush
<1>2. /\ DOMAIN r = DsFields /\ r.written = ds.written
      /\ r.tx = Tail(ds.tx) /\ r.peer = Append(ds.peer, Head(ds.tx))
      /\ r.local = ds.local /\ r.path = ds.path /\ r.context = ds.context
      /\ r.offered = ds.offered /\ r.session = ds.session /\ r.state = ds.state
  BY DEF DsTied, DsHeld, DsFields
<1> HIDE DEF r
<1> DEFINE B == 1..Len(ds.written)
           p == ds.peer
           t == ds.tx
<1>3. p \in Seq(B) /\ t \in Seq(B) /\ InOrder(p \o t) /\ t # <<>>
  BY DEF DsTied, DsHeld, DsFlush
<1> HIDE DEF B, p, t
<1>4. /\ Append(p, Head(t)) \in Seq(B) /\ Tail(t) \in Seq(B)
      /\ InOrder(Append(p, Head(t)) \o Tail(t))
  BY <1>3, FirstMoves
<1>5. /\ r.peer \in Seq(1..Len(r.written)) /\ r.tx \in Seq(1..Len(r.written))
      /\ InOrder(r.peer \o r.tx)
  BY <1>2, <1>4 DEF B, p, t
<1>6. DsTied(r)
  BY <1>2, <1>5 DEF DsTied, DsHeld, DsStated
<1>7. DsTied(LocalUnconnected(r))
  BY <1>6, DsUnconnectedTied DEF DsTied
<1> QED
  BY <1>1, <1>6, <1>7

LEMMA DsCloseTied ==
  ASSUME DsTied(ds), DsClose \/ DsPeerCloses
  PROVE  DsTied(ds')
<1>1. CASE DsClose
  <2> DEFINE a == [ds EXCEPT !.agent = FALSE]
             c == SetSocketState(a, "Closing")
  <2>1. /\ DOMAIN a = DsFields /\ DsBytesKept(a, ds) /\ a.local = ds.local
        /\ a.path = ds.path /\ a.context = ds.context /\ a.offered = ds.offered
        /\ a.session = ds.session
    BY DEF DsTied, DsHeld, DsFields, DsBytesKept
  <2>2. ds' = DsAbort(c)
    BY <1>1, Zenon DEF DsClose, SocketClose, EnterClosing
  <2> HIDE DEF a
  <2>3. DsHeld(a)
    <3>1. ds.local \in {"none", "up", "closing"} /\ DsHeld(ds)
      BY DEF DsTied, DsHeld
    <3> QED
      BY <2>1, <3>1, DsKeptHeld
  <2>4. DsHeld(c) /\ c.state = "Closing"
    BY <2>3, DsStateHeld
  <2> HIDE DEF c
  <2> QED
    BY <2>2, <2>4, DsAbortTied
<1>2. CASE DsPeerCloses
  <2> DEFINE e == [ds EXCEPT !.tx = <<>>]
             c == SetSocketState(e, "Closing")
  <2>1. /\ DOMAIN e = DsFields /\ DsBytesKept(e, ds) /\ e.local = ds.local
        /\ e.path = ds.path /\ e.context = ds.context /\ e.offered = ds.offered
        /\ e.session = ds.session
    BY DEF DsTied, DsHeld, DsFields, DsBytesKept
  <2>2. ds' = LocalUnconnected(c)
    BY <1>2, Zenon DEF DsPeerCloses
  <2> HIDE DEF e
  <2>3. DsHeld(e)
    <3>1. ds.local \in {"none", "up", "closing"} /\ DsHeld(ds)
      BY DEF DsTied, DsHeld
    <3> QED
      BY <2>1, <3>1, DsKeptHeld
  <2>4. DsHeld(c)
    BY <2>3, DsStateHeld
  <2> HIDE DEF c
  <2> QED
    BY <2>2, <2>4, DsUnconnectedTied
<1> QED
  BY <1>1, <1>2

LEMMA DsOfferedTied ==
  ASSUME DsTied(ds), DsNewConnection
  PROVE  DsTied(ds')
<1> DEFINE u == [ds EXCEPT !.local = "up"]
           c == SetSocketState(u, "Connected")
           n == SetSocketState(ds, "Unconnected")
<1>1. /\ ds.context = TRUE /\ ds.path = TRUE /\ ds.offered < ds.session
      /\ ds' = [c EXCEPT !.offered = ds.session] \/ ds' = [n EXCEPT !.offered = ds.session]
  <2>1. ds.context /\ ds.path /\ ds.offered < ds.session
    BY DEF DsNewConnection
  <2>2. PICK valid \in {TRUE, FALSE} :
            ds' = [RemoteConnected(ds, valid) EXCEPT !.offered = ds.session]
    BY Zenon DEF DsNewConnection
  <2> QED
    BY <2>1, <2>2, Zenon DEF RemoteConnected
<1>2. DOMAIN ds = DsFields /\ DsHeld(ds) /\ ds.local = "none"
  BY <1>1 DEF DsTied, DsHeld
<1>3. DsHeld(n) /\ n.state = "Unconnected" /\ \A f \in DsFields \ {"state", "told"} : n[f] = ds[f]
  BY <1>2, DsStateHeld
<1> HIDE DEF n
<1>4. ASSUME ds' = [n EXCEPT !.offered = ds.session]
      PROVE  DsTied(ds')
  <2>1. n.local = "none" /\ DOMAIN n = DsFields
    BY <1>2, <1>3 DEF DsFields, DsHeld
  <2>2. /\ DOMAIN ds' = DsFields /\ DsBytesKept(ds', n) /\ ds'.local = "none"
        /\ ds'.state = "Unconnected"
    BY <1>3, <1>4, <2>1 DEF DsFields, DsBytesKept
  <2>3. DsHeld(ds')
    BY <1>3, <2>2, DsKeptHeld
  <2> QED
    BY <2>2, <2>3 DEF DsTied, DsStated
<1>5. ASSUME ds' = [c EXCEPT !.offered = ds.session]
      PROVE  DsTied(ds')
  <2>1. /\ DOMAIN u = DsFields /\ u.local = "up" /\ u.path = TRUE /\ u.context = TRUE
        /\ u.session = ds.session /\ u.written = ds.written /\ u.peer = ds.peer
        /\ u.tx = ds.tx
    BY <1>1, <1>2 DEF DsFields
  <2> HIDE DEF u
  <2>2. /\ DOMAIN c = DsFields /\ c.state = "Connected"
        /\ \A f \in DsFields \ {"state", "told"} : c[f] = u[f]
    BY <2>1 DEF SetSocketState, DsFields
  <2> HIDE DEF c
  <2>3. /\ c.local = "up" /\ c.path = TRUE /\ c.context = TRUE
        /\ c.session = ds.session /\ c.written = ds.written /\ c.peer = ds.peer
        /\ c.tx = ds.tx
    BY <2>1, <2>2 DEF DsFields
  <2>4. /\ DOMAIN ds' = DsFields /\ ds'.state = "Connected" /\ ds'.offered = ds.session
        /\ ds'.local = "up" /\ ds'.path = TRUE /\ ds'.context = TRUE
        /\ ds'.session = ds.session /\ ds'.written = ds.written /\ ds'.peer = ds.peer
        /\ ds'.tx = ds.tx
    BY <1>5, <2>2, <2>3 DEF DsFields
  <2>5. DsHeld(ds')
    BY <1>2, <2>4 DEF DsHeld
  <2> QED
    BY <2>4, <2>5 DEF DsTied, DsStated
<1> QED
  BY <1>1, <1>4, <1>5

LEMMA DsReplyTied ==
  ASSUME DsTied(ds), DsReply
  PROVE  DsTied(ds')
<1>1. PICK k : LET r == [ds EXCEPT !.calls = @ \ {k}] IN ds' = r \/ ds' = ReplyError(r)
  BY Zenon DEF DsReply
<1> DEFINE r == [ds EXCEPT !.calls = @ \ {k}]
<1>2. /\ DOMAIN r = DsFields /\ DsBytesKept(r, ds) /\ r.local = ds.local
      /\ r.path = ds.path /\ r.context = ds.context /\ r.offered = ds.offered
      /\ r.session = ds.session /\ r.state = ds.state
  BY DEF DsTied, DsHeld, DsFields, DsBytesKept
<1>3. ds' = r \/ ds' = SetSocketError(ClearSocket(r))
  BY <1>1, Zenon DEF ReplyError
<1> HIDE DEF r
<1>4. DsTied(r)
  <2>1. ds.local \in {"none", "up", "closing"} /\ DsHeld(ds) /\ DsStated(ds)
    BY DEF DsTied, DsHeld
  <2>2. DsHeld(r)
    BY <1>2, <2>1, DsKeptHeld
  <2> QED
    BY <1>2, <2>1, <2>2 DEF DsTied, DsStated
<1>5. DsTied(ClearSocket(r))
  BY <1>4, DsClearTied
<1>6. DsTied(SetSocketError(ClearSocket(r)))
  BY <1>5, DsErrorTied
<1> QED
  BY <1>3, <1>4, <1>6

LEMMA DsNextTied ==
  ASSUME DsTied(ds), [DsNext]_ds
  PROVE  DsTied(ds')
<1>1. CASE UNCHANGED ds
  BY <1>1
<1> QED
  BY <1>1, DsConnectTied, DsWriteTied, DsCloseTied, DsOfferedTied, DsReplyTied,
     DsFlushTied DEF DsNext

LEMMA DsInitTied == DsInit => DsTied(ds)
<1> SUFFICES ASSUME DsInit PROVE DsTied(ds)
  OBVIOUS
<1>1. PICK s \in DsScenarios :
    ds = SocketBase([scenario |-> s, context |-> FALSE, path |-> FALSE, local |-> "none",
                     tx |-> <<>>, calls |-> {}, offered |-> 0,
                     peer |-> <<>>, nullUsed |-> FALSE])
  BY DEF DsInit
<1> DEFINE own == [scenario |-> s, context |-> FALSE, path |-> FALSE, local |-> "none",
                   tx |-> <<>>, calls |-> {}, offered |-> 0,
                   peer |-> <<>>, nullUsed |-> FALSE]
           base == [state |-> "Unconnected", agent |-> FALSE, told |-> "nothing",
                    errors |-> 0, session |-> 0, written |-> <<>>, got |-> <<>>]
<1>2. ds = [f \in DOMAIN own \cup DOMAIN base |->
              IF f \in DOMAIN own THEN own[f] ELSE base[f]]
  BY <1>1 DEF SocketBase
<1>3. /\ DOMAIN own = {"scenario", "context", "path", "local", "tx", "calls", "offered",
                       "peer", "nullUsed"}
      /\ DOMAIN base = {"state", "agent", "told", "errors", "session", "written", "got"}
      /\ own["tx"] = <<>> /\ own["local"] = "none" /\ own["peer"] = <<>>
      /\ base["state"] = "Unconnected" /\ base["session"] = 0 /\ base["written"] = <<>>
  OBVIOUS
<1> HIDE DEF own, base
<1>4. /\ ds.tx = <<>> /\ ds.local = "none" /\ ds.peer = <<>> /\ ds.state = "Unconnected"
      /\ ds.session = 0 /\ ds.written = <<>>
  BY <1>2, <1>3
<1>5. DOMAIN ds = DsFields
  BY <1>2, <1>3 DEF DsFields
<1>6. (\A S : <<>> \in Seq(S)) /\ <<>> \o <<>> = <<>> /\ DOMAIN <<>> = {}
  BY EmptySeq, ConcatEmptySeq
<1>7. InOrder(<<>>)
  BY <1>6 DEF InOrder
<1> QED
  BY <1>4, <1>5, <1>6, <1>7 DEF DsTied, DsHeld, DsStated

LEMMA DsSocketPromise == DsTied(ds) => DsConnectedHasSocket
<1> SUFFICES ASSUME DsTied(ds) PROVE DsConnectedHasSocket
  OBVIOUS
<1>1. /\ ds.local # "none" => ds.context /\ ds.offered = ds.session
      /\ ds.state = "Connected" <=> ds.local = "up"
      /\ InOrder(ds.peer \o ds.tx)
  BY DEF DsTied, DsHeld, DsStated
<1> QED
  BY <1>1, Zenon DEF DsConnectedHasSocket

LEMMA MoOpenPromise == MoLinked(mo) => MoConnectedIsOpen
BY DEF MoLinked, MoConnectedIsOpen

-------------------------------------------------------------------------------
(* BluezConnecting: the jobs that end the other links go on, and the one       *)
(* socket is the controller's.                                                 *)

BcFields ==
  {"scenario", "connects", "state", "sockets", "l2cpSocket", "jobQueue", "jobInProgress",
   "runs", "prepares", "calls", "links", "gaveUp"}
BcDevices == BcOthers \union {BcDevice}
BcSockets == {"idle", "connecting", "failed", "connected", "closed", "deleted"}
BcShape(r) ==
  /\ DOMAIN r = BcFields /\ r.scenario \in BcScenarios
  /\ r.sockets \in Seq(BcSockets) /\ r.l2cpSocket \in 0..Len(r.sockets)
  /\ r.links \subseteq BcDevices /\ r.gaveUp \in BOOLEAN
  /\ r.jobQueue \in Seq(BcDevices) /\ r.calls \in Seq(BcDevices)
  /\ r.runs \in Nat /\ r.prepares \in Nat /\ r.jobInProgress \in BOOLEAN
BcJobs(r) ==
  /\ r.prepares + Len(r.calls) = IF r.jobInProgress THEN 1 ELSE 0
  /\ r.jobInProgress => r.jobQueue # <<>>
  /\ r.jobQueue # <<>> => r.jobInProgress \/ r.runs > 0
  /\ \A i \in DOMAIN r.calls : r.calls[i] = Head(r.jobQueue)

\* Who waits for jobs is connecting and has no socket yet.
BcWaits(r) == r.state = "Connecting" /\ r.l2cpSocket = 0
BcOwned(r) ==
  /\ r.state \in {"Unconnected", "Connecting", "Connected"}
  /\ \A i \in DOMAIN r.sockets :
       r.sockets[i] \in {"connecting", "connected", "failed"} => i = r.l2cpSocket
  /\ r.state = "Connected" => \E i \in DOMAIN r.sockets : r.sockets[i] = "connected"
  /\ r.state = "Unconnected" =>
       \A i \in DOMAIN r.sockets : r.sockets[i] \notin {"connecting", "connected"}
BcQueued(r) == r.jobQueue # <<>> => BcWaits(r)
BcGood(r) == BcShape(r) /\ BcJobs(r) /\ (~r.gaveUp => BcOwned(r) /\ BcQueued(r))

LEMMA BcInitGood == BcInit => BcGood(bc)
<1> SUFFICES ASSUME BcInit PROVE BcGood(bc)
  OBVIOUS
<1>1. PICK s \in BcScenarios :
    bc = [scenario |-> s, connects |-> 0, state |-> "Unconnected",
          sockets |-> <<>>, l2cpSocket |-> 0, jobQueue |-> <<>>, jobInProgress |-> FALSE,
          runs |-> 0, prepares |-> 0, calls |-> <<>>, links |-> s.others,
          gaveUp |-> FALSE]
  BY DEF BcInit
<1>2. /\ DOMAIN bc = BcFields /\ bc.scenario = s /\ bc.state = "Unconnected"
      /\ bc.sockets = <<>> /\ bc.l2cpSocket = 0 /\ bc.jobQueue = <<>> /\ bc.runs = 0
      /\ bc.prepares = 0 /\ bc.calls = <<>> /\ bc.links = s.others
  BY <1>1 DEF BcFields
<1>3. bc.jobInProgress = FALSE /\ bc.gaveUp = FALSE
  BY <1>1
<1>4. bc.jobInProgress \in BOOLEAN /\ ~bc.jobInProgress /\ bc.gaveUp \in BOOLEAN
  BY <1>3, Zenon
<1>5. (\A S : <<>> \in Seq(S)) /\ Len(<<>>) = 0 /\ DOMAIN <<>> = {}
  BY EmptySeq
<1>6. s.others \subseteq BcDevices
  BY BcAssumption DEF BcDevices
<1>7. BcShape(bc)
  BY <1>2, <1>4, <1>5, <1>6 DEF BcShape
<1>8. BcJobs(bc)
  BY <1>2, <1>4, <1>5 DEF BcJobs
<1>9. BcOwned(bc) /\ BcQueued(bc)
  BY <1>2, <1>5 DEF BcOwned, BcQueued
<1> QED
  BY <1>7, <1>8, <1>9 DEF BcGood

\* What only one of the three parts of a step disturbs.
BcSameJobs(c, r) ==
  /\ c.jobQueue = r.jobQueue /\ c.calls = r.calls /\ c.runs = r.runs
  /\ c.prepares = r.prepares /\ c.jobInProgress = r.jobInProgress
BcSameSockets(c, r) ==
  c.state = r.state /\ c.sockets = r.sockets /\ c.l2cpSocket = r.l2cpSocket
LEMMA BcSameJobsHold ==
  ASSUME NEW r, BcJobs(r), NEW c, BcSameJobs(c, r)
  PROVE  BcJobs(c)
BY DEF BcJobs, BcSameJobs
LEMMA BcSameOwned ==
  ASSUME NEW r, BcOwned(r), NEW c, BcSameSockets(c, r)
  PROVE  BcOwned(c)
BY DEF BcOwned, BcSameSockets

LEMMA BcActiveFinite ==
  ASSUME NEW r, BcShape(r)
  PROVE  /\ BcActive(r) \subseteq BcDevices
         /\ SetToSeq(BcActive(r)) \in Seq(BcDevices)
<1> DEFINE A == BcActive(r)
           n == Cardinality(A)
<1>1. A \subseteq BcDevices
  BY DEF BcActive, BcShape, BcDevices
<1>2. IsFiniteSet(BcDevices)
  BY BcAssumption, FS_AddElement DEF BcDevices
<1>3. IsFiniteSet(A)
  BY <1>1, <1>2, FS_Subset
<1> HIDE DEF A
<1>4. n \in Nat /\ ExistsBijection(1..n, A)
  BY <1>3, FS_CardinalityType
<1> HIDE DEF n
<1>5. \E f \in [1..n -> A] : IsInjective(f)
  BY <1>4 DEF ExistsBijection, Bijection, Injection
<1>6. (CHOOSE f \in [1..n -> A] : IsInjective(f)) \in [1..n -> A]
  BY <1>5
<1>7. SetToSeq(A) \in [1..n -> A]
  BY <1>6 DEF SetToSeq, n
<1>8. SetToSeq(A) \in Seq(A)
  BY <1>4, <1>7, IsASeq
<1>9. SetToSeq(A) \in Seq(BcDevices)
  BY <1>1, <1>8, SeqMonotonic
<1> QED
  BY <1>1, <1>9 DEF A

\* scheduleJob(): with the queue empty, or behind the jobs of an attempt given up.
LEMMA BcScheduleGood ==
  ASSUME NEW r, BcShape(r), BcJobs(r), NEW more \in Seq(BcDevices),
         ~r.gaveUp => BcOwned(r) /\ BcWaits(r)
  PROVE  BcGood(BcScheduleJob(r, more))
<1> DEFINE c == BcScheduleJob(r, more)
<1>1. /\ DOMAIN c = BcFields /\ c.scenario = r.scenario /\ c.links = r.links
      /\ c.gaveUp = r.gaveUp /\ BcSameSockets(c, r) /\ c.runs = r.runs + 1
      /\ c.jobQueue = r.jobQueue \o more /\ c.calls = r.calls
      /\ c.prepares = r.prepares /\ c.jobInProgress = r.jobInProgress
  BY DEF BcScheduleJob, BcShape, BcFields, BcSameSockets
<1> HIDE DEF c
<1> DEFINE q == r.jobQueue
<1>2. q \in Seq(BcDevices)
  BY DEF BcShape
<1> HIDE DEF q
<1>3. q \o more \in Seq(BcDevices) /\ (q # <<>> => q \o more # <<>>)
      /\ (q # <<>> => Head(q \o more) = Head(q))
  <2>1. /\ q \o more \in Seq(BcDevices) /\ Len(q \o more) = Len(q) + Len(more)
        /\ \A i \in 1..(Len(q) + Len(more)) :
             (q \o more)[i] = IF i <= Len(q) THEN q[i] ELSE more[i - Len(q)]
    BY <1>2, ConcatProperties
  <2>2. Len(q) \in Nat /\ Len(more) \in Nat /\ (q # <<>> => Len(q) > 0)
    BY <1>2, LenProperties, EmptySeq
  <2>3. ASSUME q # <<>> PROVE q \o more # <<>> /\ Head(q \o more) = Head(q)
    <3>1. Len(q \o more) > 0 /\ (q \o more)[1] = q[1]
      BY <2>1, <2>2, <2>3
    <3>2. q \o more # <<>>
      <4> DEFINE v == q \o more
      <4>1. Len(v) > 0
        BY <3>1
      <4> HIDE DEF v
      <4>2. v # <<>>
        BY <4>1, EmptySeq
      <4> QED
        BY <4>2 DEF v
    <3>3. Head(q \o more) = (q \o more)[1] /\ Head(q) = q[1]
      <4> DEFINE v == q \o more
      <4> HIDE DEF v
      <4>1. Head(v) = v[1] /\ Head(q) = q[1]
        OBVIOUS
      <4> QED
        BY <4>1 DEF v
    <3> QED
      BY <3>1, <3>2, <3>3
  <2> QED
    BY <2>1, <2>3
<1>4. BcShape(c)
  BY <1>1, <1>3 DEF BcShape, BcSameSockets, q
<1>5. BcJobs(c)
  <2>1. r.prepares + Len(r.calls) = IF r.jobInProgress THEN 1 ELSE 0
    BY DEF BcJobs
  <2>2. r.jobInProgress => q # <<>>
    BY DEF BcJobs, q
  <2>3. c.jobInProgress => c.jobQueue # <<>>
    BY <1>1, <1>3, <2>2 DEF q
  <2>4. c.runs > 0
    BY <1>1 DEF BcShape
  <2>5. ASSUME NEW i \in DOMAIN c.calls PROVE c.calls[i] = Head(c.jobQueue)
    <3>1. r.calls[i] = Head(q) /\ i \in DOMAIN r.calls
      BY <1>1, <2>5 DEF BcJobs, q
    <3>2. q # <<>>
      <4>1. Len(r.calls) > 0 /\ r.prepares \in Nat
        <5>1. r.calls \in Seq(BcDevices) /\ r.prepares \in Nat
          BY DEF BcShape
        <5> QED
          BY <3>1, <5>1, LenProperties
      <4>2. r.jobInProgress
        BY <2>1, <4>1
      <4> QED
        BY <2>2, <4>2
    <3> QED
      BY <1>1, <1>3, <3>1, <3>2 DEF q
  <2> QED
    BY <1>1, <2>1, <2>3, <2>4, <2>5 DEF BcJobs
<1>6. ~c.gaveUp => BcOwned(c) /\ BcQueued(c)
  <2>1. ASSUME ~c.gaveUp PROVE BcOwned(c) /\ BcQueued(c)
    <3>1. BcOwned(r) /\ BcWaits(r)
      BY <1>1, <2>1
    <3>2. BcOwned(c)
      BY <1>1, <3>1, BcSameOwned
    <3> QED
      BY <1>1, <3>1, <3>2 DEF BcQueued, BcWaits, BcSameSockets
  <2> QED
    BY <2>1
<1>7. BcGood(c)
  BY <1>4, <1>5, <1>6 DEF BcGood
<1> QED
  BY <1>7 DEF c

\* establishL2cpClientSocket(): where nothing is in the way.
LEMMA BcEstablishGood ==
  ASSUME NEW r, BcShape(r), BcJobs(r), NEW fails,
         ~r.gaveUp => BcOwned(r) /\ BcWaits(r) /\ r.jobQueue = <<>>
  PROVE  BcGood(BcEstablish(r, fails))
<1> DEFINE new == IF fails THEN "idle" ELSE "connecting"
           q == [r EXCEPT !.sockets = Append(@, new), !.l2cpSocket = Len(r.sockets) + 1]
           c == BcEstablish(r, fails)
           s == r.sockets
<1>1. c = IF fails THEN [q EXCEPT !.state = "Unconnected"] ELSE q
  BY Zenon DEF BcEstablish
<1>2. /\ DOMAIN q = BcFields /\ q.scenario = r.scenario /\ q.links = r.links
      /\ q.gaveUp = r.gaveUp /\ BcSameJobs(q, r) /\ q.state = r.state
      /\ q.sockets = Append(s, new) /\ q.l2cpSocket = Len(s) + 1
  BY DEF BcShape, BcFields, BcSameJobs
<1> HIDE DEF q, c
<1>3. /\ DOMAIN c = BcFields /\ c.scenario = r.scenario /\ c.links = r.links
      /\ c.gaveUp = r.gaveUp /\ BcSameJobs(c, r)
      /\ c.state = (IF fails THEN "Unconnected" ELSE r.state)
      /\ c.sockets = Append(s, new) /\ c.l2cpSocket = Len(s) + 1
  BY <1>1, <1>2 DEF BcFields, BcSameJobs
<1>4. s \in Seq(BcSockets) /\ new \in {"idle", "connecting"} /\ new \in BcSockets
  BY DEF BcShape, BcSockets
<1>5. fails \/ new = "connecting"
  OBVIOUS
<1>6. fails => new = "idle"
  OBVIOUS
<1> HIDE DEF s, new
<1>7. /\ Append(s, new) \in Seq(BcSockets) /\ Len(Append(s, new)) = Len(s) + 1
      /\ Len(s) \in Nat /\ DOMAIN Append(s, new) = 1..(Len(s) + 1)
      /\ \A i \in 1..Len(s) : Append(s, new)[i] = s[i]
      /\ Append(s, new)[Len(s) + 1] = new /\ DOMAIN s = 1..Len(s)
  BY <1>4, AppendProperties, LenProperties
<1>8. BcShape(c)
  BY <1>3, <1>7 DEF BcShape, BcSameJobs
<1>9. BcJobs(c)
  BY <1>3, BcSameJobsHold
<1>10. ASSUME ~c.gaveUp PROVE BcOwned(c) /\ BcQueued(c)
  <2>1. /\ r.state = "Connecting" /\ r.l2cpSocket = 0 /\ r.jobQueue = <<>>
        /\ \A i \in 1..Len(s) : s[i] \notin {"connecting", "connected", "failed"}
    BY <1>3, <1>7, <1>10 DEF BcOwned, BcWaits, s
  <2>2. c.state \in {"Unconnected", "Connecting"} /\ (c.state = "Unconnected" => fails)
    BY <1>3, <2>1
  <2>3. \A i \in 1..(Len(s) + 1) :
          c.sockets[i] \in {"connecting", "connected", "failed"} =>
            i = Len(s) + 1 /\ c.sockets[i] = new
    BY <1>3, <1>7, <2>1
  <2>4. BcOwned(c)
    BY <1>3, <1>4, <1>6, <1>7, <2>2, <2>3 DEF BcOwned
  <2>5. BcQueued(c)
    BY <1>3, <2>1 DEF BcQueued, BcSameJobs
  <2> QED
    BY <2>4, <2>5
<1>11. BcGood(c)
  BY <1>8, <1>9, <1>10 DEF BcGood
<1> QED
  BY <1>11 DEF c

\* activeConnectionTerminationDone(), when the last job has left the queue.
LEMMA BcTerminationGood ==
  ASSUME NEW r, BcShape(r), BcJobs(r), NEW fails,
         ~r.gaveUp => BcOwned(r) /\ BcWaits(r) /\ r.jobQueue = <<>>
  PROVE  BcGood(BcTerminationDone(r, fails))
<1> DEFINE e == [r EXCEPT !.state = "Unconnected"]
           c == [e EXCEPT !.state = "Unconnected"]
<1>1. BcTerminationDone(r, fails) = c \/ BcTerminationDone(r, fails) = BcEstablish(r, fails)
  BY Zenon DEF BcTerminationDone, BcL2cpDisconnected
<1>2. /\ DOMAIN e = BcFields /\ e.scenario = r.scenario /\ e.links = r.links
      /\ e.gaveUp = r.gaveUp /\ BcSameJobs(e, r)
      /\ e.sockets = r.sockets /\ e.l2cpSocket = r.l2cpSocket
  BY DEF BcShape, BcFields, BcSameJobs
<1> HIDE DEF e
<1>3. /\ DOMAIN c = BcFields /\ c.scenario = r.scenario /\ c.links = r.links
      /\ c.gaveUp = r.gaveUp /\ BcSameJobs(c, r) /\ c.state = "Unconnected"
      /\ c.sockets = r.sockets /\ c.l2cpSocket = r.l2cpSocket
  BY <1>2 DEF BcFields, BcSameJobs
<1> HIDE DEF c
<1>4. BcShape(c)
  BY <1>3 DEF BcShape, BcSameJobs
<1>5. BcJobs(c)
  BY <1>3, BcSameJobsHold
<1>6. ASSUME ~c.gaveUp PROVE BcOwned(c) /\ BcQueued(c)
  <2>1. /\ r.l2cpSocket = 0 /\ r.jobQueue = <<>> /\ BcOwned(r)
        /\ DOMAIN r.sockets = 1..Len(r.sockets) /\ Len(r.sockets) \in Nat
    BY <1>3, <1>6, LenProperties DEF BcWaits, BcShape
  <2>2. \A i \in DOMAIN r.sockets : r.sockets[i] \notin {"connecting", "connected", "failed"}
    BY <2>1 DEF BcOwned
  <2>3. BcOwned(c)
    BY <1>3, <2>2 DEF BcOwned
  <2> QED
    BY <1>3, <2>1, <2>3 DEF BcQueued, BcSameJobs
<1>7. BcGood(c)
  BY <1>4, <1>5, <1>6 DEF BcGood
<1> QED
  BY <1>1, <1>7, BcEstablishGood

\* runQueue() and prepareNextJob(): the head is begun with, if there is one and
\* nothing is under way.
BcCalled(r) ==
  /\ r.prepares + Len(r.calls) = IF r.jobInProgress THEN 1 ELSE 0
  /\ r.jobInProgress => r.jobQueue # <<>>
  /\ \A i \in DOMAIN r.calls : r.calls[i] = Head(r.jobQueue)
LEMMA BcRunGood ==
  ASSUME NEW r, BcShape(r), BcCalled(r), NEW unknown,
         ~r.gaveUp => BcOwned(r) /\ BcQueued(r)
  PROVE  BcGood(BcRun(r, unknown))
<1> DEFINE g == [r EXCEPT !.jobInProgress = TRUE]
           p == [g EXCEPT !.prepares = @ + 1]
           d == [g EXCEPT !.calls = Append(@, Head(g.jobQueue))]
<1>1. BcRun(r, unknown) = IF r.jobInProgress \/ r.jobQueue = <<>> THEN r
                          ELSE IF unknown THEN p ELSE d
  BY Zenon DEF BcRun, BcDisconnectDevice
<1>2. CASE r.jobInProgress \/ r.jobQueue = <<>>
  <2>1. BcJobs(r)
    BY <1>2 DEF BcCalled, BcJobs
  <2>2. BcRun(r, unknown) = r
    BY <1>1, <1>2
  <2> QED
    BY <2>1, <2>2 DEF BcGood
<1>3. CASE ~r.jobInProgress /\ r.jobQueue # <<>>
  <2> DEFINE h == Head(r.jobQueue)
             q == r.jobQueue
  <2>1. /\ DOMAIN g = BcFields /\ g.scenario = r.scenario /\ g.links = r.links
        /\ g.gaveUp = r.gaveUp /\ BcSameSockets(g, r) /\ g.runs = r.runs
        /\ g.jobQueue = r.jobQueue /\ g.calls = r.calls /\ g.prepares = r.prepares
        /\ g.jobInProgress = TRUE
    BY DEF BcShape, BcFields, BcSameSockets
  <2> HIDE DEF g
  <2>2. /\ DOMAIN p = BcFields /\ p.scenario = r.scenario /\ p.links = r.links
        /\ p.gaveUp = r.gaveUp /\ BcSameSockets(p, r) /\ p.runs = r.runs
        /\ p.jobQueue = q /\ p.calls = r.calls /\ p.prepares = r.prepares + 1
        /\ p.jobInProgress = TRUE
    BY <2>1 DEF BcFields, BcSameSockets
  <2>3. /\ DOMAIN d = BcFields /\ d.scenario = r.scenario /\ d.links = r.links
        /\ d.gaveUp = r.gaveUp /\ BcSameSockets(d, r) /\ d.runs = r.runs
        /\ d.jobQueue = q /\ d.calls = Append(r.calls, h) /\ d.prepares = r.prepares
        /\ d.jobInProgress = TRUE
    BY <2>1 DEF BcFields, BcSameSockets
  <2>4. r.prepares = 0 /\ r.calls = <<>>
    <3>1. r.prepares + Len(r.calls) = 0 /\ r.prepares \in Nat /\ r.calls \in Seq(BcDevices)
      BY <1>3 DEF BcCalled, BcShape
    <3>2. Len(r.calls) = 0
      BY <3>1, LenProperties
    <3> QED
      BY <3>1, <3>2, EmptySeq
  <2>5. q # <<>> /\ q \in Seq(BcDevices)
    BY <1>3 DEF BcShape
  <2>6. h \in BcDevices
    <3> HIDE DEF q
    <3> QED
      BY <2>5, HeadTailProperties DEF q
  <2> HIDE DEF h
  <2>7. /\ Append(<<>>, h) \in Seq(BcDevices) /\ Len(Append(<<>>, h)) = 1
        /\ DOMAIN Append(<<>>, h) = {1} /\ Append(<<>>, h)[1] = h
    BY <2>6
  <2>8. Len(<<>>) = 0 /\ DOMAIN <<>> = {}
    BY EmptySeq
  <2> HIDE DEF p, d
  <2>9. ASSUME NEW c \in {p, d}
        PROVE  BcGood(c)
    <3>1. /\ DOMAIN c = BcFields /\ c.scenario = r.scenario /\ c.links = r.links
          /\ c.gaveUp = r.gaveUp /\ BcSameSockets(c, r) /\ c.runs = r.runs
          /\ c.jobQueue = q /\ c.jobInProgress = TRUE
      BY <2>2, <2>3
    <3>2. \/ c.calls = <<>> /\ c.prepares = 1
          \/ c.calls = Append(<<>>, h) /\ c.prepares = 0
      BY <2>2, <2>3, <2>4
    <3> HIDE DEF q
    <3>3. /\ c.calls \in Seq(BcDevices) /\ c.prepares \in Nat
          /\ c.prepares + Len(c.calls) = 1
          /\ \A i \in DOMAIN c.calls : c.calls[i] = h
      <4>1. <<>> \in Seq(BcDevices)
        BY EmptySeq
      <4>2. CASE c.calls = <<>> /\ c.prepares = 1
        BY <2>8, <4>1, <4>2
      <4>3. CASE c.calls = Append(<<>>, h) /\ c.prepares = 0
        BY <2>7, <4>3
      <4> QED
        BY <3>2, <4>2, <4>3
    <3>4. c.jobInProgress \in BOOLEAN /\ c.jobInProgress
      BY <3>1, Zenon
    <3>5. BcShape(c)
      BY <3>1, <3>3, <3>4, <2>5 DEF BcShape, BcSameSockets
    <3>6. BcJobs(c)
      BY <2>5, <3>1, <3>3, <3>4 DEF BcJobs, h, q
    <3>7. ASSUME ~c.gaveUp PROVE BcOwned(c) /\ BcQueued(c)
      <4>1. BcOwned(r) /\ BcQueued(r)
        BY <3>1, <3>7
      <4>2. BcOwned(c)
        BY <3>1, <4>1, BcSameOwned
      <4> QED
        BY <3>1, <4>1, <4>2 DEF BcQueued, BcWaits, BcSameSockets, q
    <3> QED
      BY <3>5, <3>6, <3>7 DEF BcGood
  <2>10. BcRun(r, unknown) \in {p, d}
    BY <1>1, <1>3
  <2> QED
    BY <2>9, <2>10
<1> QED
  BY <1>2, <1>3

LEMMA BcPrepareGood ==
  ASSUME NEW r, BcShape(r), r.prepares + Len(r.calls) = 0, r.jobQueue # <<>>,
         ~r.gaveUp => BcOwned(r) /\ BcWaits(r), NEW unknown, NEW fails
  PROVE  BcGood(BcPrepare(r, unknown, fails))
<1> DEFINE q == [r EXCEPT !.jobQueue = Tail(@), !.jobInProgress = FALSE]
           j == r.jobQueue
<1>1. BcPrepare(r, unknown, fails) =
        IF q.jobQueue = <<>> THEN BcTerminationDone(q, fails) ELSE BcRun(q, unknown)
  BY Zenon DEF BcPrepare
<1>2. /\ DOMAIN q = BcFields /\ q.scenario = r.scenario /\ q.links = r.links
      /\ q.gaveUp = r.gaveUp /\ BcSameSockets(q, r) /\ q.runs = r.runs
      /\ q.jobQueue = Tail(j) /\ q.calls = r.calls /\ q.prepares = r.prepares
      /\ q.jobInProgress = FALSE
  BY DEF BcShape, BcFields, BcSameSockets
<1> HIDE DEF q
<1>3. j \in Seq(BcDevices) /\ j # <<>>
  BY DEF BcShape
<1> HIDE DEF j
<1>4. Tail(j) \in Seq(BcDevices)
  BY <1>3, HeadTailProperties
<1>5. q.jobInProgress \in BOOLEAN /\ ~q.jobInProgress
  BY <1>2, Zenon
<1>6. BcShape(q)
  BY <1>2, <1>4, <1>5 DEF BcShape, BcSameSockets
<1>7. Len(q.calls) = 0 /\ q.prepares = 0 /\ DOMAIN q.calls = {}
  <2>1. r.calls \in Seq(BcDevices) /\ r.prepares \in Nat
    BY DEF BcShape
  <2> QED
    BY <1>2, <2>1, LenProperties
<1>8. BcCalled(q)
  BY <1>5, <1>7 DEF BcCalled
<1>9. ASSUME ~q.gaveUp PROVE BcOwned(q) /\ BcWaits(q)
  <2>1. BcOwned(r) /\ BcWaits(r)
    BY <1>2, <1>9
  <2>2. BcOwned(q)
    BY <1>2, <2>1, BcSameOwned
  <2> QED
    BY <1>2, <2>1, <2>2 DEF BcWaits, BcSameSockets
<1>10. CASE q.jobQueue = <<>>
  <2>1. BcJobs(q)
    BY <1>5, <1>7, <1>10 DEF BcJobs
  <2>2. BcGood(BcTerminationDone(q, fails))
    BY <1>6, <1>9, <1>10, <2>1, BcTerminationGood
  <2> QED
    BY <1>1, <1>10, <2>2
<1>11. CASE q.jobQueue # <<>>
  <2>1. ~q.gaveUp => BcOwned(q) /\ BcQueued(q)
    BY <1>9 DEF BcQueued
  <2>2. BcGood(BcRun(q, unknown))
    BY <1>6, <1>8, <2>1, BcRunGood
  <2> QED
    BY <1>1, <1>11, <2>2
<1> QED
  BY <1>10, <1>11

LEMMA BcRunQueueGood ==
  ASSUME BcGood(bc), BcRunQueue
  PROVE  BcGood(bc')
<1> DEFINE r == [bc EXCEPT !.runs = @ - 1]
<1>1. PICK unknown : bc' = BcRun(r, unknown)
  BY Zenon DEF BcRunQueue
<1>2. /\ DOMAIN r = BcFields /\ r.scenario = bc.scenario /\ r.links = bc.links
      /\ r.gaveUp = bc.gaveUp /\ BcSameSockets(r, bc) /\ r.runs = bc.runs - 1
      /\ r.jobQueue = bc.jobQueue /\ r.calls = bc.calls /\ r.prepares = bc.prepares
      /\ r.jobInProgress = bc.jobInProgress
  BY DEF BcGood, BcShape, BcFields, BcSameSockets
<1> HIDE DEF r
<1>3. bc.runs > 0
  BY DEF BcRunQueue
<1>4. BcShape(r)
  BY <1>2, <1>3 DEF BcGood, BcShape, BcSameSockets
<1>5. BcCalled(r)
  BY <1>2 DEF BcGood, BcJobs, BcCalled
<1>6. ASSUME ~r.gaveUp PROVE BcOwned(r) /\ BcQueued(r)
  <2>1. BcOwned(bc) /\ BcQueued(bc)
    BY <1>2, <1>6 DEF BcGood
  <2>2. BcOwned(r)
    BY <1>2, <2>1, BcSameOwned
  <2> QED
    BY <1>2, <2>1, <2>2 DEF BcQueued, BcWaits, BcSameSockets
<1>7. BcGood(BcRun(r, unknown))
  BY <1>4, <1>5, <1>6, BcRunGood
<1> QED
  BY <1>1, <1>7

LEMMA BcPrepareNextGood ==
  ASSUME BcGood(bc), BcPrepareNextJob
  PROVE  BcGood(bc')
<1> DEFINE r == [bc EXCEPT !.prepares = @ - 1]
<1>1. PICK unknown, fails : bc' = BcPrepare(r, unknown, fails)
  BY Zenon DEF BcPrepareNextJob
<1>2. /\ DOMAIN r = BcFields /\ r.scenario = bc.scenario /\ r.links = bc.links
      /\ r.gaveUp = bc.gaveUp /\ BcSameSockets(r, bc) /\ r.runs = bc.runs
      /\ r.jobQueue = bc.jobQueue /\ r.calls = bc.calls /\ r.prepares = bc.prepares - 1
      /\ r.jobInProgress = bc.jobInProgress
  BY DEF BcGood, BcShape, BcFields, BcSameSockets
<1> HIDE DEF r
<1>3. /\ bc.prepares > 0 /\ bc.prepares \in Nat /\ Len(bc.calls) \in Nat
      /\ bc.prepares + Len(bc.calls) = IF bc.jobInProgress THEN 1 ELSE 0
      /\ bc.jobInProgress => bc.jobQueue # <<>>
  <2>1. bc.calls \in Seq(BcDevices)
    BY DEF BcGood, BcShape
  <2>2. Len(bc.calls) \in Nat
    BY <2>1, LenProperties
  <2> QED
    BY <2>2 DEF BcGood, BcShape, BcJobs, BcPrepareNextJob
<1>4. bc.prepares = 1 /\ Len(bc.calls) = 0 /\ bc.jobQueue # <<>>
  BY <1>3
<1>5. BcShape(r) /\ r.prepares + Len(r.calls) = 0 /\ r.jobQueue # <<>>
  BY <1>2, <1>4 DEF BcGood, BcShape, BcSameSockets
<1>6. ASSUME ~r.gaveUp PROVE BcOwned(r) /\ BcWaits(r)
  <2>1. BcOwned(bc) /\ BcQueued(bc)
    BY <1>2, <1>6 DEF BcGood
  <2>2. BcOwned(r)
    BY <1>2, <2>1, BcSameOwned
  <2> QED
    BY <1>2, <1>4, <2>1, <2>2 DEF BcQueued, BcWaits, BcSameSockets
<1>7. BcGood(BcPrepare(r, unknown, fails))
  BY <1>5, <1>6, BcPrepareGood
<1> QED
  BY <1>1, <1>7

LEMMA BcReplyGood ==
  ASSUME BcGood(bc), BcDisconnectReply
  PROVE  BcGood(bc')
<1> DEFINE p == [bc EXCEPT !.calls = Tail(@)]
           new == IF Head(bc.calls) # BcDevice THEN p.sockets
                  ELSE [i \in DOMAIN p.sockets |->
                          IF i \in BcOwnLinks(p) THEN "failed" ELSE p.sockets[i]]
           cut == [p EXCEPT !.links = @ \ {Head(bc.calls)}, !.sockets = new]
<1>1. PICK r, unknown, fails :
            r \in {p, cut} /\ bc' = BcPrepare(r, unknown, fails)
  <2>1. PICK unknown, fails, stays :
          LET cutAt == [p EXCEPT !.links = @ \ {Head(bc.calls)},
                            !.sockets = IF Head(bc.calls) # BcDevice THEN @
                                        ELSE [i \in DOMAIN @ |->
                                               IF i \in BcOwnLinks(p) THEN "failed" ELSE @[i]]]
          IN  bc' = BcPrepare(IF stays THEN p ELSE cutAt, unknown, fails)
    BY Zenon DEF BcDisconnectReply
  <2>2. bc' = BcPrepare(IF stays THEN p ELSE cut, unknown, fails)
    BY <2>1
  <2> HIDE DEF p, cut
  <2> QED
    BY <2>2
<1> DEFINE k == bc.calls
<1>2. /\ k \in Seq(BcDevices) /\ k # <<>> /\ bc.prepares \in Nat
      /\ bc.prepares + Len(k) = IF bc.jobInProgress THEN 1 ELSE 0
      /\ bc.jobInProgress => bc.jobQueue # <<>>
  BY DEF BcGood, BcShape, BcJobs, BcDisconnectReply
<1>3. /\ DOMAIN p = BcFields /\ p.scenario = bc.scenario /\ p.links = bc.links
      /\ p.gaveUp = bc.gaveUp /\ BcSameSockets(p, bc) /\ p.runs = bc.runs
      /\ p.jobQueue = bc.jobQueue /\ p.calls = Tail(k) /\ p.prepares = bc.prepares
      /\ p.jobInProgress = bc.jobInProgress
  BY DEF BcGood, BcShape, BcFields, BcSameSockets
<1> HIDE DEF p, k, new
<1>4. /\ DOMAIN cut = BcFields /\ cut.scenario = bc.scenario /\ cut.links \subseteq bc.links
      /\ cut.gaveUp = bc.gaveUp /\ cut.sockets = new /\ cut.state = bc.state
      /\ cut.l2cpSocket = bc.l2cpSocket /\ cut.runs = bc.runs
      /\ cut.jobQueue = bc.jobQueue /\ cut.calls = Tail(k) /\ cut.prepares = bc.prepares
      /\ cut.jobInProgress = bc.jobInProgress
  BY <1>3 DEF BcFields, BcSameSockets
<1> HIDE DEF cut
<1>4a. r \in {p, cut}
  BY <1>1
<1>5. Len(k) = 1 /\ bc.prepares = 0 /\ bc.jobQueue # <<>>
  <2>1. Len(k) \in Nat /\ Len(k) > 0
    BY <1>2, LenProperties, EmptySeq
  <2> DEFINE l == Len(k)
             m == bc.prepares
  <2>2. l \in Nat /\ l > 0 /\ m \in Nat /\ m + l = IF bc.jobInProgress THEN 1 ELSE 0
    BY <1>2, <2>1
  <2> HIDE DEF l, m
  <2>3. bc.jobInProgress /\ l = 1 /\ m = 0
    BY ONLY <2>2
  <2> QED
    BY <1>2, <2>3 DEF l, m
<1>6. Tail(k) \in Seq(BcDevices) /\ Len(Tail(k)) = 0
  BY <1>2, <1>5, HeadTailProperties
<1>7. /\ bc.sockets \in Seq(BcSockets) /\ p.sockets = bc.sockets
      /\ DOMAIN bc.sockets = 1..Len(bc.sockets) /\ Len(bc.sockets) \in Nat
      /\ \A i \in 1..Len(bc.sockets) : bc.sockets[i] \in BcSockets
  <2>1. bc.sockets \in Seq(BcSockets) /\ p.sockets = bc.sockets
    BY <1>3 DEF BcGood, BcShape, BcSameSockets
  <2> QED
    BY <2>1, LenProperties, ElementOfSeq
<1>8. new \in Seq(BcSockets) /\ Len(new) = Len(bc.sockets)
  <2> DEFINE n == Len(bc.sockets)
  <2>1. CASE Head(bc.calls) # BcDevice
    BY <1>7, <2>1 DEF new
  <2>2. CASE Head(bc.calls) = BcDevice
    <3>1. new = [i \in 1..n |-> IF i \in BcOwnLinks(p) THEN "failed" ELSE bc.sockets[i]]
      BY <1>7, <2>2 DEF new
    <3>2. new \in [1..n -> BcSockets]
      BY <1>7, <3>1 DEF BcSockets
    <3> HIDE DEF n
    <3>3. n \in Nat
      BY <1>7 DEF n
    <3>4. new \in Seq(BcSockets) /\ Len(new) = n
      BY <3>2, <3>3, SeqDef, LenProperties
    <3> QED
      BY <3>4 DEF n
  <2> QED
    BY <2>1, <2>2
<1>9. BcShape(r) /\ r.prepares + Len(r.calls) = 0 /\ r.jobQueue # <<>>
  <2>1. BcShape(bc)
    BY DEF BcGood
  <2>2. BcShape(p)
    BY <1>3, <1>6, <2>1 DEF BcShape, BcSameSockets
  <2>3. BcShape(cut)
    BY <1>4, <1>6, <1>8, <2>1 DEF BcShape
  <2> QED
    BY <1>3, <1>4, <1>5, <1>6, <1>4a, <2>2, <2>3
<1>10. ASSUME ~r.gaveUp PROVE BcOwned(r) /\ BcWaits(r)
  <2>1. BcOwned(bc) /\ BcWaits(bc)
    BY <1>3, <1>4, <1>5, <1>10, <1>4a DEF BcGood, BcQueued
  <2>2. \A i \in 1..Len(bc.sockets) : bc.sockets[i] # "connected"
    BY <1>7, <2>1 DEF BcOwned, BcWaits
  <2>3. BcOwnLinks(p) = {}
    BY <1>7, <2>2 DEF BcOwnLinks
  <2>4. new = bc.sockets
    <3>1. CASE Head(bc.calls) # BcDevice
      BY <1>7, <3>1 DEF new
    <3>2. CASE Head(bc.calls) = BcDevice
      <4>1. new = [i \in DOMAIN bc.sockets |-> bc.sockets[i]]
        BY <1>7, <2>3, <3>2 DEF new
      <4>2. bc.sockets = [i \in DOMAIN bc.sockets |-> bc.sockets[i]]
        <5>1. bc.sockets \in [1..Len(bc.sockets) -> BcSockets]
          BY <1>7, LenProperties
        <5> QED
          BY <5>1
      <4> QED
        BY <4>1, <4>2
    <3> QED
      BY <3>1, <3>2
  <2>5. BcSameSockets(r, bc)
    BY <1>3, <1>4, <1>4a, <2>4 DEF BcSameSockets
  <2>6. BcOwned(r)
    BY <2>1, <2>5, BcSameOwned
  <2> QED
    BY <2>1, <2>5, <2>6 DEF BcWaits, BcSameSockets
<1>11. BcGood(BcPrepare(r, unknown, fails))
  BY <1>9, <1>10, BcPrepareGood
<1> QED
  BY <1>1, <1>11

\* One socket changes.
LEMMA BcSocketSets ==
  ASSUME NEW r, BcShape(r), NEW i \in DOMAIN r.sockets, NEW new \in BcSockets
  PROVE  LET c == [r EXCEPT !.sockets[i] = new]
         IN  /\ BcShape(c) /\ BcSameJobs(c, r) /\ c.gaveUp = r.gaveUp
             /\ c.state = r.state /\ c.l2cpSocket = r.l2cpSocket /\ c.links = r.links
             /\ DOMAIN c.sockets = DOMAIN r.sockets /\ c.sockets[i] = new
             /\ \A j \in DOMAIN r.sockets \ {i} : c.sockets[j] = r.sockets[j]
<1> DEFINE s == r.sockets
           t == [s EXCEPT ![i] = new]
           c == [r EXCEPT !.sockets[i] = new]
<1>1. /\ DOMAIN c = BcFields /\ c.scenario = r.scenario /\ c.links = r.links
      /\ c.gaveUp = r.gaveUp /\ BcSameJobs(c, r) /\ c.state = r.state
      /\ c.l2cpSocket = r.l2cpSocket /\ c.sockets = t
  BY DEF BcShape, BcFields, BcSameJobs
<1>2. s \in Seq(BcSockets)
  BY DEF BcShape
<1> HIDE DEF s, c
<1>3. /\ s \in [1..Len(s) -> BcSockets] /\ Len(s) \in Nat /\ i \in 1..Len(s)
  BY <1>2, LenProperties DEF s
<1>4. t \in [1..Len(s) -> BcSockets] /\ t[i] = new /\ \A j \in 1..Len(s) \ {i} : t[j] = s[j]
  BY <1>3
<1> HIDE DEF t
<1>5. t \in Seq(BcSockets) /\ Len(t) = Len(s)
  <2> DEFINE n == Len(s)
  <2>1. t \in [1..n -> BcSockets] /\ n \in Nat
    BY <1>3, <1>4
  <2> HIDE DEF n
  <2>2. t \in Seq(BcSockets) /\ Len(t) = n
    BY <2>1, SeqDef, LenProperties
  <2> QED
    BY <2>2 DEF n
<1>6. BcShape(c)
  BY <1>1, <1>5 DEF BcShape, BcSameJobs, s
<1>7. /\ DOMAIN c.sockets = DOMAIN r.sockets /\ c.sockets[i] = new
      /\ \A j \in DOMAIN r.sockets \ {i} : c.sockets[j] = r.sockets[j]
  BY <1>1, <1>3, <1>4 DEF s
<1> QED
  BY <1>1, <1>6, <1>7 DEF c

\* The state is set; what ends in it is told with links or the giving up.
LEMMA BcStateSets ==
  ASSUME NEW r, BcShape(r), NEW new, NEW l \in SUBSET BcDevices, NEW g \in BOOLEAN,
         NEW c, DOMAIN c = BcFields, c.state = new, c.links = l, c.gaveUp = g,
         \A f \in BcFields \ {"state", "links", "gaveUp", "connects"} : c[f] = r[f]
  PROVE  /\ BcShape(c) /\ BcSameJobs(c, r) /\ c.sockets = r.sockets
         /\ c.l2cpSocket = r.l2cpSocket
<1>1. /\ c.scenario = r.scenario /\ c.sockets = r.sockets /\ c.l2cpSocket = r.l2cpSocket
      /\ BcSameJobs(c, r)
  BY DEF BcFields, BcSameJobs
<1>2. BcShape(c)
  BY <1>1 DEF BcShape, BcSameJobs
<1> QED
  BY <1>1, <1>2

LEMMA BcLeavesGood ==
  ASSUME BcGood(bc), BcOtherLeaves
  PROVE  BcGood(bc')
<1>1. PICK d : bc' = [bc EXCEPT !.links = @ \ {d}]
  BY DEF BcOtherLeaves
<1>2. /\ DOMAIN bc' = BcFields /\ bc'.state = bc.state /\ bc'.links = bc.links \ {d}
      /\ bc'.gaveUp = bc.gaveUp
      /\ \A f \in BcFields \ {"state", "links", "gaveUp", "connects"} : bc'[f] = bc[f]
  BY <1>1 DEF BcGood, BcShape, BcFields
<1>3. BcShape(bc) /\ bc.links \ {d} \subseteq BcDevices /\ bc.gaveUp \in BOOLEAN
  BY DEF BcGood, BcShape
<1>4. /\ BcShape(bc') /\ BcSameJobs(bc', bc) /\ BcSameSockets(bc', bc)
  BY <1>2, <1>3, BcStateSets DEF BcSameSockets
<1>5. BcJobs(bc')
  BY <1>4, BcSameJobsHold DEF BcGood
<1>6. ASSUME ~bc'.gaveUp PROVE BcOwned(bc') /\ BcQueued(bc')
  <2>1. BcOwned(bc) /\ BcQueued(bc)
    BY <1>2, <1>6 DEF BcGood
  <2>2. BcOwned(bc')
    BY <1>4, <2>1, BcSameOwned
  <2> QED
    BY <1>4, <2>1, <2>2 DEF BcQueued, BcWaits, BcSameSockets, BcSameJobs
<1> QED
  BY <1>4, <1>5, <1>6 DEF BcGood

\* A socket's end or success, and the state that follows.
BcSocketSet(r, i, new) == [r EXCEPT !.sockets[i] = new]
BcStateOf(new) == IF new = "connected" THEN "Connected" ELSE "Unconnected"
BcTold(c, s, state) ==
  /\ DOMAIN c = BcFields /\ c.state = state /\ c.links \in SUBSET BcDevices
  /\ c.gaveUp = s.gaveUp
  /\ \A f \in BcFields \ {"state", "links", "gaveUp", "connects"} : c[f] = s[f]
LEMMA BcSocketGood ==
  ASSUME BcGood(bc), NEW i \in DOMAIN bc.sockets,
         NEW new \in {"connected", "failed", "closed"},
         bc.sockets[i] \in {"connecting", "connected", "failed"} \/ i = bc.l2cpSocket,
         NEW c, BcTold(c, BcSocketSet(bc, i, new), BcStateOf(new))
  PROVE  BcGood(c)
<1> DEFINE s == BcSocketSet(bc, i, new)
           state == BcStateOf(new)
           l == c.links
<1>1. BcShape(bc) /\ new \in BcSockets
  BY DEF BcGood, BcSockets
<1>2. /\ BcShape(s) /\ BcSameJobs(s, bc) /\ s.gaveUp = bc.gaveUp
      /\ s.l2cpSocket = bc.l2cpSocket
      /\ DOMAIN s.sockets = DOMAIN bc.sockets /\ s.sockets[i] = new
      /\ \A j \in DOMAIN bc.sockets \ {i} : s.sockets[j] = bc.sockets[j]
  BY <1>1, BcSocketSets DEF BcSocketSet
<1>3. /\ DOMAIN c = BcFields /\ c.state = state /\ c.links = l /\ c.gaveUp = s.gaveUp
      /\ l \in SUBSET BcDevices
      /\ \A f \in BcFields \ {"state", "links", "gaveUp", "connects"} : c[f] = s[f]
  BY DEF BcTold
<1> HIDE DEF s, l, state
<1>4. /\ BcShape(c) /\ BcSameJobs(c, s) /\ c.sockets = s.sockets
      /\ c.l2cpSocket = s.l2cpSocket
  <2>1. s.gaveUp \in BOOLEAN
    BY <1>2 DEF BcShape
  <2> QED
    BY <1>2, <1>3, <2>1, BcStateSets
<1>5. BcJobs(c)
  <2>1. BcSameJobs(c, bc)
    BY <1>2, <1>4 DEF BcSameJobs
  <2> QED
    BY <2>1, BcSameJobsHold DEF BcGood
<1>6. ASSUME ~c.gaveUp PROVE BcOwned(c) /\ BcQueued(c)
  <2>1. BcOwned(bc) /\ BcQueued(bc)
    BY <1>2, <1>3, <1>6 DEF BcGood
  <2>2. i = bc.l2cpSocket
    BY <2>1 DEF BcOwned
  <2>3. \A j \in DOMAIN c.sockets :
          c.sockets[j] \in {"connecting", "connected", "failed"} => j = c.l2cpSocket
    BY <1>2, <1>4, <2>1, <2>2 DEF BcOwned
  <2>4. \A j \in DOMAIN c.sockets :
          c.sockets[j] \in {"connecting", "connected"} => j = i
    BY <1>2, <1>4, <2>2, <2>3
  <2>5. BcOwned(c)
    BY <1>2, <1>3, <1>4, <2>3, <2>4 DEF BcOwned, state, BcStateOf
  <2>6. bc.l2cpSocket # 0
    <3>1. bc.sockets \in Seq(BcSockets)
      BY <1>1 DEF BcShape
    <3> QED
      BY <2>2, <3>1, LenProperties
  <2>7. bc.jobQueue = <<>>
    BY <2>1, <2>6 DEF BcQueued, BcWaits
  <2> QED
    BY <1>2, <1>4, <2>5, <2>7 DEF BcQueued, BcSameJobs
<1> QED
  BY <1>4, <1>5, <1>6 DEF BcGood

LEMMA BcSocketsGood ==
  ASSUME BcGood(bc), NEW i \in DOMAIN bc.sockets,
         BcSocketConnected(i) \/ BcSocketRefused(i) \/ BcSocketEnds(i)
  PROVE  BcGood(bc')
<1>1. BcShape(bc) /\ bc.links \in SUBSET BcDevices
  BY DEF BcGood, BcShape
<1>2. ASSUME NEW new \in {"connected", "failed", "closed"},
             bc.sockets[i] \in {"connecting", "connected", "failed"},
             NEW n \in {1, 2},
             LET s == [bc EXCEPT !.sockets[i] = new]
                 w == IF new = "connected" THEN "Connected" ELSE "Unconnected"
                 one == [s EXCEPT !.state = w]
             IN  bc' = IF n = 1 THEN one ELSE [one EXCEPT !.state = w]
      PROVE  BcGood(bc')
  <2> DEFINE s == [bc EXCEPT !.sockets[i] = new]
             w == IF new = "connected" THEN "Connected" ELSE "Unconnected"
             one == [s EXCEPT !.state = w]
  <2>1. DOMAIN s = BcFields /\ s.links = bc.links
    BY <1>1 DEF BcShape, BcFields
  <2>2. bc' = IF n = 1 THEN one ELSE [one EXCEPT !.state = w]
    BY <1>2
  <2> HIDE DEF s, w
  <2>3. /\ DOMAIN one = BcFields /\ one.state = w /\ one.links = bc.links
        /\ one.gaveUp = s.gaveUp
        /\ \A f \in BcFields \ {"state", "links", "gaveUp", "connects"} : one[f] = s[f]
    BY <2>1 DEF BcFields
  <2> HIDE DEF one
  <2>4. /\ DOMAIN bc' = BcFields /\ bc'.state = w /\ bc'.links = bc.links
        /\ bc'.gaveUp = s.gaveUp
        /\ \A f \in BcFields \ {"state", "links", "gaveUp", "connects"} : bc'[f] = s[f]
    BY <2>2, <2>3 DEF BcFields
  <2>5. BcTold(bc', s, w)
    BY <1>1, <2>4 DEF BcTold
  <2>6. BcTold(bc', BcSocketSet(bc, i, new), BcStateOf(new))
    BY <2>5, Zenon DEF s, w, BcSocketSet, BcStateOf
  <2>7. \/ bc.sockets[i] \in {"connecting", "connected", "failed"}
        \/ i = bc.l2cpSocket
    BY <1>2
  <2> QED
    BY <2>6, <2>7, BcSocketGood
<1>3. CASE BcSocketConnected(i)
  <2>1. bc' = [[bc EXCEPT !.sockets[i] = "connected"] EXCEPT !.state = "Connected"]
    BY <1>3, Zenon DEF BcSocketConnected
  <2>2. bc.sockets[i] = "connecting"
    BY <1>3 DEF BcSocketConnected
  <2> QED
    BY <1>2, <2>1, <2>2
<1>4. CASE BcSocketRefused(i)
  <2>1. bc' = [[bc EXCEPT !.sockets[i] = "failed"] EXCEPT !.state = "Unconnected"]
    BY <1>4, Zenon DEF BcSocketRefused, BcL2cpErrorChanged
  <2>2. bc.sockets[i] = "connecting"
    BY <1>4 DEF BcSocketRefused
  <2> QED
    BY <1>2, <2>1, <2>2
<1>5. CASE BcSocketEnds(i)
  <2>1. bc' = [[[bc EXCEPT !.sockets[i] = "closed"] EXCEPT !.state = "Unconnected"]
                 EXCEPT !.state = "Unconnected"]
    BY <1>5, Zenon DEF BcSocketEnds, BcL2cpErrorChanged, BcL2cpDisconnected
  <2>2. bc.sockets[i] \in {"failed", "connected"}
    BY <1>5 DEF BcSocketEnds
  <2> QED
    BY <1>2, <2>1, <2>2
<1> QED
  BY <1>3, <1>4, <1>5

LEMMA BcDisconnectGood ==
  ASSUME BcGood(bc), BcDisconnectFromDevice
  PROVE  BcGood(bc')
<1>1. BcShape(bc) /\ bc.state # "Unconnected" /\ bc.links \in SUBSET BcDevices
  BY DEF BcGood, BcShape, BcDisconnectFromDevice
<1>2. CASE bc.l2cpSocket = 0
  <2> DEFINE g == [bc EXCEPT !.gaveUp = @ \/ bc.jobQueue # <<>>]
             gone == bc.gaveUp \/ bc.jobQueue # <<>>
  <2>1. bc' = [g EXCEPT !.state = "Unconnected"]
    BY <1>2, Zenon DEF BcDisconnectFromDevice, BcL2cpDisconnected
  <2>2. /\ DOMAIN g = BcFields /\ g.gaveUp = gone /\ g.links = bc.links
        /\ \A f \in BcFields \ {"state", "links", "gaveUp", "connects"} : g[f] = bc[f]
    BY <1>1 DEF BcShape, BcFields
  <2> HIDE DEF g, gone
  <2>3. /\ DOMAIN bc' = BcFields /\ bc'.state = "Unconnected" /\ bc'.links = bc.links
        /\ bc'.gaveUp = gone
        /\ \A f \in BcFields \ {"state", "links", "gaveUp", "connects"} : bc'[f] = bc[f]
    BY <2>1, <2>2 DEF BcFields
  <2>4. gone \in BOOLEAN
    BY Zenon DEF gone
  <2>5. /\ BcShape(bc') /\ BcSameJobs(bc', bc) /\ bc'.sockets = bc.sockets
        /\ bc'.l2cpSocket = bc.l2cpSocket
    BY <1>1, <2>3, <2>4, BcStateSets
  <2>6. BcJobs(bc')
    BY <2>5, BcSameJobsHold DEF BcGood
  <2>7. ASSUME ~bc'.gaveUp PROVE BcOwned(bc') /\ BcQueued(bc')
    <3>1. ~gone
      BY <2>3, <2>7
    <3>2. ~bc.gaveUp /\ bc.jobQueue = <<>>
      BY <3>1, Zenon DEF gone
    <3>3. BcOwned(bc) /\ DOMAIN bc.sockets = 1..Len(bc.sockets) /\ Len(bc.sockets) \in Nat
      BY <1>1, <3>2, LenProperties DEF BcGood, BcShape
    <3>4. \A i \in DOMAIN bc.sockets :
            bc.sockets[i] \notin {"connecting", "connected", "failed"}
      BY <1>2, <3>3 DEF BcOwned
    <3>5. BcOwned(bc')
      BY <2>3, <2>5, <3>4 DEF BcOwned
    <3> QED
      BY <2>5, <3>2, <3>5 DEF BcQueued, BcSameJobs
  <2> QED
    BY <2>5, <2>6, <2>7 DEF BcGood
<1>3. CASE bc.l2cpSocket # 0
  <2> DEFINE i == bc.l2cpSocket
             s == BcSocketSet(bc, i, "closed")
  <2>1. PICK more \in SUBSET {BcDevice} :
          bc' = [[bc EXCEPT !.sockets[bc.l2cpSocket] = "closed", !.links = @ \union more]
                   EXCEPT !.state = "Unconnected"]
    <3>1. PICK lingers \in BOOLEAN :
            bc' = [[bc EXCEPT !.sockets[bc.l2cpSocket] = "closed",
                              !.links = @ \union IF lingers /\ bc.state = "Connected"
                                                  THEN {BcDevice} ELSE {}]
                     EXCEPT !.state = "Unconnected"]
      BY <1>3, Zenon DEF BcDisconnectFromDevice, BcL2cpDisconnected, BcMaybe
    <3> QED
      BY <3>1, Zenon
  <2>2. i \in DOMAIN bc.sockets
    <3>1. bc.sockets \in Seq(BcSockets) /\ i \in 0..Len(bc.sockets)
      BY <1>1 DEF BcShape
    <3> QED
      BY <1>3, <3>1, LenProperties
  <2> DEFINE e == [bc EXCEPT !.sockets[bc.l2cpSocket] = "closed", !.links = @ \union more]
  <2>3. /\ DOMAIN e = BcFields /\ e.gaveUp = s.gaveUp
        /\ e.links = bc.links \union more
        /\ \A f \in BcFields \ {"state", "links", "gaveUp", "connects"} : e[f] = s[f]
    BY <1>1 DEF BcShape, BcFields, BcSocketSet
  <2>4. bc' = [e EXCEPT !.state = "Unconnected"]
    BY <2>1
  <2> HIDE DEF e, s, i
  <2>5. BcTold(bc', s, "Unconnected")
    <3>1. bc.links \union more \in SUBSET BcDevices
      BY <1>1 DEF BcDevices
    <3> QED
      BY <2>3, <2>4, <3>1 DEF BcTold, BcFields
  <2>6. BcTold(bc', BcSocketSet(bc, i, "closed"), BcStateOf("closed"))
    BY <2>5 DEF BcStateOf, s
  <2> QED
    BY <2>2, <2>6, BcSocketGood DEF i
<1> QED
  BY <1>2, <1>3

LEMMA BcConnectGood ==
  ASSUME BcGood(bc), BcConnectToDevice
  PROVE  BcGood(bc')
<1> DEFINE r == [bc EXCEPT !.state = "Connecting", !.connects = @ + 1]
           p == BcDeleteSocket(r)
           away == [p EXCEPT !.links = {}]
<1>1. /\ bc.state = "Unconnected"
      /\ \/ bc' = BcScheduleJob(p, SetToSeq(BcActive(p)))
         \/ bc' = p
         \/ bc' = BcScheduleJob(away, <<>>)
         \/ \E fails : bc' = BcEstablish(p, fails)
  BY Zenon DEF BcConnectToDevice
<1>2. BcShape(bc) /\ BcJobs(bc)
  BY DEF BcGood
<1>3. /\ DOMAIN r = BcFields /\ r.state = "Connecting" /\ r.gaveUp = bc.gaveUp
      /\ r.links = bc.links
      /\ \A f \in BcFields \ {"state", "links", "gaveUp", "connects"} : r[f] = bc[f]
  BY <1>2 DEF BcShape, BcFields
<1>4. p = IF r.l2cpSocket = 0 THEN r
          ELSE [r EXCEPT !.sockets[r.l2cpSocket] = "deleted", !.l2cpSocket = 0]
  BY Zenon DEF BcDeleteSocket
<1> HIDE DEF r, p
<1>5. /\ BcShape(r) /\ BcSameJobs(r, bc) /\ r.sockets = bc.sockets
      /\ r.l2cpSocket = bc.l2cpSocket
  <2>1. bc.links \in SUBSET BcDevices /\ bc.gaveUp \in BOOLEAN
    BY <1>2 DEF BcShape
  <2> QED
    BY <1>2, <1>3, <2>1, BcStateSets
<1>6. ASSUME ~bc.gaveUp
      PROVE  /\ bc.jobQueue = <<>>
             /\ \A i \in DOMAIN bc.sockets :
                  bc.sockets[i] \in {"connecting", "connected", "failed"} =>
                    i = bc.l2cpSocket
  BY <1>1, <1>6 DEF BcGood, BcOwned, BcQueued, BcWaits
<1>7. /\ BcShape(p) /\ BcSameJobs(p, bc) /\ p.gaveUp = bc.gaveUp /\ BcWaits(p)
      /\ ~bc.gaveUp => \A i \in DOMAIN p.sockets :
                         p.sockets[i] \notin {"connecting", "connected", "failed"}
  <2>1. CASE r.l2cpSocket = 0
    <3>1. bc.sockets \in Seq(BcSockets) /\ 0 \notin DOMAIN bc.sockets
      BY <1>2, LenProperties DEF BcShape
    <3> QED
      BY <1>3, <1>4, <1>5, <1>6, <2>1, <3>1 DEF BcWaits
  <2>2. CASE r.l2cpSocket # 0
    <3> DEFINE i == r.l2cpSocket
               s == [r EXCEPT !.sockets[i] = "deleted"]
    <3>1. i \in DOMAIN r.sockets
      <4>1. r.sockets \in Seq(BcSockets) /\ i \in 0..Len(r.sockets)
        BY <1>5 DEF BcShape
      <4> QED
        BY <2>2, <4>1, LenProperties
    <3>2. "deleted" \in BcSockets
      BY DEF BcSockets
    <3>3. /\ BcShape(s) /\ BcSameJobs(s, r) /\ s.gaveUp = r.gaveUp
          /\ s.state = r.state /\ s.l2cpSocket = r.l2cpSocket /\ s.links = r.links
          /\ DOMAIN s.sockets = DOMAIN r.sockets /\ s.sockets[i] = "deleted"
          /\ \A j \in DOMAIN r.sockets \ {i} : s.sockets[j] = r.sockets[j]
      BY <1>5, <3>1, <3>2, BcSocketSets
    <3>4. p = [s EXCEPT !.l2cpSocket = 0]
      BY <1>4, <2>2
    <3> HIDE DEF s
    <3>5. /\ DOMAIN p = BcFields /\ p.scenario = s.scenario /\ p.links = s.links
          /\ p.gaveUp = s.gaveUp /\ BcSameJobs(p, s) /\ p.state = s.state
          /\ p.sockets = s.sockets /\ p.l2cpSocket = 0
      BY <3>3, <3>4 DEF BcShape, BcFields, BcSameJobs
    <3>6. BcShape(p)
      <4>1. 0 \in 0..Len(s.sockets)
        <5>1. s.sockets \in Seq(BcSockets)
          BY <3>3 DEF BcShape
        <5> QED
          BY <5>1, LenProperties
      <4> QED
        BY <3>3, <3>5, <4>1 DEF BcShape, BcSameJobs
    <3>7. BcSameJobs(p, bc) /\ p.gaveUp = bc.gaveUp
      BY <1>3, <1>5, <3>3, <3>5 DEF BcSameJobs
    <3>8. ASSUME ~bc.gaveUp, NEW j \in DOMAIN p.sockets
          PROVE  p.sockets[j] \notin {"connecting", "connected", "failed"}
      BY <1>5, <1>6, <3>3, <3>5, <3>8
    <3> QED
      BY <1>3, <3>3, <3>5, <3>6, <3>7, <3>8 DEF BcWaits
  <2> QED
    BY <2>1, <2>2
<1>8. BcJobs(p)
  BY <1>2, <1>7, BcSameJobsHold
<1>9. ~p.gaveUp => BcOwned(p) /\ BcWaits(p) /\ p.jobQueue = <<>>
  BY <1>6, <1>7 DEF BcOwned, BcWaits, BcSameJobs
<1>10. BcGood(p)
  BY <1>7, <1>8, <1>9 DEF BcGood, BcQueued
<1>11. BcGood(BcScheduleJob(p, SetToSeq(BcActive(p))))
  <2>1. SetToSeq(BcActive(p)) \in Seq(BcDevices)
    BY <1>7, BcActiveFinite
  <2> QED
    BY <1>7, <1>8, <1>9, <2>1, BcScheduleGood
<1>12. BcGood(BcScheduleJob(away, <<>>))
  <2>1. /\ DOMAIN away = BcFields /\ away.state = p.state /\ away.links = {}
        /\ away.gaveUp = p.gaveUp
        /\ \A f \in BcFields \ {"state", "links", "gaveUp", "connects"} : away[f] = p[f]
    BY <1>7 DEF BcShape, BcFields
  <2> HIDE DEF away
  <2>2. {} \in SUBSET BcDevices /\ p.gaveUp \in BOOLEAN /\ <<>> \in Seq(BcDevices)
    BY <1>7, EmptySeq DEF BcShape
  <2>3. BcShape(away) /\ BcSameJobs(away, p) /\ BcSameSockets(away, p)
    BY <1>7, <2>1, <2>2, BcStateSets DEF BcSameSockets
  <2>4. BcJobs(away)
    BY <1>8, <2>3, BcSameJobsHold
  <2>5. ~away.gaveUp => BcOwned(away) /\ BcWaits(away)
    <3>1. BcOwned(p) => BcOwned(away)
      BY <2>3, BcSameOwned
    <3> QED
      BY <1>9, <2>1, <2>3, <3>1 DEF BcWaits, BcSameSockets
  <2> QED
    BY <2>2, <2>3, <2>4, <2>5, BcScheduleGood
<1>13. ASSUME NEW fails PROVE BcGood(BcEstablish(p, fails))
  BY <1>7, <1>8, <1>9, BcEstablishGood
<1> QED
  BY <1>1, <1>10, <1>11, <1>12, <1>13

LEMMA BcNextGood ==
  ASSUME BcGood(bc), [BcNext]_bc
  PROVE  BcGood(bc')
<1>1. CASE UNCHANGED bc
  BY <1>1
<1> QED
  BY <1>1, BcConnectGood, BcDisconnectGood, BcRunQueueGood, BcPrepareNextGood,
     BcReplyGood, BcLeavesGood, BcSocketsGood DEF BcNext

LEMMA BcPromise == BcGood(bc) => BcOwnSocket /\ BcJobsMove
<1> SUFFICES ASSUME BcGood(bc) PROVE BcOwnSocket /\ BcJobsMove
  OBVIOUS
<1>1. BcJobsMove
  BY DEF BcGood, BcJobs, BcJobsMove
<1>2. ASSUME ~bc.gaveUp PROVE BcOneSocket
  <2>1. BcOwned(bc)
    BY <1>2 DEF BcGood
  <2> QED
    BY <2>1 DEF BcOwned, BcOneSocket, BcOwnLinks
<1> QED
  BY <1>1, <1>2, Zenon DEF BcOwnSocket

-------------------------------------------------------------------------------
(* DarwinSocket: the bytes, in order.                                          *)

MoOrdered(r) ==
  /\ r.sent \in Nat /\ r.got \in Seq(1..r.sent) /\ r.rx \in Seq(1..r.sent)
  /\ InOrder(r.got \o r.rx)
  /\ r.written \in Seq(Nat)
  /\ r.peer \in Seq(1..Len(r.written)) /\ r.tx \in Seq(1..Len(r.written))
  /\ InOrder(r.peer \o r.tx)
\* What waits in txBuffer has a call or a completion to come for it.
MoMoving(r) ==
  /\ r.posted \in Nat /\ r.inFlight \in Nat /\ r.failed \in BOOLEAN
  /\ r.state \in {"Connected", "Closing"} /\ r.tx # <<>> /\ ~r.failed =>
       r.posted + r.inFlight > 0
MoCarried(r) == MoOrdered(r) /\ MoMoving(r)

LEMMA MoInitCarried == MoInit => MoCarried(mo)
<1> SUFFICES ASSUME MoInit PROVE MoCarried(mo)
  OBVIOUS
<1>1. PICK s \in MoScenarios :
    mo = SocketBase([scenario |-> s, channel |-> "none", tx |-> <<>>, rx |-> <<>>, posted |-> 0,
                     inFlight |-> 0, failed |-> FALSE, deadCalls |-> 0, sent |-> 0,
                     peer |-> <<>>])
  BY DEF MoInit
<1> DEFINE own == [scenario |-> s, channel |-> "none", tx |-> <<>>, rx |-> <<>>, posted |-> 0,
                   inFlight |-> 0, failed |-> FALSE, deadCalls |-> 0, sent |-> 0,
                   peer |-> <<>>]
           base == [state |-> "Unconnected", agent |-> FALSE, told |-> "nothing",
                    errors |-> 0, session |-> 0, written |-> <<>>, got |-> <<>>]
<1>2. mo = [f \in DOMAIN own \cup DOMAIN base |->
              IF f \in DOMAIN own THEN own[f] ELSE base[f]]
  BY <1>1 DEF SocketBase
<1>3. /\ DOMAIN own = {"scenario", "channel", "tx", "rx", "posted", "inFlight", "failed",
                       "deadCalls", "sent", "peer"}
      /\ DOMAIN base = {"state", "agent", "told", "errors", "session", "written", "got"}
      /\ own["tx"] = <<>> /\ own["rx"] = <<>> /\ own["peer"] = <<>> /\ own["sent"] = 0
      /\ own["posted"] = 0 /\ own["inFlight"] = 0 /\ own["failed"] = FALSE
      /\ base["written"] = <<>> /\ base["got"] = <<>>
  OBVIOUS
<1> HIDE DEF own, base
<1>4. /\ mo.tx = <<>> /\ mo.rx = <<>> /\ mo.peer = <<>> /\ mo.sent = 0 /\ mo.posted = 0
      /\ mo.inFlight = 0 /\ mo.failed = FALSE /\ mo.written = <<>> /\ mo.got = <<>>
  BY <1>2, <1>3
<1>5. /\ \A B : <<>> \in Seq(B)
      /\ <<>> \o <<>> = <<>> /\ DOMAIN <<>> = {}
  OBVIOUS
<1>6. InOrder(<<>>)
  BY <1>5 DEF InOrder
<1>7. mo.failed \in BOOLEAN
  BY <1>4, Zenon
<1> QED
  BY <1>4, <1>5, <1>6, <1>7 DEF MoCarried, MoOrdered, MoMoving

\* No byte is written, sent or delivered; buffers may be cleared.
MoBytesKept(c, r) ==
  /\ c.written = r.written /\ c.sent = r.sent /\ c.got = r.got /\ c.peer = r.peer
  /\ c.tx \in {r.tx, <<>>} /\ c.rx \in {r.rx, <<>>}

LEMMA MoKeptOrdered ==
  ASSUME NEW r, MoOrdered(r), NEW c, MoBytesKept(c, r)
  PROVE  MoOrdered(c)
<1> DEFINE B == 1..Len(r.written)
           D == 1..r.sent
<1>1. /\ r.got \in Seq(D) /\ r.rx \in Seq(D) /\ r.peer \in Seq(B) /\ r.tx \in Seq(B)
      /\ <<>> \in Seq(D) /\ <<>> \in Seq(B)
  BY DEF MoOrdered
<1>2. B \subseteq Nat /\ D \subseteq Nat
  BY LenProperties DEF MoOrdered
<1> HIDE DEF B, D
<1>3. r.got \in Seq(Nat) /\ r.rx \in Seq(Nat) /\ r.peer \in Seq(Nat) /\ r.tx \in Seq(Nat)
  BY <1>1, <1>2, SeqMonotonic
<1>4. InOrder(r.got \o <<>>) /\ InOrder(r.peer \o <<>>)
  BY <1>3, OrderOfParts DEF MoOrdered
<1> QED
  BY <1>1, <1>4 DEF MoOrdered, MoBytesKept, B, D

\* Nor does what waits lose the call that will come for it.
LEMMA MoKeptCarried ==
  ASSUME NEW r, MoCarried(r), NEW c, MoBytesKept(c, r),
         c.posted \in Nat, c.inFlight \in Nat, c.failed \in BOOLEAN,
         \/ c.tx = <<>> \/ c.state \notin {"Connected", "Closing"}
         \/ /\ r.state \in {"Connected", "Closing"} /\ c.failed = r.failed
            /\ c.posted = r.posted /\ c.inFlight = r.inFlight
  PROVE  MoCarried(c)
<1>1. MoOrdered(c)
  BY MoKeptOrdered DEF MoCarried
<1>2. MoMoving(c)
  BY DEF MoCarried, MoMoving, MoBytesKept
<1> QED
  BY <1>1, <1>2 DEF MoCarried

\* A byte arrives, one is written, what has arrived is read.
LEMMA OneMoreOrdered ==
  ASSUME NEW n \in Nat, NEW a \in Seq(1..n), NEW b \in Seq(1..n), InOrder(a \o b)
  PROVE  /\ a \in Seq(1..(n + 1)) /\ Append(b, n + 1) \in Seq(1..(n + 1))
         /\ InOrder(a \o Append(b, n + 1))
<1> DEFINE D == 1..n
           E == 1..(n + 1)
           x == n + 1
<1>1. D \subseteq E /\ x \in E /\ a \in Seq(D) /\ b \in Seq(D)
  OBVIOUS
<1>2. InOrder((a \o b) \o <<x>>)
  <2>1. a \o b \in Seq(D)
    BY <1>1, ConcatProperties
  <2> QED
    BY <2>1, OrderExtended
<1> HIDE DEF D, E, x
<1>3. a \in Seq(E) /\ b \in Seq(E)
  BY <1>1, SeqMonotonic
<1>4. Append(b, x) = b \o <<x>> /\ Append(b, x) \in Seq(E) /\ <<x>> \in Seq(E)
  BY <1>1, <1>3, AppendIsConcat, AppendProperties
<1>5. (a \o b) \o <<x>> = a \o (b \o <<x>>)
  <2> DEFINE y == <<x>>
  <2>1. y \in Seq(E)
    BY <1>4
  <2> HIDE DEF y
  <2>2. (a \o b) \o y = a \o (b \o y)
    <3>1. \A u, v, z \in Seq(E) : (u \o v) \o z = u \o (v \o z)
      BY ONLY ConcatAssociative
    <3> QED
      BY ONLY <1>3, <2>1, <3>1
  <2> QED
    BY <2>2 DEF y
<1>6. InOrder(a \o Append(b, x))
  BY <1>2, <1>4, <1>5
<1> QED
  BY <1>3, <1>4, <1>6 DEF E, x

LEMMA MoArrivesOrdered ==
  ASSUME NEW r, MoOrdered(r), NEW c,
         c.written = r.written, c.peer = r.peer, c.tx = r.tx, c.got = r.got,
         c.sent = r.sent + 1, c.rx = Append(r.rx, r.sent + 1)
  PROVE  MoOrdered(c)
<1>1. /\ r.sent \in Nat /\ r.got \in Seq(1..r.sent) /\ r.rx \in Seq(1..r.sent)
      /\ InOrder(r.got \o r.rx)
  BY DEF MoOrdered
<1>2. /\ c.got \in Seq(1..c.sent) /\ c.rx \in Seq(1..c.sent) /\ c.sent \in Nat
      /\ InOrder(c.got \o c.rx)
  <2>1. /\ r.got \in Seq(1..(r.sent + 1)) /\ Append(r.rx, r.sent + 1) \in Seq(1..(r.sent + 1))
        /\ InOrder(r.got \o Append(r.rx, r.sent + 1))
    BY <1>1, OneMoreOrdered
  <2>2. r.sent + 1 \in Nat
    BY <1>1
  <2> QED
    BY ONLY <2>1, <2>2, c.sent = r.sent + 1, c.rx = Append(r.rx, r.sent + 1),
       c.got = r.got
<1> QED
  BY <1>2 DEF MoOrdered

LEMMA MoWritesOrdered ==
  ASSUME NEW r, MoOrdered(r), NEW c,
         c.sent = r.sent, c.got = r.got, c.rx = r.rx, c.peer = r.peer,
         c.tx = Append(r.tx, Len(r.written) + 1),
         c.written = Append(r.written, Len(r.written) + 1)
  PROVE  MoOrdered(c)
<1> DEFINE n == Len(r.written)
           w == r.written
<1>1. /\ n \in Nat /\ w \in Seq(Nat) /\ r.peer \in Seq(1..n) /\ r.tx \in Seq(1..n)
      /\ InOrder(r.peer \o r.tx)
  BY LenProperties DEF MoOrdered
<1>2. c.tx = Append(r.tx, n + 1) /\ c.written = Append(w, n + 1) /\ n = Len(w)
  OBVIOUS
<1> HIDE DEF n, w
<1>3. Len(c.written) = n + 1 /\ c.written \in Seq(Nat)
  <2>1. n + 1 \in Nat
    BY <1>1
  <2>2. Append(w, n + 1) \in Seq(Nat) /\ Len(Append(w, n + 1)) = Len(w) + 1
    BY ONLY <1>1, <2>1, AppendProperties
  <2> QED
    BY ONLY <1>2, <2>2
<1>4. /\ c.peer \in Seq(1..(n + 1)) /\ c.tx \in Seq(1..(n + 1)) /\ InOrder(c.peer \o c.tx)
  <2>1. /\ r.peer \in Seq(1..(n + 1)) /\ Append(r.tx, n + 1) \in Seq(1..(n + 1))
        /\ InOrder(r.peer \o Append(r.tx, n + 1))
    BY <1>1, OneMoreOrdered
  <2> QED
    BY ONLY <2>1, <1>2, c.peer = r.peer
<1> QED
  BY <1>3, <1>4 DEF MoOrdered

LEMMA MoReadsOrdered ==
  ASSUME NEW r, MoOrdered(r), NEW c,
         c.written = r.written, c.peer = r.peer, c.tx = r.tx, c.sent = r.sent,
         c.got = r.got \o r.rx, c.rx = <<>>
  PROVE  MoOrdered(c)
<1> DEFINE D == 1..r.sent
<1>1. r.got \in Seq(D) /\ r.rx \in Seq(D) /\ <<>> \in Seq(D)
  BY DEF MoOrdered
<1> HIDE DEF D
<1>2. r.got \o r.rx \in Seq(D) /\ (r.got \o r.rx) \o <<>> = r.got \o r.rx
  BY <1>1, ConcatProperties, ConcatEmptySeq
<1> QED
  BY <1>1, <1>2 DEF MoOrdered, D

\* A chunk is handed over, or refused and lost.
LEMMA MoHandsOrdered ==
  ASSUME NEW r, MoOrdered(r), NEW n \in 0..Len(r.tx), NEW c,
         c.written = r.written, c.sent = r.sent, c.got = r.got, c.rx = r.rx,
         c.peer = r.peer \o SubSeq(r.tx, 1, n), c.tx = SubSeq(r.tx, n + 1, Len(r.tx))
  PROVE  MoOrdered(c)
<1> DEFINE B == 1..Len(r.written)
           front == SubSeq(r.tx, 1, n)
           back == SubSeq(r.tx, n + 1, Len(r.tx))
<1>1. r.tx \in Seq(B) /\ r.peer \in Seq(B) /\ InOrder(r.peer \o r.tx)
  BY DEF MoOrdered
<1> HIDE DEF B
<1>2. front \in Seq(B) /\ back \in Seq(B) /\ front \o back = r.tx
  BY <1>1, PartsOf
<1>3. c.peer = r.peer \o front /\ c.tx = back
  OBVIOUS
<1> HIDE DEF front, back
<1>4. (r.peer \o front) \o back = r.peer \o (front \o back)
  <2> DEFINE p == r.peer
  <2>1. p \in Seq(B) /\ front \in Seq(B) /\ back \in Seq(B)
    BY <1>1, <1>2
  <2> HIDE DEF p
  <2>2. (p \o front) \o back = p \o (front \o back)
    BY ONLY <2>1, ConcatAssociative
  <2> QED
    BY <2>2 DEF p
<1>5. r.peer \o front \in Seq(B)
  BY <1>1, <1>2, ConcatProperties
<1>6. c.peer \in Seq(B) /\ c.tx \in Seq(B) /\ InOrder(c.peer \o c.tx)
  BY <1>1, <1>2, <1>3, <1>4, <1>5
<1> QED
  BY <1>6 DEF MoOrdered, B

LEMMA MoLosesOrdered ==
  ASSUME NEW r, MoOrdered(r), NEW n \in 0..Len(r.tx), NEW c,
         c.written = r.written, c.sent = r.sent, c.got = r.got, c.rx = r.rx,
         c.peer = r.peer, c.tx = SubSeq(r.tx, n + 1, Len(r.tx))
  PROVE  MoOrdered(c)
<1> DEFINE B == 1..Len(r.written)
           back == SubSeq(r.tx, n + 1, Len(r.tx))
<1>1. r.tx \in Seq(B) /\ r.peer \in Seq(B) /\ InOrder(r.peer \o r.tx) /\ B \subseteq Nat
  BY LenProperties DEF MoOrdered
<1> HIDE DEF B
<1>2. r.tx \in Seq(Nat) /\ r.peer \in Seq(Nat) /\ n \in Nat
  <2>1. r.tx \in Seq(Nat) /\ r.peer \in Seq(Nat)
    BY <1>1, SeqMonotonic
  <2> QED
    BY <2>1, LenProperties
<1>3. back \in Seq(B)
  BY <1>1, PartsOf
<1>4. InOrder(r.peer \o back)
  BY <1>1, <1>2, OrderWithout
<1>5. c.tx = back
  OBVIOUS
<1> HIDE DEF back
<1>6. c.peer \in Seq(B) /\ c.tx \in Seq(B) /\ InOrder(c.peer \o c.tx)
  BY <1>1, <1>3, <1>4, <1>5
<1> QED
  BY <1>6 DEF MoOrdered, B

\* What a change of the state or an error leaves alone.
MoBytesSame(c, r) ==
  /\ c.written = r.written /\ c.sent = r.sent /\ c.got = r.got /\ c.rx = r.rx
  /\ c.peer = r.peer /\ c.tx = r.tx
  /\ c.posted = r.posted /\ c.inFlight = r.inFlight /\ c.failed = r.failed

LEMMA MoSameOrdered ==
  ASSUME NEW r, MoOrdered(r), NEW c, MoBytesSame(c, r)
  PROVE  MoOrdered(c)
BY DEF MoOrdered, MoBytesSame

LEMMA MoTold ==
  ASSUME NEW r, DOMAIN r = MoFields, NEW new
  PROVE  /\ MoBytesSame(SetSocketState(r, new), r)
         /\ MoBytesSame(SetSocketError(r), r)
         /\ SetSocketState(r, new).state = new
         /\ SetSocketError(r).state = r.state
<1> DEFINE c == SetSocketState(r, new)
           e == SetSocketError(r)
<1>1. c.state = new /\ \A f \in MoFields \ {"state", "told"} : c[f] = r[f]
  BY MoStateSets
<1>2. \A f \in MoFields \ {"errors"} : e[f] = r[f]
  BY MoErrorSets
<1> HIDE DEF c, e
<1>3. MoBytesSame(c, r) /\ MoBytesSame(e, r) /\ e.state = r.state
  BY <1>1, <1>2 DEF MoBytesSame, MoFields
<1> QED
  BY <1>1, <1>3 DEF c, e

\* Where nothing waits, or nobody is to be served, the order is all there is.
LEMMA MoOrderedCarried ==
  ASSUME NEW r, MoOrdered(r), r.posted \in Nat, r.inFlight \in Nat, r.failed \in BOOLEAN,
         r.tx = <<>> \/ r.state \notin {"Connected", "Closing"}
  PROVE  MoCarried(r)
BY DEF MoCarried, MoMoving

\* connectToService(): the buffers are empty, but for a byte that comes early.
LEMMA MoChannelCarried ==
  ASSUME NEW r, DOMAIN r = MoFields, MoCarried(r), NEW result,
         NEW early \in EarlyCallbacks
  PROVE  MoCarried(ConnectChannel(r, result, early))
<1> DEFINE n == [r EXCEPT !.tx = <<>>, !.rx = <<>>, !.failed = FALSE, !.channel = "opening"]
           more == [n EXCEPT !.rx = <<r.sent + 1>>, !.sent = @ + 1]
           got == IF early = "openedData"
                    THEN [n EXCEPT !.rx = <<r.sent + 1>>, !.sent = @ + 1] ELSE n
           over == [n EXCEPT !.channel = "closed"]
           up == [got EXCEPT !.channel = "open"]
           c == ConnectChannel(r, result, early)
<1>1. c = IF result = "error" \/ early = "error" THEN SetSocketError(over)
          ELSE CASE early \in {"opened", "openedData"} -> SetSocketState(up, "Connected")
                 [] early = "closed" -> SetSocketError(over)
                 [] early = "nothing" -> SetSocketState(n, "Connecting")
  BY Zenon DEF ConnectChannel
<1>2. /\ DOMAIN n = MoFields /\ n.tx = <<>> /\ n.rx = <<>> /\ n.sent = r.sent
      /\ n.written = r.written /\ n.got = r.got /\ n.peer = r.peer
      /\ n.posted = r.posted /\ n.inFlight = r.inFlight
  BY DEF MoFields
<1>3. n.failed = FALSE
  BY DEF MoFields
<1>4. got = IF early = "openedData" THEN more ELSE n
  BY Zenon
<1> HIDE DEF n, got
<1>5. MoOrdered(n)
  <2>1. MoBytesKept(n, r)
    BY <1>2 DEF MoBytesKept
  <2> QED
    BY <2>1, MoKeptOrdered DEF MoCarried
<1>6. /\ DOMAIN more = MoFields /\ more.tx = <<>> /\ more.sent = n.sent + 1
      /\ more.written = n.written /\ more.got = n.got /\ more.peer = n.peer
      /\ more.posted = n.posted /\ more.inFlight = n.inFlight /\ more.failed = n.failed
      /\ more.rx = <<r.sent + 1>>
  BY <1>2 DEF MoFields
<1>7. MoOrdered(more)
  <2>1. Append(n.rx, n.sent + 1) = <<r.sent + 1>>
    BY <1>2
  <2> HIDE DEF more
  <2> QED
    BY <1>2, <1>5, <1>6, <2>1, MoArrivesOrdered
<1> HIDE DEF more
<1>8. MoOrdered(got) /\ DOMAIN got = MoFields /\ got.tx = <<>> /\ got.posted = r.posted
      /\ got.inFlight = r.inFlight /\ got.failed = FALSE
  BY <1>2, <1>3, <1>4, <1>5, <1>6, <1>7
<1>9. DOMAIN up = MoFields /\ DOMAIN over = MoFields
      /\ MoBytesSame(up, got) /\ MoBytesSame(over, n)
  BY <1>2, <1>8 DEF MoBytesSame, MoFields
<1> HIDE DEF up, over
<1>10. r.posted \in Nat /\ r.inFlight \in Nat
  BY DEF MoCarried, MoMoving
<1>11. ASSUME NEW d, MoOrdered(d), d.tx = <<>>, d.posted = r.posted,
              d.inFlight = r.inFlight, d.failed = FALSE, MoBytesSame(c, d)
       PROVE  MoCarried(c)
  <2>1. MoOrdered(c)
    BY <1>11, MoSameOrdered
  <2>2. c.failed \in BOOLEAN
    BY <1>11, Zenon DEF MoBytesSame
  <2> QED
    BY <1>10, <1>11, <2>1, <2>2, MoOrderedCarried DEF MoBytesSame
<1>12. MoBytesSame(c, n) \/ MoBytesSame(c, got)
  <2>1. \/ c = SetSocketError(over) \/ c = SetSocketState(up, "Connected")
        \/ c = SetSocketState(n, "Connecting")
    BY <1>1 DEF EarlyCallbacks
  <2>2. /\ MoBytesSame(SetSocketError(over), over)
        /\ MoBytesSame(SetSocketState(up, "Connected"), up)
        /\ MoBytesSame(SetSocketState(n, "Connecting"), n)
    BY <1>2, <1>9, MoTold
  <2>3. \/ MoBytesSame(c, over) \/ MoBytesSame(c, up) \/ MoBytesSame(c, n)
    BY <2>1, <2>2, Zenon
  <2> QED
    BY <1>9, <2>3 DEF MoBytesSame
<1>13. MoCarried(c)
  BY <1>2, <1>3, <1>5, <1>8, <1>11, <1>12
<1> QED
  BY <1>13 DEF c

LEMMA MoConnectCarried ==
  ASSUME MoLinked(mo), MoCarried(mo), MoConnect \/ MoServiceDiscovered
  PROVE  MoCarried(mo')
<1> DEFINE r == NewSession(mo)
           d == ConnectChannel(mo, "ok", "nothing")
<1>1. DOMAIN mo = MoFields
  BY DEF MoLinked
<1>2. DOMAIN r = MoFields /\ MoBytesSame(r, mo) /\ r.state = mo.state
  BY <1>1 DEF NewSession, MoBytesSame, MoFields
<1> HIDE DEF r
<1>3. MoCarried(r)
  BY <1>2 DEF MoCarried, MoOrdered, MoMoving, MoBytesSame
<1>4. CASE MoConnect /\ mo' = DoDeviceDiscovery(r)
  <2> DEFINE s == SetSocketState(r, "ServiceLookup")
  <2>1. mo' = [s EXCEPT !.agent = TRUE]
    BY <1>4, Zenon DEF DoDeviceDiscovery
  <2>2. DOMAIN s = MoFields /\ s.state = "ServiceLookup" /\ MoBytesSame(s, r)
    BY <1>2, MoStateSets, MoTold
  <2> HIDE DEF s
  <2>3. MoBytesSame(mo', s) /\ mo'.state = "ServiceLookup"
    BY <2>1, <2>2 DEF MoBytesSame, MoFields
  <2>4. MoBytesSame(mo', r)
    BY <2>2, <2>3 DEF MoBytesSame
  <2> QED
    BY <1>3, <2>3, <2>4, MoSameOrdered, MoOrderedCarried
       DEF MoCarried, MoMoving, MoBytesSame
<1>5. CASE \E result \in MoResults, early \in EarlyOutcomes :
              mo' = ConnectChannel(r, result, early)
  BY <1>2, <1>3, <1>5, MoChannelCarried DEF EarlyOutcomes, EarlyCallbacks
<1>6. CASE mo' = [d EXCEPT !.agent = FALSE]
  <2>1. "nothing" \in EarlyCallbacks
    BY DEF EarlyCallbacks
  <2>2. MoCarried(d)
    BY <1>1, <2>1, MoChannelCarried
  <2>3. DOMAIN d = MoFields
    <3> DEFINE n == [mo EXCEPT !.tx = <<>>, !.rx = <<>>, !.failed = FALSE,
                               !.channel = "opening"]
    <3>1. d = SetSocketState(n, "Connecting")
      BY DEF ConnectChannel
    <3>2. DOMAIN n = MoFields
      BY <1>1 DEF MoFields
    <3> HIDE DEF n, d
    <3> QED
      BY <3>1, <3>2, MoStateSets
  <2> HIDE DEF d
  <2>4. MoBytesSame(mo', d) /\ mo'.state = d.state
    BY <1>6, <2>3 DEF MoBytesSame, MoFields
  <2> QED
    BY <2>2, <2>4 DEF MoCarried, MoOrdered, MoMoving, MoBytesSame
<1>7. \/ MoConnect /\ mo' = DoDeviceDiscovery(r)
      \/ \E result \in MoResults, early \in EarlyOutcomes :
              mo' = ConnectChannel(r, result, early)
      \/ mo' = [d EXCEPT !.agent = FALSE]
  BY Zenon DEF MoConnect, MoServiceDiscovered, ServiceDiscovered, r
<1> QED
  BY <1>4, <1>5, <1>6, <1>7

LEMMA MoFinishedCarried ==
  ASSUME MoLinked(mo), MoCarried(mo), MoDiscoveryFinished \/ MoAccept
  PROVE  MoCarried(mo')
<1>1. DOMAIN mo = MoFields
  BY DEF MoLinked
<1>2. CASE MoDiscoveryFinished
  <2> DEFINE e == SetSocketError(mo)
             s == SetSocketState(e, "Unconnected")
  <2>1. mo' = [s EXCEPT !.agent = FALSE]
    BY <1>2, Zenon DEF MoDiscoveryFinished, DiscoveryFinished
  <2>2. DOMAIN e = MoFields /\ MoBytesSame(e, mo)
    BY <1>1, MoErrorSets, MoTold
  <2> HIDE DEF e
  <2>3. DOMAIN s = MoFields /\ s.state = "Unconnected" /\ MoBytesSame(s, e)
    BY <2>2, MoStateSets, MoTold
  <2> HIDE DEF s
  <2>4. MoBytesSame(mo', s) /\ mo'.state = "Unconnected"
    BY <2>1, <2>3 DEF MoBytesSame, MoFields
  <2>5. MoBytesSame(mo', mo)
    BY <2>2, <2>3, <2>4 DEF MoBytesSame
  <2> QED
    BY <2>4, <2>5, MoSameOrdered, MoOrderedCarried DEF MoCarried, MoMoving, MoBytesSame
<1>3. CASE MoAccept
  <2> DEFINE r == NewSession(mo)
  <2>1. DOMAIN r = MoFields /\ MoBytesSame(r, mo)
    BY <1>1 DEF NewSession, MoBytesSame, MoFields
  <2>2. mo' = [r EXCEPT !.channel = "open", !.state = "Connected"]
    BY <1>3, Zenon DEF MoAccept
  <2> HIDE DEF r
  <2>3. MoBytesSame(mo', r)
    BY <2>1, <2>2 DEF MoBytesSame, MoFields
  <2>4. MoBytesSame(mo', mo) /\ mo.tx = <<>>
    BY <1>3, <2>1, <2>3 DEF MoBytesSame, MoAccept, MoLinked
  <2> QED
    BY <2>4, MoSameOrdered, MoOrderedCarried DEF MoCarried, MoMoving, MoBytesSame
<1> QED
  BY <1>2, <1>3

LEMMA MoAbortCarried ==
  ASSUME NEW r, DOMAIN r = MoFields, MoOrdered(r), r.posted \in Nat, r.failed \in BOOLEAN
  PROVE  MoCarried(MoAbort(r))
<1> DEFINE d == [r EXCEPT !.channel = "none", !.inFlight = 0]
           c == SetSocketState(d, "Unconnected")
<1>1. DOMAIN d = MoFields /\ MoBytesKept(d, r) /\ d.posted = r.posted /\ d.inFlight = 0
      /\ d.failed = r.failed
  BY DEF MoBytesKept, MoFields
<1> HIDE DEF d
<1>2. MoBytesSame(c, d) /\ c.state = "Unconnected"
  BY ONLY <1>1, MoTold
<1>3. MoAbort(r) = c
  BY DEF MoAbort, d
<1> HIDE DEF c
<1>4. MoOrdered(c)
  BY <1>1, <1>2, MoKeptOrdered, MoSameOrdered
<1>5. MoCarried(c)
  BY <1>1, <1>2, <1>4, MoOrderedCarried DEF MoBytesSame
<1> QED
  BY <1>3, <1>5

LEMMA MoCloseCarried ==
  ASSUME MoLinked(mo), MoCarried(mo), MoCloses \/ MoAborts
  PROVE  MoCarried(mo')
<1> DEFINE a == [mo EXCEPT !.agent = FALSE]
           e == SetSocketState(a, "Closing")
<1>1. mo.state # "Unconnected" /\ DOMAIN mo = MoFields
  BY DEF MoCloses, MoAborts, MoLinked
<1>2. mo' = MoAbort(e) \/ (e.tx # <<>> /\ mo' = e)
  <2>1. CASE MoCloses
    <3>1. mo' = MoClose(e)
      BY <1>1, <2>1, Zenon DEF MoCloses, SocketClose, EnterClosing
    <3> HIDE DEF e
    <3> QED
      BY <3>1 DEF MoClose
  <2>2. CASE MoAborts
    BY <2>2, Zenon DEF MoAborts, EnterClosing
  <2> QED
    BY <2>1, <2>2
<1>3. DOMAIN a = MoFields /\ MoBytesSame(a, mo)
  BY <1>1 DEF MoBytesSame, MoFields
<1> HIDE DEF a
<1>4. DOMAIN e = MoFields /\ e.state = "Closing" /\ MoBytesSame(e, a)
  BY <1>3, MoStateSets, MoTold
<1> HIDE DEF e
<1>5. MoBytesSame(e, mo)
  BY <1>3, <1>4 DEF MoBytesSame
<1>6. MoOrdered(e)
  BY <1>5, MoSameOrdered DEF MoCarried
<1>7. CASE mo' = MoAbort(e)
  <2>1. MoCarried(MoAbort(e))
    BY <1>4, <1>5, <1>6, MoAbortCarried DEF MoCarried, MoMoving, MoBytesSame
  <2> QED
    BY <1>7, <2>1
<1>8. CASE e.tx # <<>> /\ mo' = e
  <2>1. mo.state \in {"Connected", "Closing"}
    BY <1>1, <1>5, <1>8 DEF MoLinked, SocketStates, MoBytesSame
  <2> QED
    BY <1>5, <1>6, <1>8, <2>1 DEF MoCarried, MoMoving, MoBytesSame
<1> QED
  BY <1>2, <1>7, <1>8

LEMMA MoOpenedCarried ==
  ASSUME MoLinked(mo), MoCarried(mo), MoOpened \/ MoRefused \/ MoPeerCloses
  PROVE  MoCarried(mo')
<1>1. DOMAIN mo = MoFields
  BY DEF MoLinked
<1>2. CASE MoOpened \/ MoRefused
  <2>1. mo.tx = <<>>
    BY <1>2 DEF MoOpened, MoRefused, MoLinked
  <2>2. PICK w \in {"open", "closed"} :
          LET d == [mo EXCEPT !.channel = w]
          IN  mo' = SetSocketState(d, "Connected") \/ mo' = SetSocketError(d)
    BY <1>2, Zenon DEF MoOpened, MoRefused, ChannelOpenComplete, SetChannelError
  <2> DEFINE d == [mo EXCEPT !.channel = w]
  <2>3. DOMAIN d = MoFields /\ MoBytesSame(d, mo)
    BY <1>1 DEF MoBytesSame, MoFields
  <2>4. mo' = SetSocketState(d, "Connected") \/ mo' = SetSocketError(d)
    BY <2>2
  <2> HIDE DEF d
  <2>5. MoBytesSame(mo', d)
    BY <2>3, <2>4, MoTold
  <2>6. MoBytesSame(mo', mo)
    BY <2>3, <2>5 DEF MoBytesSame
  <2> QED
    BY <2>1, <2>6, MoSameOrdered, MoOrderedCarried DEF MoCarried, MoMoving, MoBytesSame
<1>3. CASE MoPeerCloses
  <2> DEFINE x == [mo EXCEPT !.channel = "closed", !.inFlight = 0]
  <2>1. DOMAIN x = MoFields /\ MoBytesKept(x, mo) /\ x.posted = mo.posted
        /\ x.inFlight = 0 /\ x.failed = mo.failed
    BY <1>1 DEF MoBytesKept, MoFields
  <2>2. mo' = SetSocketState(x, "Unconnected")
    BY <1>3, Zenon DEF MoPeerCloses, ChannelClosed
  <2> HIDE DEF x
  <2>3. MoBytesSame(mo', x) /\ mo'.state = "Unconnected"
    BY <2>1, <2>2, MoTold
  <2>4. MoOrdered(mo')
    BY <2>1, <2>3, MoKeptOrdered, MoSameOrdered DEF MoCarried
  <2> QED
    BY <2>1, <2>3, <2>4, MoOrderedCarried DEF MoCarried, MoMoving, MoBytesSame
<1> QED
  BY <1>2, <1>3

LEMMA MoWriteCarriedOn ==
  ASSUME MoLinked(mo), MoCarried(mo), MoWrite \/ MoRead \/ MoPeerSends
  PROVE  MoCarried(mo')
<1>1. DOMAIN mo = MoFields /\ MoOrdered(mo) /\ MoMoving(mo)
  BY DEF MoLinked, MoCarried
<1>2. CASE MoWrite
  <2>1. /\ mo'.sent = mo.sent /\ mo'.got = mo.got /\ mo'.rx = mo.rx /\ mo'.peer = mo.peer
        /\ mo'.tx = Append(mo.tx, Len(mo.written) + 1)
        /\ mo'.written = Append(mo.written, Len(mo.written) + 1)
        /\ mo'.inFlight = mo.inFlight /\ mo'.failed = mo.failed /\ mo'.state = mo.state
        /\ mo'.posted = IF mo.tx = <<>> THEN mo.posted + 1 ELSE mo.posted
        /\ mo.state = "Connected"
    BY <1>1, <1>2 DEF MoWrite, MoWriteData, NextByte, MoFields
  <2>2. MoOrdered(mo')
    BY <1>1, <2>1, MoWritesOrdered
  <2>3. MoMoving(mo')
    BY <1>1, <2>1 DEF MoMoving
  <2> QED
    BY <2>2, <2>3 DEF MoCarried
<1>3. CASE MoRead
  <2>1. /\ mo'.sent = mo.sent /\ mo'.got = mo.got \o mo.rx /\ mo'.rx = <<>>
        /\ mo'.peer = mo.peer /\ mo'.tx = mo.tx /\ mo'.written = mo.written
        /\ mo'.inFlight = mo.inFlight /\ mo'.failed = mo.failed /\ mo'.state = mo.state
        /\ mo'.posted = mo.posted
    BY <1>1, <1>3 DEF MoRead, MoFields
  <2>2. MoOrdered(mo')
    BY <1>1, <2>1, MoReadsOrdered
  <2>3. MoMoving(mo')
    BY <1>1, <2>1 DEF MoMoving
  <2> QED
    BY <2>2, <2>3 DEF MoCarried
<1>4. CASE MoPeerSends
  <2> DEFINE r == [mo EXCEPT !.sent = @ + 1]
  <2>1. /\ DOMAIN r = MoFields /\ r.sent = mo.sent + 1 /\ r.got = mo.got /\ r.rx = mo.rx
        /\ r.peer = mo.peer /\ r.tx = mo.tx /\ r.written = mo.written
        /\ r.inFlight = mo.inFlight /\ r.failed = mo.failed /\ r.state = mo.state
        /\ r.posted = mo.posted
    BY <1>1 DEF MoFields
  <2>2. mo' = [r EXCEPT !.rx = Append(@, mo.sent + 1)]
    BY <1>4, Zenon DEF MoPeerSends, ReadChannelData
  <2> HIDE DEF r
  <2>3. /\ mo'.sent = mo.sent + 1 /\ mo'.got = mo.got
        /\ mo'.rx = Append(mo.rx, mo.sent + 1)
        /\ mo'.peer = mo.peer /\ mo'.tx = mo.tx /\ mo'.written = mo.written
        /\ mo'.inFlight = mo.inFlight /\ mo'.failed = mo.failed /\ mo'.state = mo.state
        /\ mo'.posted = mo.posted
    BY <2>1, <2>2 DEF MoFields
  <2>4. MoOrdered(mo')
    BY <1>1, <2>3, MoArrivesOrdered
  <2>5. MoMoving(mo')
    BY <1>1, <2>3 DEF MoMoving
  <2> QED
    BY <2>4, <2>5 DEF MoCarried
<1> QED
  BY <1>2, <1>3, <1>4

\* _q_writeNotify(): after it what still waits has its own write to complete.
LEMMA MoChunkCarried ==
  ASSUME NEW r, DOMAIN r = MoFields, MoCarried(r)
  PROVE  MoCarried(AfterChunk(r))
<1>1. AfterChunk(r) = r \/ AfterChunk(r) = MoAbort(r)
  BY DEF AfterChunk, MoClose
<1>2. MoCarried(MoAbort(r))
  BY MoAbortCarried DEF MoCarried, MoMoving
<1> QED
  BY <1>1, <1>2

LEMMA MoNotifyCarried ==
  ASSUME NEW r, MoLinked(r), MoOrdered(r), r.posted \in Nat, r.inFlight \in Nat,
         r.failed \in BOOLEAN, NEW ok
  PROVE  MoCarried(MoWriteNotify(r, ok))
<1> DEFINE n == IF MoChunk < Len(r.tx) THEN MoChunk ELSE Len(r.tx)
           dead == [r EXCEPT !.deadCalls = 1]
           lost == [r EXCEPT !.tx = SubSeq(@, n + 1, Len(@)), !.failed = TRUE,
                             !.deadCalls = IF r.channel = "open" THEN @ ELSE 1]
           handed == HandOver(r, n)
           c == MoWriteNotify(r, ok)
<1>1. c = IF r.channel = "none" THEN dead
          ELSE IF r.tx = <<>> THEN AfterChunk(r)
          ELSE IF ok /\ r.channel = "open" THEN AfterChunk(handed)
          ELSE SetSocketError(lost)
  BY Zenon DEF MoWriteNotify
<1>2. DOMAIN r = MoFields
  BY DEF MoLinked
<1>3. n \in 0..Len(r.tx)
  <2>1. Len(r.tx) \in Nat
    BY LenProperties DEF MoOrdered
  <2> QED
    BY <2>1, MoAssumption
<1> HIDE DEF n, c
<1>4. CASE r.channel = "none"
  <2>1. MoBytesSame(dead, r) /\ dead.state = r.state
    BY <1>2 DEF MoBytesSame, MoFields
  <2>2. r.state \notin {"Connected", "Closing"}
    BY <1>4 DEF MoLinked
  <2> HIDE DEF dead
  <2>3. MoCarried(dead)
    BY <2>1, <2>2, MoSameOrdered, MoOrderedCarried DEF MoBytesSame
  <2> QED
    BY <1>1, <1>4, <2>3 DEF c
<1>5. CASE r.channel # "none" /\ r.tx = <<>>
  <2>1. MoCarried(r)
    BY <1>5, MoOrderedCarried
  <2>2. MoCarried(AfterChunk(r))
    BY <1>2, <2>1, MoChunkCarried
  <2> QED
    BY <1>1, <1>5, <2>2 DEF c
<1>6. MoCarried(AfterChunk(handed))
  <2>1. /\ DOMAIN handed = MoFields
        /\ handed.written = r.written /\ handed.sent = r.sent /\ handed.got = r.got
        /\ handed.rx = r.rx /\ handed.peer = r.peer \o SubSeq(r.tx, 1, n)
        /\ handed.tx = SubSeq(r.tx, n + 1, Len(r.tx))
        /\ handed.posted = r.posted /\ handed.inFlight = r.inFlight + 1
        /\ handed.failed = r.failed
    BY <1>2 DEF HandOver, MoFields
  <2> HIDE DEF handed
  <2>2. MoOrdered(handed)
    BY <1>3, <2>1, MoHandsOrdered
  <2>3. MoMoving(handed)
    BY <2>1 DEF MoMoving
  <2>4. MoCarried(handed)
    BY <2>2, <2>3 DEF MoCarried
  <2> QED
    BY <2>1, <2>4, MoChunkCarried
<1>7. MoCarried(SetSocketError(lost))
  <2> DEFINE e == SetSocketError(lost)
  <2>1. /\ DOMAIN lost = MoFields
        /\ lost.written = r.written /\ lost.sent = r.sent /\ lost.got = r.got
        /\ lost.rx = r.rx /\ lost.peer = r.peer
        /\ lost.tx = SubSeq(r.tx, n + 1, Len(r.tx))
        /\ lost.posted = r.posted /\ lost.inFlight = r.inFlight
    BY <1>2 DEF MoFields
  <2>2. lost.failed = TRUE
    BY <1>2 DEF MoFields
  <2> HIDE DEF lost
  <2>3. MoOrdered(lost)
    BY <1>3, <2>1, MoLosesOrdered
  <2>4. MoBytesSame(e, lost)
    BY <2>1, MoTold
  <2> HIDE DEF e
  <2>5. e.failed \in BOOLEAN /\ e.failed
    BY <2>2, <2>4, Zenon DEF MoBytesSame
  <2>6. MoOrdered(e)
    BY <2>3, <2>4, MoSameOrdered
  <2>7. MoMoving(e)
    BY <2>1, <2>4, <2>5 DEF MoMoving, MoBytesSame
  <2>8. MoCarried(e)
    BY <2>6, <2>7 DEF MoCarried
  <2> QED
    BY <2>8 DEF e
<1> HIDE DEF handed, lost
<1>8. CASE r.channel # "none" /\ r.tx # <<>>
  <2>1. c = AfterChunk(handed) \/ c = SetSocketError(lost)
    BY <1>1, <1>8, Zenon
  <2> QED
    BY <1>6, <1>7, <2>1 DEF c
<1> QED
  BY <1>4, <1>5, <1>8 DEF c

LEMMA MoPostedCarried ==
  ASSUME MoLinked(mo), MoCarried(mo), MoPosted \/ MoWriteComplete
  PROVE  MoCarried(mo')
<1> DEFINE p == [mo EXCEPT !.posted = @ - 1]
           w == [mo EXCEPT !.inFlight = @ - 1]
<1>1. \/ mo.posted > 0 /\ \E ok \in WriteResults : mo' = MoWriteNotify(p, ok)
      \/ mo.inFlight > 0 /\ \E ok \in WriteResults : mo' = MoWriteNotify(w, ok)
  BY Zenon DEF MoPosted, MoWriteComplete
<1>2. DOMAIN mo = MoFields /\ MoOrdered(mo) /\ MoMoving(mo)
  BY DEF MoLinked, MoCarried
<1>3. /\ MoLinkSame(p, mo) /\ MoLinkSame(w, mo)
      /\ MoBytesKept(p, mo) /\ MoBytesKept(w, mo)
      /\ p.failed = mo.failed /\ w.failed = mo.failed
      /\ p.posted = mo.posted - 1 /\ p.inFlight = mo.inFlight
      /\ w.posted = mo.posted /\ w.inFlight = mo.inFlight - 1
  BY <1>2 DEF MoLinkSame, MoBytesKept, MoFields
<1> HIDE DEF p, w
<1>4. MoLinked(p) /\ MoLinked(w) /\ MoOrdered(p) /\ MoOrdered(w)
  BY <1>2, <1>3, MoSameLinked, MoKeptOrdered
<1>5. p.failed \in BOOLEAN /\ w.failed \in BOOLEAN
  BY <1>2, <1>3, Zenon DEF MoMoving
<1>6. mo.posted \in Nat /\ mo.inFlight \in Nat
  BY <1>2 DEF MoMoving
<1>7. ASSUME NEW ok, mo.posted > 0 PROVE MoCarried(MoWriteNotify(p, ok))
  BY <1>3, <1>4, <1>5, <1>6, <1>7, MoNotifyCarried
<1>8. ASSUME NEW ok, mo.inFlight > 0 PROVE MoCarried(MoWriteNotify(w, ok))
  BY <1>3, <1>4, <1>5, <1>6, <1>8, MoNotifyCarried
<1> QED
  BY <1>1, <1>7, <1>8

LEMMA MoNextCarried ==
  ASSUME MoLinked(mo), MoCarried(mo), [MoNext]_mo
  PROVE  MoCarried(mo')
<1>1. CASE UNCHANGED mo
  BY <1>1
<1> QED
  BY <1>1, MoConnectCarried, MoFinishedCarried, MoWriteCarriedOn, MoCloseCarried,
     MoPostedCarried, MoOpenedCarried DEF MoNext

LEMMA MoBytesPromise ==
  ASSUME MoCarried(mo)
  PROVE  MoStreams /\ MoWriteCarried
<1> DEFINE B == 1..Len(mo.written)
           D == 1..mo.sent
<1>1. mo.tx \in Seq(B) /\ mo.peer \in Seq(B) /\ InOrder(mo.peer \o mo.tx)
      /\ InOrder(mo.got \o mo.rx) /\ B \subseteq Nat
  BY LenProperties DEF MoCarried, MoOrdered
<1> HIDE DEF B
<1>2. mo.tx \in Seq(Nat) /\ mo.peer \in Seq(Nat)
  BY <1>1, SeqMonotonic
<1>3. InOrder(mo.peer)
  BY <1>1, <1>2, OrderOfParts
<1> QED
  BY <1>1, <1>3 DEF MoCarried, MoMoving, MoStreams, MoWriteCarried

-------------------------------------------------------------------------------
(* WinrtSocket: what is read crosses the event loop.                           *)

WsNames == {"notify", "newData", "addData", "error"}
WsEvents == [name : WsNames, data : Seq(Nat)]

\* The bytes that the events of a name carry, and how they are put together.
WsData(x, name) == IF x.name = name THEN x.data ELSE <<>>
WsBytes(e, name) == FlattenSeq([i \in DOMAIN e |-> WsData(e[i], name)])
WsRuns(f, e, name) ==
  /\ f \in [0..Len(e) -> Seq(Nat)] /\ f[0] = <<>>
  /\ \A k \in 1..Len(e) : f[k] = f[k - 1] \o WsData(e[k], name)

LEMMA WsDataIsBytes ==
  ASSUME NEW e \in Seq(WsEvents), NEW name
  PROVE  /\ Len(e) \in Nat /\ DOMAIN e = 1..Len(e)
         /\ \A k \in 1..Len(e) : e[k] \in WsEvents /\ WsData(e[k], name) \in Seq(Nat)
<1>1. \A k \in 1..Len(e) : e[k] \in WsEvents
  BY ElementOfSeq
<1>2. \A x \in WsEvents : WsData(x, name) \in Seq(Nat)
  BY EmptySeq DEF WsData, WsEvents
<1> QED
  BY <1>1, <1>2, LenProperties

\* FlattenSeq() is defined by recursion, which has a solution.
LEMMA WsBytesRun ==
  ASSUME NEW e \in Seq(WsEvents), NEW name
  PROVE  \E f : WsRuns(f, e, name) /\ WsBytes(e, name) = f[Len(e)]
<1> DEFINE n == Len(e)
           X == Seq(Nat)
           D(k) == WsData(e[k], name)
           s == [i \in DOMAIN e |-> D(i)]
           step == [k \in 1..n |-> [y \in X |-> y \o D(k)]]
<1>1. n \in Nat /\ DOMAIN e = 1..n /\ \A k \in 1..n : D(k) \in X
  BY WsDataIsBytes
<1>2. s = [i \in 1..n |-> D(i)] /\ s \in [1..n -> X]
  BY <1>1
<1>3. \A y, z \in X : y \o z \in X
  BY ConcatProperties
<1>4. <<>> \in X /\ \A y \in X : <<>> \o y = y
  BY EmptySeq, ConcatEmptySeq
<1> HIDE DEF X, D, n
<1>5. step \in StepsOf(n, X)
  BY <1>1, <1>3 DEF StepsOf
<1>6. \A k \in 1..n, y \in X : step[k][y] = y \o D(k)
  OBVIOUS
<1> HIDE DEF step
<1>7. PICK f : f \in [0..n -> X] /\ GoesOn(f, <<>>, step, n)
  BY <1>1, <1>4, <1>5, RecursionUpTo
<1>8. f[0] = <<>> /\ \A k \in 1..n : f[k] = f[k - 1] \o D(k)
  <2>1. \A k \in 1..n : k - 1 \in 0..n /\ f[k - 1] \in X
    BY <1>1, <1>7
  <2> QED
    BY <1>6, <1>7, <2>1 DEF GoesOn
<1>9. WsRuns(f, e, name)
  BY <1>7, <1>8 DEF WsRuns, X, D, n
<1>10. FlattenSeq(s) = f[n]
  <2>1. s \in Seq(X) /\ Len(s) = n
    BY <1>1, <1>2
  <2>2. CASE n = 0
    <3>1. s = <<>>
      BY <2>1, <2>2, EmptySeq
    <3>2. FlattenSeq(s) = s
      BY <2>1, <2>2, Zenon DEF FlattenSeq
    <3> QED
      BY <1>8, <2>2, <3>1, <3>2
  <2>3. CASE n # 0
    <3> DEFINE Eq(g) == g = [i \in 1..n |-> IF i = 1 THEN s[i] ELSE g[i - 1] \o s[i]]
               h == CHOOSE g : Eq(g)
               g0 == [i \in 1..n |-> f[i]]
    <3>1. FlattenSeq(s) = h[n]
      BY <2>1, <2>3, Zenon DEF FlattenSeq
    <3>2. Eq(g0)
      <4>1. ASSUME NEW i \in 1..n
            PROVE  f[i] = IF i = 1 THEN s[i] ELSE g0[i - 1] \o s[i]
        <5>1. s[i] = D(i) /\ D(i) \in X /\ f[i] = f[i - 1] \o D(i)
          BY <1>1, <1>2, <1>8
        <5>2. CASE i = 1
          <6>1. i - 1 = 0
            BY <5>2
          <6>2. f[i] = <<>> \o D(i) /\ <<>> \o D(i) = D(i)
            BY <1>4, <1>8, <5>1, <6>1
          <6> QED
            BY <5>1, <5>2, <6>2
        <5>3. CASE i # 1
          <6>1. i - 1 \in 1..n
            BY <1>1, <5>3
          <6>2. g0[i - 1] = f[i - 1]
            BY <6>1
          <6> QED
            BY <5>1, <5>3, <6>2
        <5> QED
          BY <5>2, <5>3
      <4> QED
        BY <4>1
    <3>3. Eq(h)
      <4> HIDE DEF Eq, g0
      <4> QED
        BY <3>2, Zenon
    <3> HIDE DEF h
    <3>4. \A i \in 1..n : h[i] = IF i = 1 THEN s[i] ELSE h[i - 1] \o s[i]
      BY <3>3
    <3> DEFINE T == {i \in Nat : i \in 1..n => h[i] = f[i]}
    <3>5. 0 \in T
      OBVIOUS
    <3>6. ASSUME NEW i \in Nat, i \in T
          PROVE  i + 1 \in T
      <4> SUFFICES ASSUME i + 1 \in 1..n PROVE h[i + 1] = f[i + 1]
        OBVIOUS
      <4>1. s[i + 1] = D(i + 1) /\ D(i + 1) \in X /\ (i + 1) - 1 = i
        BY <1>1, <1>2
      <4>2. f[i + 1] = f[i] \o D(i + 1)
        BY <1>8, <4>1
      <4>3. CASE i = 0
        <5>1. f[i] = <<>> /\ i + 1 = 1
          BY <1>8, <4>3
        <5>2. <<>> \o D(i + 1) = D(i + 1)
          BY <1>4, <4>1
        <5>3. h[i + 1] = s[i + 1]
          BY <3>4, <5>1
        <5> QED
          BY <4>1, <4>2, <5>1, <5>2, <5>3
      <4>4. CASE i # 0
        <5>1. i \in 1..n /\ i + 1 # 1
          BY <1>1, <4>4
        <5>2. h[i] = f[i]
          BY <3>6, <5>1
        <5>3. h[i + 1] = h[i] \o s[i + 1]
          BY <3>4, <4>1, <5>1
        <5> QED
          BY <4>1, <4>2, <5>2, <5>3
      <4> QED
        BY <4>3, <4>4
    <3> HIDE DEF T
    <3>7. Nat \subseteq T
      BY <3>5, <3>6, SetInduction
    <3>8. n \in 1..n
      BY <1>1, <2>3
    <3>9. h[n] = f[n]
      BY <1>1, <3>7, <3>8 DEF T
    <3> QED
      BY <3>1, <3>9
  <2> QED
    BY <2>2, <2>3
<1> QED
  BY <1>9, <1>10 DEF WsBytes, n, D

LEMMA WsBytesEmpty ==
  ASSUME NEW name
  PROVE  WsBytes(<<>>, name) = <<>>
<1>1. <<>> \in Seq(WsEvents) /\ Len(<<>>) = 0
  BY EmptySeq
<1> DEFINE e == <<>>
<1>2. e \in Seq(WsEvents) /\ Len(e) = 0
  BY <1>1
<1> HIDE DEF e
<1>3. PICK f : WsRuns(f, e, name) /\ WsBytes(e, name) = f[Len(e)]
  BY <1>2, WsBytesRun
<1>4. WsBytes(e, name) = <<>>
  BY <1>2, <1>3 DEF WsRuns
<1> QED
  BY <1>4 DEF e

LEMMA WsBytesAppend ==
  ASSUME NEW e \in Seq(WsEvents), NEW x \in WsEvents, NEW name
  PROVE  /\ WsBytes(e, name) \in Seq(Nat)
         /\ WsBytes(Append(e, x), name) = WsBytes(e, name) \o WsData(x, name)
<1> DEFINE n == Len(e)
           d == Append(e, x)
<1>1. n \in Nat /\ d \in Seq(WsEvents) /\ Len(d) = n + 1 /\ d[n + 1] = x
      /\ \A k \in 1..n : d[k] = e[k]
  BY LenProperties, AppendProperties
<1> HIDE DEF d
<1>2. PICK f : WsRuns(f, e, name) /\ WsBytes(e, name) = f[Len(e)]
  BY WsBytesRun
<1>3. PICK g : WsRuns(g, d, name) /\ WsBytes(d, name) = g[Len(d)]
  BY <1>1, WsBytesRun
<1>4. f[0] = <<>> /\ \A k \in 1..n : f[k] = f[k - 1] \o WsData(e[k], name)
  BY <1>2 DEF WsRuns
<1>5. g[0] = <<>> /\ \A k \in 1..(n + 1) : g[k] = g[k - 1] \o WsData(d[k], name)
  BY <1>1, <1>3 DEF WsRuns
<1> DEFINE T == {i \in Nat : i <= n => f[i] = g[i]}
<1>6. 0 \in T
  BY <1>4, <1>5
<1>7. ASSUME NEW i \in Nat, i \in T
      PROVE  i + 1 \in T
  <2> SUFFICES ASSUME i + 1 <= n PROVE f[i + 1] = g[i + 1]
    OBVIOUS
  <2>1. f[i] = g[i] /\ i + 1 \in 1..n /\ i + 1 \in 1..(n + 1) /\ (i + 1) - 1 = i
    BY <1>1, <1>7
  <2>2. f[i + 1] = f[i] \o WsData(e[i + 1], name)
    BY <1>4, <2>1
  <2>3. g[i + 1] = g[i] \o WsData(d[i + 1], name)
    BY <1>5, <2>1
  <2> QED
    BY <1>1, <2>1, <2>2, <2>3
<1> HIDE DEF T, n
<1>8. Nat \subseteq T
  BY <1>6, <1>7, SetInduction
<1>9. f[n] = g[n]
  BY <1>1, <1>8 DEF T
<1>10. g[n + 1] = g[n] \o WsData(x, name)
  <2>1. n + 1 \in 1..(n + 1) /\ (n + 1) - 1 = n
    BY <1>1
  <2> QED
    BY <1>1, <1>5, <2>1
<1>11. f[n] \in Seq(Nat)
  <2>1. n \in 0..n /\ f \in [0..n -> Seq(Nat)]
    BY <1>1, <1>2 DEF WsRuns, n
  <2> QED
    BY <2>1
<1> QED
  BY <1>1, <1>2, <1>3, <1>9, <1>10, <1>11 DEF d, n

LEMMA WsBytesHead ==
  ASSUME NEW e \in Seq(WsEvents), e # <<>>, NEW name
  PROVE  WsBytes(e, name) = WsData(Head(e), name) \o WsBytes(Tail(e), name)
<1> DEFINE n == Len(e)
           t == Tail(e)
           x == WsData(Head(e), name)
<1>1. /\ n \in Nat \ {0} /\ t \in Seq(WsEvents) /\ Len(t) = n - 1 /\ Head(e) = e[1]
      /\ \A k \in 1..(n - 1) : t[k] = e[k + 1]
  BY EmptySeq, LenProperties, HeadTailProperties
<1>2. /\ \A k \in 1..n : WsData(e[k], name) \in Seq(Nat)
      /\ x = WsData(e[1], name)
  BY <1>1, WsDataIsBytes
<1>3. x \in Seq(Nat) /\ x \o <<>> = x /\ <<>> \o x = x
  BY <1>1, <1>2, ConcatEmptySeq
<1> HIDE DEF t, x, n
<1>4. PICK f : WsRuns(f, e, name) /\ WsBytes(e, name) = f[n]
  BY WsBytesRun DEF n
<1>5. PICK g : WsRuns(g, t, name) /\ WsBytes(t, name) = g[n - 1]
  BY <1>1, WsBytesRun
<1>6. f[0] = <<>> /\ \A k \in 1..n : f[k] = f[k - 1] \o WsData(e[k], name)
  BY <1>4 DEF WsRuns, n
<1>7. /\ g[0] = <<>> /\ \A k \in 1..(n - 1) : g[k] = g[k - 1] \o WsData(t[k], name)
      /\ \A k \in 0..(n - 1) : g[k] \in Seq(Nat)
  BY <1>1, <1>5 DEF WsRuns
<1> DEFINE T == {i \in Nat : i <= n - 1 => f[i + 1] = x \o g[i]}
<1>8. 0 \in T
  <2>1. 1 \in 1..n /\ 1 - 1 = 0
    BY <1>1
  <2>2. f[1] = f[0] \o x
    BY <1>2, <1>6, <2>1
  <2> QED
    BY <1>3, <1>6, <1>7, <2>2
<1>9. ASSUME NEW i \in Nat, i \in T
      PROVE  i + 1 \in T
  <2> SUFFICES ASSUME i + 1 <= n - 1 PROVE f[(i + 1) + 1] = x \o g[i + 1]
    OBVIOUS
  <2> DEFINE w == WsData(e[(i + 1) + 1], name)
             y == g[i]
  <2>1. /\ f[i + 1] = x \o y /\ i + 1 \in 1..(n - 1) /\ (i + 1) + 1 \in 1..n
        /\ ((i + 1) + 1) - 1 = i + 1 /\ (i + 1) - 1 = i /\ i \in 0..(n - 1)
    BY <1>1, <1>9
  <2>2. w \in Seq(Nat) /\ y \in Seq(Nat)
    BY <1>2, <1>7, <2>1
  <2>3. g[i + 1] = y \o w
    BY <1>1, <1>7, <2>1
  <2>4. f[(i + 1) + 1] = f[i + 1] \o w
    BY <1>6, <2>1
  <2> HIDE DEF w, y
  <2>5. (x \o y) \o w = x \o (y \o w)
    <3>1. x \in Seq(Nat) /\ y \in Seq(Nat) /\ w \in Seq(Nat)
      BY <1>3, <2>2
    <3> QED
      BY ONLY <3>1, JoinsAgree
  <2> QED
    BY <2>1, <2>3, <2>4, <2>5
<1> HIDE DEF T
<1>10. Nat \subseteq T
  BY <1>8, <1>9, SetInduction
<1>11. n - 1 \in Nat /\ (n - 1) + 1 = n
  BY <1>1
<1>12. f[n] = x \o g[n - 1]
  <2> DEFINE i == n - 1
  <2>1. i \in Nat /\ i <= n - 1 /\ i \in T /\ i + 1 = n
    BY <1>10, <1>11
  <2> HIDE DEF i
  <2>2. f[i + 1] = x \o g[i]
    BY <2>1 DEF T
  <2> QED
    BY <2>1, <2>2 DEF i
<1> QED
  BY <1>4, <1>5, <1>12 DEF t, x

\* The stretches of the way, put together.
WsJoin(g, x, a, n, p, i) == ((((g \o x) \o a) \o n) \o p) \o i

LEMMA WsShift ==
  ASSUME NEW S, NEW u \in Seq(S), NEW v \in Seq(S), NEW d \in Seq(S), NEW w \in Seq(S)
  PROVE  (u \o (v \o d)) \o w = (u \o v) \o (d \o w)
<1>1. u \o v \in Seq(S) /\ v \o d \in Seq(S) /\ d \o w \in Seq(S)
  BY ConcatProperties
<1>2. (u \o v) \o (d \o w) = u \o ((v \o d) \o w)
  <2>1. u \in Seq(S) /\ v \in Seq(S) /\ d \in Seq(S) /\ w \in Seq(S)
    OBVIOUS
  <2> QED
    BY ONLY <2>1, ConcatFour, SMTT(60)
<1> DEFINE y == v \o d
<1>3. y \in Seq(S)
  BY <1>1
<1> HIDE DEF y
<1>4. (u \o y) \o w = u \o (y \o w)
  <2>1. u \in Seq(S) /\ y \in Seq(S) /\ w \in Seq(S)
    BY <1>3
  <2> QED
    BY ONLY <2>1, ConcatAssociative
<1> QED
  BY <1>1, <1>2, <1>4, ConcatEmptySeq DEF y

LEMMA WsMoveRead ==
  ASSUME NEW g, NEW x, NEW a, NEW n, NEW p, NEW i,
         /\ g \in Seq(Nat) /\ x \in Seq(Nat) /\ a \in Seq(Nat) /\ n \in Seq(Nat)
         /\ p \in Seq(Nat) /\ i \in Seq(Nat)
  PROVE  WsJoin(g \o x, <<>>, a, n, p, i) = WsJoin(g, x, a, n, p, i)
<1> DEFINE A == g \o x
           B == A \o a
<1>1. A \in Seq(Nat)
  <2>1. g \in Seq(Nat) /\ x \in Seq(Nat)
    OBVIOUS
  <2> QED
    BY ONLY <2>1, ConcatProperties DEF A
<1> HIDE DEF A
<1>2. B \in Seq(Nat) /\ A \o <<>> = A
  <2>1. A \in Seq(Nat) /\ a \in Seq(Nat)
    BY <1>1
  <2> QED
    BY ONLY <2>1, ConcatProperties, ConcatEmptySeq DEF B
<1> HIDE DEF B
<1>3. g \o x = A /\ A \o a = B
  BY DEF A, B
<1> QED
  BY <1>2, <1>3, Zenon DEF WsJoin

LEMMA WsMoveAdd ==
  ASSUME NEW g, NEW x, NEW a, NEW n, NEW p, NEW i, NEW d,
         /\ g \in Seq(Nat) /\ x \in Seq(Nat) /\ a \in Seq(Nat) /\ n \in Seq(Nat)
         /\ p \in Seq(Nat) /\ i \in Seq(Nat) /\ d \in Seq(Nat)
  PROVE  WsJoin(g, x \o d, a, n, p, i) = WsJoin(g, x, d \o a, n, p, i)
<1> DEFINE A == g \o x
<1>1. (g \o (x \o d)) \o a = A \o (d \o a)
  <2>1. g \in Seq(Nat) /\ x \in Seq(Nat) /\ d \in Seq(Nat) /\ a \in Seq(Nat)
    OBVIOUS
  <2>2. (g \o (x \o d)) \o a = (g \o x) \o (d \o a)
    BY ONLY <2>1, WsShift, SMTT(60)
  <2> QED
    BY <2>2, Zenon DEF A
<1> HIDE DEF A
<1>2. g \o x = A
  BY DEF A
<1> QED
  BY <1>1, <1>2, Zenon DEF WsJoin

LEMMA WsMovePost ==
  ASSUME NEW g, NEW x, NEW a, NEW n, NEW p, NEW i, NEW d,
         /\ g \in Seq(Nat) /\ x \in Seq(Nat) /\ a \in Seq(Nat) /\ n \in Seq(Nat)
         /\ p \in Seq(Nat) /\ i \in Seq(Nat) /\ d \in Seq(Nat)
  PROVE  WsJoin(g, x, a \o d, n, p, i) = WsJoin(g, x, a, d \o n, p, i)
<1> DEFINE A == g \o x
           B == A \o a
<1>1. A \in Seq(Nat)
  <2>1. g \in Seq(Nat) /\ x \in Seq(Nat)
    OBVIOUS
  <2> QED
    BY ONLY <2>1, ConcatProperties DEF A
<1> HIDE DEF A
<1>2. (A \o (a \o d)) \o n = B \o (d \o n)
  <2>1. A \in Seq(Nat) /\ a \in Seq(Nat) /\ d \in Seq(Nat) /\ n \in Seq(Nat)
    BY <1>1
  <2>2. (A \o (a \o d)) \o n = (A \o a) \o (d \o n)
    BY ONLY <2>1, WsShift, SMTT(60)
  <2> QED
    BY <2>2, Zenon DEF B
<1> HIDE DEF B
<1>3. g \o x = A /\ A \o a = B
  BY DEF A, B
<1> QED
  BY <1>2, <1>3, Zenon DEF WsJoin

LEMMA WsMoveNotify ==
  ASSUME NEW g, NEW x, NEW a, NEW n, NEW p, NEW i,
         /\ g \in Seq(Nat) /\ x \in Seq(Nat) /\ a \in Seq(Nat) /\ n \in Seq(Nat)
         /\ p \in Seq(Nat) /\ i \in Seq(Nat)
  PROVE  WsJoin(g, x, a, n \o p, <<>>, i) = WsJoin(g, x, a, n, p, i)
<1> DEFINE A == g \o x
           B == A \o a
           C == B \o n
           D == C \o p
<1>1. A \in Seq(Nat)
  <2>1. g \in Seq(Nat) /\ x \in Seq(Nat)
    OBVIOUS
  <2> QED
    BY ONLY <2>1, ConcatProperties DEF A
<1> HIDE DEF A
<1>2. B \in Seq(Nat) /\ A \o <<>> = A
  <2>1. A \in Seq(Nat) /\ a \in Seq(Nat)
    BY <1>1
  <2> QED
    BY ONLY <2>1, ConcatProperties, ConcatEmptySeq DEF B
<1> HIDE DEF B
<1>3. C \in Seq(Nat) /\ n \o p \in Seq(Nat)
  <2>1. B \in Seq(Nat) /\ n \in Seq(Nat) /\ p \in Seq(Nat)
    BY <1>2
  <2> QED
    BY ONLY <2>1, ConcatProperties DEF C
<1>4. B \o (n \o p) = C \o p
  <2>1. B \in Seq(Nat) /\ n \in Seq(Nat) /\ p \in Seq(Nat)
    BY <1>2
  <2> QED
    BY ONLY <2>1, JoinsAgree DEF C
<1> HIDE DEF C
<1>5. D \in Seq(Nat)
  <2>1. C \in Seq(Nat) /\ p \in Seq(Nat)
    BY <1>3
  <2> QED
    BY ONLY <2>1, ConcatProperties DEF D
<1>6. (C \o p) \o <<>> = C \o p
  <2>1. D \o <<>> = D
    <3> HIDE DEF D
    <3> QED
      BY ONLY <1>5, ConcatEmptySeq
  <2> QED
    BY <2>1 DEF D
<1> HIDE DEF D
<1>7. g \o x = A /\ A \o a = B /\ B \o n = C /\ C \o p = D
  BY DEF A, B, C, D
<1> QED
  BY <1>4, <1>6, <1>7, Zenon DEF WsJoin

LEMMA WsMoveTake ==
  ASSUME NEW g, NEW x, NEW a, NEW n, NEW p, NEW i, NEW d,
         /\ g \in Seq(Nat) /\ x \in Seq(Nat) /\ a \in Seq(Nat) /\ n \in Seq(Nat)
         /\ p \in Seq(Nat) /\ i \in Seq(Nat) /\ d \in Seq(Nat)
  PROVE  WsJoin(g, x, a, n, p \o d, i) = WsJoin(g, x, a, n, p, d \o i)
<1> DEFINE A == g \o x
           B == A \o a
           C == B \o n
           D == C \o p
<1>1. A \in Seq(Nat)
  <2>1. g \in Seq(Nat) /\ x \in Seq(Nat)
    OBVIOUS
  <2> QED
    BY ONLY <2>1, ConcatProperties DEF A
<1> HIDE DEF A
<1>2. B \in Seq(Nat) /\ A \o <<>> = A
  <2>1. A \in Seq(Nat) /\ a \in Seq(Nat)
    BY <1>1
  <2> QED
    BY ONLY <2>1, ConcatProperties, ConcatEmptySeq DEF B
<1> HIDE DEF B
<1>3. C \in Seq(Nat) /\ n \o p \in Seq(Nat)
  <2>1. B \in Seq(Nat) /\ n \in Seq(Nat) /\ p \in Seq(Nat)
    BY <1>2
  <2> QED
    BY ONLY <2>1, ConcatProperties DEF C
<1> HIDE DEF C
<1>4. (C \o (p \o d)) \o i = D \o (d \o i)
  <2>1. C \in Seq(Nat) /\ p \in Seq(Nat) /\ d \in Seq(Nat) /\ i \in Seq(Nat)
    BY <1>3
  <2>2. (C \o (p \o d)) \o i = (C \o p) \o (d \o i)
    BY ONLY <2>1, WsShift, SMTT(60)
  <2> QED
    BY <2>2, Zenon DEF D
<1> HIDE DEF D
<1>5. g \o x = A /\ A \o a = B /\ B \o n = C /\ C \o p = D
  BY DEF A, B, C, D
<1> QED
  BY <1>4, <1>5, Zenon DEF WsJoin

LEMMA WsMoveArrive ==
  ASSUME NEW g, NEW x, NEW a, NEW n, NEW p, NEW i, NEW d,
         /\ g \in Seq(Nat) /\ x \in Seq(Nat) /\ a \in Seq(Nat) /\ n \in Seq(Nat)
         /\ p \in Seq(Nat) /\ i \in Seq(Nat) /\ d \in Seq(Nat)
  PROVE  WsJoin(g, x, a, n, p, i \o d) = WsJoin(g, x, a, n, p, i) \o d
<1> DEFINE A == g \o x
           B == A \o a
           C == B \o n
           D == C \o p
<1>1. A \in Seq(Nat)
  <2>1. g \in Seq(Nat) /\ x \in Seq(Nat)
    OBVIOUS
  <2> QED
    BY ONLY <2>1, ConcatProperties DEF A
<1> HIDE DEF A
<1>2. B \in Seq(Nat) /\ A \o <<>> = A
  <2>1. A \in Seq(Nat) /\ a \in Seq(Nat)
    BY <1>1
  <2> QED
    BY ONLY <2>1, ConcatProperties, ConcatEmptySeq DEF B
<1> HIDE DEF B
<1>3. C \in Seq(Nat) /\ n \o p \in Seq(Nat)
  <2>1. B \in Seq(Nat) /\ n \in Seq(Nat) /\ p \in Seq(Nat)
    BY <1>2
  <2> QED
    BY ONLY <2>1, ConcatProperties DEF C
<1> HIDE DEF C
<1>4. D \in Seq(Nat)
  <2>1. C \in Seq(Nat) /\ p \in Seq(Nat)
    BY <1>3
  <2> QED
    BY ONLY <2>1, ConcatProperties DEF D
<1> HIDE DEF D
<1>5. D \o (i \o d) = (D \o i) \o d
  <2>1. D \in Seq(Nat) /\ i \in Seq(Nat) /\ d \in Seq(Nat)
    BY <1>4
  <2> QED
    BY ONLY <2>1, JoinsAgree
<1>6. g \o x = A /\ A \o a = B /\ B \o n = C /\ C \o p = D
  BY DEF A, B, C, D
<1> QED
  BY <1>5, <1>6, Zenon DEF WsJoin

WsFields ==
  {"scenario", "native", "worker", "link", "pending", "events", "rx", "inbox", "sent",
   "peer", "state", "agent", "told", "errors", "session", "written", "got"}
\* The sent bytes are counted for one connection: those of an earlier one that were
\* not read when it was closed are lost with it.
\* None is closed while ConnectAsync() runs, which may connect the closed socket.
WsConnectsOnce ==
  \A s \in WsScenarios : s.sessions \in {0, 1} /\ "closeConnecting" \notin s.may

\* What came, in the order in which the application reads it.
WsWay(r) ==
  WsJoin(r.got, r.rx, WsBytes(r.events, "addData"), WsBytes(r.events, "newData"),
         r.pending, r.inbox)
WsCalled(e) == \E i \in DOMAIN e : e[i].name = "notify"
WsHeld(r) ==
  /\ r.events \in Seq(WsEvents)
  /\ r.got \in Seq(Nat) /\ r.rx \in Seq(Nat)
  /\ r.pending \in Seq(Nat) /\ r.inbox \in Seq(Nat)
  /\ r.pending # <<>> => WsCalled(r.events)
  /\ r.state = "Connected" => WsWay(r) = [i \in 1..r.sent |-> i]

\* Before a connection is there, nothing is on its way; once the worker is closed,
\* nothing will be again.
WsFresh(r) ==
  /\ r.got = <<>> /\ r.rx = <<>> /\ r.pending = <<>> /\ r.inbox = <<>>
  /\ r.events = <<>> /\ r.sent = 0 /\ r.worker = "idle"
WsRecord(r) ==
  /\ DOMAIN r = WsFields /\ r.scenario \in WsScenarios
  /\ r.session \in Nat /\ r.sent \in Nat
  /\ r.state \in {"Unconnected", "Connecting", "Connected"}
WsGood(r) ==
  /\ WsRecord(r)
  /\ r.session = 0 => WsFresh(r) /\ r.state = "Unconnected" /\ r.link = "none"
  /\ r.state = "Connecting" => WsFresh(r) /\ r.session # 0 /\ r.link = "connecting"
  /\ r.worker = "closed" =>
       r.session # 0 /\ r.state = "Unconnected" /\ r.pending = <<>> /\ r.link = "none"
  /\ r.link = "connecting" => r.state = "Connecting"
  /\ r.worker # "closed" => WsHeld(r)

WsRest(c, r, changed) ==
  DOMAIN c = WsFields /\ \A f \in WsFields \ changed : c[f] = r[f]

LEMMA WsTold ==
  ASSUME NEW r, DOMAIN r = WsFields, NEW new
  PROVE  /\ WsRest(SetSocketState(r, new), r, {"state", "told"})
         /\ SetSocketState(r, new).state = new
         /\ WsRest(SetSocketError(r), r, {"errors"})
BY DEF WsRest, SetSocketState, SetSocketError, WsFields

LEMMA WsFreshHeld ==
  ASSUME NEW r, WsFresh(r)
  PROVE  WsHeld(r)
<1> DEFINE z == <<>>
<1>1. z \in Seq(WsEvents) /\ z \in Seq(Nat)
  BY EmptySeq
<1>2. z \o z = z
  BY <1>1, ConcatEmptySeq
<1>3. WsBytes(z, "addData") = z /\ WsBytes(z, "newData") = z
  BY WsBytesEmpty
<1>4. z = [i \in 1..0 |-> i]
  OBVIOUS
<1> HIDE DEF z
<1>5. /\ r.got = z /\ r.rx = z /\ r.pending = z /\ r.inbox = z /\ r.events = z
      /\ r.sent = 0
  BY DEF WsFresh, z
<1>6. WsWay(r) = z
  BY <1>2, <1>3, <1>5, Zenon DEF WsWay, WsJoin
<1>7. r.pending = <<>>
  BY DEF WsFresh
<1>8. /\ r.events \in Seq(WsEvents)
      /\ r.got \in Seq(Nat) /\ r.rx \in Seq(Nat)
      /\ r.pending \in Seq(Nat) /\ r.inbox \in Seq(Nat)
  BY <1>1, <1>5, Zenon
<1>9. WsWay(r) = [i \in 1..r.sent |-> i]
  BY <1>4, <1>5, <1>6, Zenon
<1> QED
  BY <1>7, <1>8, <1>9, Zenon DEF WsHeld

LEMMA WsInitGood == WsInit => WsGood(ws)
<1> SUFFICES ASSUME WsInit PROVE WsGood(ws)
  OBVIOUS
<1>1. PICK s \in WsScenarios :
        ws = SocketBase([scenario |-> s, native |-> FALSE, worker |-> "idle",
                         link |-> "none", pending |-> <<>>, events |-> <<>>, rx |-> <<>>,
                         inbox |-> <<>>, sent |-> 0, peer |-> <<>>])
  BY Zenon DEF WsInit
<1>2. /\ DOMAIN ws = WsFields /\ ws.scenario = s /\ ws.session = 0 /\ ws.sent = 0
      /\ ws.state = "Unconnected" /\ ws.link = "none" /\ WsFresh(ws)
  BY <1>1 DEF SocketBase, WsFields, WsFresh
<1>3. WsHeld(ws)
  BY <1>2, WsFreshHeld
<1> QED
  BY <1>2, <1>3 DEF WsGood, WsRecord, WsFresh

\* What a connection that is up, or was, has to keep.
LEMMA WsGoesOn ==
  ASSUME NEW r, NEW c, WsGood(r), r.session # 0, r.worker # "closed",
         DOMAIN c = WsFields, c.scenario = r.scenario, c.session = r.session,
         c.sent \in Nat, c.worker # "closed", c.state \in {"Unconnected", "Connected"},
         c.link # "connecting",
         WsHeld(c)
  PROVE  WsGood(c)
BY DEF WsGood, WsRecord

LEMMA WsStaysClosed ==
  ASSUME NEW r, NEW c, WsGood(r), r.worker = "closed",
         DOMAIN c = WsFields, c.scenario = r.scenario, c.session = r.session,
         c.sent = r.sent, c.worker = "closed", c.state = "Unconnected",
         c.link = r.link, c.pending = <<>>
  PROVE  WsGood(c)
BY DEF WsGood, WsRecord

\* Where the bytes and their events stay, they stay in order.
WsBytesKept(c, r) ==
  /\ c.got = r.got /\ c.rx = r.rx /\ c.pending = r.pending /\ c.inbox = r.inbox
  /\ c.events = r.events /\ c.sent = r.sent
LEMMA WsKept ==
  ASSUME NEW r, NEW c, WsHeld(r), WsBytesKept(c, r), c.state \in {r.state, "Unconnected"}
  PROVE  WsHeld(c)
<1>1. WsWay(c) = WsWay(r)
  BY Zenon DEF WsBytesKept, WsWay
<1>2. c.state = "Connected" => r.state = "Connected"
  OBVIOUS
<1>3. (c.pending # <<>> => WsCalled(c.events)) /\ c.events \in Seq(WsEvents)
      /\ c.got \in Seq(Nat) /\ c.rx \in Seq(Nat)
      /\ c.pending \in Seq(Nat) /\ c.inbox \in Seq(Nat)
  BY Zenon DEF WsBytesKept, WsHeld
<1>4. c.state = "Connected" => WsWay(c) = [i \in 1..c.sent |-> i]
  BY <1>1, <1>2, Zenon DEF WsBytesKept, WsHeld
<1> QED
  BY <1>3, <1>4, Zenon DEF WsHeld

LEMMA WsBegins ==
  ASSUME WsConnectsOnce, WsGood(ws), WsConnect \/ WsAccept
  PROVE  WsGood(ws')
<1> DEFINE n == NewSession(ws)
           c == [n EXCEPT !.native = TRUE, !.link = "connecting"]
           a == [n EXCEPT !.native = TRUE, !.link = "up"]
<1>1. /\ ws.session < ws.scenario.sessions
      /\ \/ ws' = SetSocketState(c, "Connecting")
         \/ ws' = StartReading(SetSocketState(a, "Connected"))
  BY DEF WsConnect, WsAccept, TakeDescriptor
<1>2. DOMAIN ws = WsFields /\ ws.session \in Nat /\ ws.scenario.sessions \in {0, 1}
  BY DEF WsGood, WsRecord, WsConnectsOnce
<1>3. ws.session = 0
  BY <1>1, <1>2
<1>4. WsFresh(ws) /\ ws.scenario \in WsScenarios
  BY <1>3 DEF WsGood, WsRecord
<1>5. /\ DOMAIN n = WsFields /\ n.session = 1
      /\ \A f \in WsFields \ {"session"} : n[f] = ws[f]
  BY <1>2, <1>3 DEF NewSession, WsFields
<1> HIDE DEF n
<1>6. /\ WsRest(c, n, {"native", "link"}) /\ c.link = "connecting" /\ a.link = "up"
      /\ WsRest(a, n, {"native", "link"})
  BY <1>5 DEF WsRest, WsFields
<1> HIDE DEF c, a
<1>7. /\ DOMAIN c = WsFields /\ c.session = 1 /\ c.scenario = ws.scenario /\ WsFresh(c)
      /\ DOMAIN a = WsFields /\ a.session = 1 /\ a.scenario = ws.scenario /\ WsFresh(a)
  BY <1>4, <1>5, <1>6 DEF WsRest, WsFields, WsFresh
<1> DEFINE d == SetSocketState(c, "Connecting")
           b == SetSocketState(a, "Connected")
           s == StartReading(b)
<1>8. /\ WsRest(d, c, {"state", "told"}) /\ d.state = "Connecting"
      /\ WsRest(b, a, {"state", "told"}) /\ b.state = "Connected"
  BY <1>7, WsTold
<1> HIDE DEF d, b
<1>9. /\ DOMAIN d = WsFields /\ d.session = 1 /\ d.scenario = ws.scenario /\ WsFresh(d)
      /\ DOMAIN b = WsFields /\ b.session = 1 /\ b.scenario = ws.scenario /\ WsFresh(b)
      /\ d.link = "connecting" /\ b.link = "up"
  BY <1>6, <1>7, <1>8 DEF WsRest, WsFields, WsFresh
<1>10. WsGood(d)
  BY <1>4, <1>8, <1>9, WsFreshHeld DEF WsGood, WsRecord, WsFresh
<1>11. WsRest(s, b, {"worker"}) /\ s.worker = "reading"
  BY <1>9 DEF WsRest, StartReading, WsFields
<1> HIDE DEF s
<1>12. WsBytesKept(s, b) /\ s.state = b.state
  BY <1>11 DEF WsRest, WsFields, WsBytesKept
<1>13. WsHeld(s)
  BY <1>9, <1>12, WsFreshHeld, WsKept
<1>14. DOMAIN s = WsFields /\ s.session = 1 /\ s.scenario = ws.scenario /\ s.sent = 0
       /\ s.link = "up"
  BY <1>9, <1>11 DEF WsRest, WsFields, WsFresh
<1>15. WsGood(s)
  BY <1>4, <1>8, <1>11, <1>12, <1>13, <1>14 DEF WsGood, WsRecord
<1> QED
  BY <1>1, <1>10, <1>15 DEF d, s, b

LEMMA WsClosesGood ==
  ASSUME WsConnectsOnce, WsGood(ws), WsCloses
  PROVE  WsGood(ws')
<1> DEFINE e == [ws EXCEPT !.agent = FALSE]
           k == SetSocketState(e, "Closing")
           own == SelectSeq(k.events, LAMBDA x : x.name # "notify")
           c == [k EXCEPT !.worker = "closed", !.native = FALSE,
                          !.link = IF @ = "connecting" THEN @ ELSE "none",
                          !.pending = <<>>, !.inbox = <<>>, !.events = own]
           a == SetSocketState(c, "Unconnected")
<1>1. ws.state = "Connected" /\ ws.link # "connecting"
  <2>1. ws.scenario \in WsScenarios
    BY DEF WsGood, WsRecord
  <2>2. ~WsMay("closeConnecting")
    BY <2>1 DEF WsConnectsOnce, WsMay
  <2>3. ws.state = "Connected"
    BY <2>2 DEF WsCloses
  <2> QED
    BY <2>3 DEF WsGood
<1>2. SocketClose(ws, WsAbort) = WsAbort(EnterClosing(ws))
  BY <1>1, Zenon DEF SocketClose
<1>3. ws' = a
  BY <1>2, Zenon DEF WsCloses, WsAbort, EnterClosing
<1>4. DOMAIN ws = WsFields /\ ws.session # 0 /\ ws.session \in Nat /\ ws.sent \in Nat
      /\ ws.scenario \in WsScenarios
  BY <1>1 DEF WsGood, WsRecord
<1>5. WsRest(e, ws, {"agent"})
  BY <1>4 DEF WsRest, WsFields
<1> HIDE DEF e
<1>6. WsRest(k, e, {"state", "told"})
  BY <1>5, WsTold DEF WsRest
<1> HIDE DEF k, own
<1>7. /\ WsRest(c, k, {"worker", "native", "link", "pending", "inbox", "events"})
      /\ c.worker = "closed" /\ c.link = "none" /\ c.pending = <<>>
  BY <1>1, <1>5, <1>6 DEF WsRest, WsFields
<1> HIDE DEF c
<1>8. WsRest(a, c, {"state", "told"}) /\ a.state = "Unconnected"
  BY <1>7, WsTold DEF WsRest
<1> HIDE DEF a
<1>9. /\ DOMAIN a = WsFields /\ a.session = ws.session /\ a.sent = ws.sent
      /\ a.scenario = ws.scenario /\ a.worker = "closed" /\ a.link = "none"
      /\ a.pending = <<>>
  BY <1>5, <1>6, <1>7, <1>8 DEF WsRest, WsFields
<1> QED
  BY <1>3, <1>4, <1>8, <1>9 DEF WsGood, WsRecord

\* A step that leaves the bytes of a live connection alone.
LEMMA WsKeptGood ==
  ASSUME NEW c, WsGood(ws), ws.session # 0, ws.worker # "closed",
         DOMAIN c = WsFields, WsBytesKept(c, ws), c.scenario = ws.scenario,
         c.session = ws.session, c.worker # "closed",
         c.state \in {ws.state, "Unconnected"}, ws.state # "Connecting",
         c.link # "connecting"
  PROVE  WsGood(c)
<1>1. WsHeld(ws) /\ WsRecord(ws)
  BY DEF WsGood
<1>2. WsHeld(c)
  BY <1>1, WsKept
<1>3. c.sent \in Nat /\ c.state \in {"Unconnected", "Connected"}
  BY <1>1 DEF WsRecord, WsBytesKept
<1> QED
  BY <1>2, <1>3, WsGoesOn

LEMMA WsWriteGood ==
  ASSUME WsGood(ws), WsWrite \/ WsPeerCloses
  PROVE  WsGood(ws')
<1> DEFINE w == [ws EXCEPT !.written = Append(@, NextByte(@)),
                           !.peer = Append(@, NextByte(ws.written))]
           e == SetSocketError(ws)
           l == [ws EXCEPT !.link = "lost"]
<1>1. \/ ws.state = "Connected" /\ (ws' = w \/ ws' = e)
      \/ ws.link = "up" /\ ws' = l
  BY Zenon DEF WsWrite, WsPeerCloses, WriteIOStream
<1>2. DOMAIN ws = WsFields /\ ws.session # 0 /\ ws.worker # "closed"
      /\ ws.state # "Connecting" /\ ws.link # "connecting"
  BY <1>1 DEF WsGood, WsRecord
<1>3. WsRest(w, ws, {"written", "peer"})
  BY <1>2 DEF WsRest, WsFields
<1>4. WsRest(e, ws, {"errors"})
  BY <1>2, WsTold
<1>5. WsRest(l, ws, {"link"}) /\ l.link = "lost"
  BY <1>2 DEF WsRest, WsFields
<1> HIDE DEF w, e, l
<1>6. WsRest(ws', ws, {"written", "peer", "errors", "link"})
  BY <1>1, <1>3, <1>4, <1>5 DEF WsRest
<1>7. /\ DOMAIN ws' = WsFields /\ WsBytesKept(ws', ws) /\ ws'.scenario = ws.scenario
      /\ ws'.session = ws.session /\ ws'.worker = ws.worker /\ ws'.state = ws.state
  BY <1>6 DEF WsRest, WsFields, WsBytesKept
<1>8. ws'.link # "connecting"
  BY <1>1, <1>2, <1>3, <1>4, <1>5 DEF WsRest, WsFields
<1> QED
  BY <1>2, <1>7, <1>8, WsKeptGood

LEMMA WsConnectEndsGood ==
  ASSUME WsGood(ws), WsConnectEnds
  PROVE  WsGood(ws')
<1> DEFINE u == [ws EXCEPT !.link = "up"]
           v == SetSocketState(u, "Connected")
           s == StartReading(v)
           n == [ws EXCEPT !.link = "none"]
           e == SetSocketError(n)
           f == SetSocketState(e, "Unconnected")
<1>1. ws.state = "Connecting" /\ (ws' = s \/ ws' = f)
  BY Zenon DEF WsConnectEnds, HandleConnectOpFinished, WsGood
<1>2. /\ WsFresh(ws) /\ DOMAIN ws = WsFields /\ ws.session # 0 /\ ws.session \in Nat
      /\ ws.scenario \in WsScenarios
  BY <1>1 DEF WsGood, WsRecord
<1>3. /\ WsRest(u, ws, {"link"}) /\ WsRest(n, ws, {"link"})
      /\ u.link = "up" /\ n.link = "none"
  BY <1>2 DEF WsRest, WsFields
<1> HIDE DEF u, n
<1>4. /\ WsRest(v, u, {"state", "told"}) /\ v.state = "Connected"
      /\ WsRest(e, n, {"errors"})
  BY <1>3, WsTold DEF WsRest
<1> HIDE DEF v, e
<1>5. WsRest(f, e, {"state", "told"}) /\ f.state = "Unconnected"
  BY <1>4, WsTold DEF WsRest
<1>6. WsRest(s, v, {"worker"}) /\ s.worker = "reading"
  BY <1>4 DEF WsRest, StartReading, WsFields
<1> HIDE DEF s, f
<1>7. /\ WsFresh(v) /\ DOMAIN s = WsFields /\ s.scenario = ws.scenario
      /\ s.session = ws.session /\ WsBytesKept(s, v) /\ s.state = "Connected"
      /\ s.sent = 0 /\ s.link = "up"
  BY <1>2, <1>3, <1>4, <1>6 DEF WsRest, WsFields, WsFresh, WsBytesKept
<1>8. /\ WsFresh(f) /\ DOMAIN f = WsFields /\ f.scenario = ws.scenario
      /\ f.session = ws.session /\ f.link = "none"
  BY <1>2, <1>3, <1>4, <1>5 DEF WsRest, WsFields, WsFresh
<1>9. WsHeld(s)
  <2>1. WsHeld(v)
    BY <1>7, WsFreshHeld
  <2> QED
    BY <1>4, <1>7, <2>1, WsKept
<1>10. WsHeld(f)
  BY <1>8, WsFreshHeld
<1>11. WsGood(s)
  BY <1>2, <1>6, <1>7, <1>9 DEF WsGood, WsRecord
<1>12. WsGood(f)
  BY <1>2, <1>5, <1>8, <1>10 DEF WsGood, WsRecord, WsFresh
<1> QED
  BY <1>1, <1>11, <1>12

LEMMA WsPosts ==
  ASSUME NEW e \in Seq(WsEvents), NEW x \in WsEvents
  PROVE  /\ Append(e, x) \in Seq(WsEvents)
         /\ WsCalled(e) \/ x.name = "notify" => WsCalled(Append(e, x))
         /\ \A name : /\ WsBytes(e, name) \in Seq(Nat)
                      /\ WsBytes(Append(e, x), name) = WsBytes(e, name) \o WsData(x, name)
                      /\ x.name # name => WsBytes(Append(e, x), name) = WsBytes(e, name)
<1> DEFINE c == Append(e, x)
<1>1. /\ c \in Seq(WsEvents) /\ Len(e) \in Nat /\ DOMAIN e = 1..Len(e)
      /\ DOMAIN c = 1..(Len(e) + 1) /\ c[Len(e) + 1] = x
      /\ \A k \in 1..Len(e) : c[k] = e[k]
  BY LenProperties, AppendProperties
<1> HIDE DEF c
<1>2. WsCalled(e) \/ x.name = "notify" => WsCalled(c)
  BY <1>1 DEF WsCalled
<1>3. ASSUME NEW name
      PROVE  /\ WsBytes(e, name) \in Seq(Nat)
             /\ WsBytes(c, name) = WsBytes(e, name) \o WsData(x, name)
             /\ x.name # name => WsBytes(c, name) = WsBytes(e, name)
  <2>1. /\ WsBytes(e, name) \in Seq(Nat)
        /\ WsBytes(c, name) = WsBytes(e, name) \o WsData(x, name)
    BY WsBytesAppend DEF c
  <2>2. x.name # name => WsData(x, name) = <<>>
    BY DEF WsData
  <2>3. WsBytes(e, name) \o <<>> = WsBytes(e, name)
    BY <2>1, ConcatEmptySeq
  <2> QED
    BY <2>1, <2>2, <2>3
<1> QED
  BY <1>1, <1>2, <1>3 DEF c

LEMMA WsTakes ==
  ASSUME NEW e \in Seq(WsEvents), e # <<>>
  PROVE  /\ Tail(e) \in Seq(WsEvents) /\ Head(e) \in WsEvents
         /\ Head(e).name # "notify" /\ WsCalled(e) => WsCalled(Tail(e))
         /\ \A name :
              /\ WsBytes(Tail(e), name) \in Seq(Nat)
              /\ WsBytes(e, name) = WsData(Head(e), name) \o WsBytes(Tail(e), name)
              /\ Head(e).name # name => WsBytes(e, name) = WsBytes(Tail(e), name)
<1> DEFINE t == Tail(e)
           x == Head(e)
<1>1. /\ t \in Seq(WsEvents) /\ x \in WsEvents /\ x = e[1] /\ Len(e) \in Nat \ {0}
      /\ DOMAIN e = 1..Len(e) /\ DOMAIN t = 1..(Len(e) - 1)
      /\ \A k \in 1..(Len(e) - 1) : t[k] = e[k + 1]
  BY EmptySeq, LenProperties, HeadTailProperties
<1> HIDE DEF t, x
<1>2. x.name # "notify" /\ WsCalled(e) => WsCalled(t)
  <2> SUFFICES ASSUME x.name # "notify", NEW i \in DOMAIN e, e[i].name = "notify"
               PROVE  WsCalled(t)
    BY DEF WsCalled
  <2>1. i # 1 /\ i - 1 \in DOMAIN t /\ (i - 1) + 1 = i
    BY <1>1
  <2>2. t[i - 1] = e[i]
    BY <1>1, <2>1
  <2> QED
    BY <2>1, <2>2 DEF WsCalled
<1>3. ASSUME NEW name
      PROVE  /\ WsBytes(t, name) \in Seq(Nat)
             /\ WsBytes(e, name) = WsData(x, name) \o WsBytes(t, name)
             /\ x.name # name => WsBytes(e, name) = WsBytes(t, name)
  <2>1. WsBytes(t, name) \in Seq(Nat)
    BY <1>1, WsBytesAppend
  <2>2. WsBytes(e, name) = WsData(x, name) \o WsBytes(t, name)
    BY WsBytesHead DEF t, x
  <2>3. x.name # name => WsData(x, name) = <<>>
    BY DEF WsData
  <2>4. <<>> \o WsBytes(t, name) = WsBytes(t, name)
    BY <2>1, ConcatEmptySeq
  <2> QED
    BY <2>1, <2>2, <2>3, <2>4
<1> QED
  BY <1>1, <1>2, <1>3 DEF t, x

\* A step of a connection that is, or was, up: it moves bytes, and calls for them.
LEMMA WsMovedGood ==
  ASSUME NEW c, WsGood(ws), ws.session # 0, ws.state # "Connecting",
         ws.worker # "closed", c.worker # "closed",
         WsRest(c, ws, {"got", "rx", "pending", "inbox", "events", "worker"}),
         c.events \in Seq(WsEvents), c.got \in Seq(Nat), c.rx \in Seq(Nat),
         c.pending \in Seq(Nat), c.inbox \in Seq(Nat),
         c.pending # <<>> => WsCalled(c.events),
         WsWay(c) = WsWay(ws)
  PROVE  WsGood(c)
<1>1. WsHeld(ws) /\ WsRecord(ws)
  BY DEF WsGood
<1>2. /\ DOMAIN c = WsFields /\ c.sent = ws.sent /\ c.state = ws.state
      /\ c.scenario = ws.scenario /\ c.session = ws.session
  BY DEF WsRest, WsFields
<1>3. WsHeld(c)
  BY <1>1, <1>2, Zenon DEF WsHeld
<1>4. c.sent \in Nat /\ c.state \in {"Unconnected", "Connected"} /\ c.link # "connecting"
  BY <1>1, <1>2 DEF WsRecord, WsGood, WsRest, WsFields
<1> QED
  BY <1>2, <1>3, <1>4, WsGoesOn

LEMMA WsUpdates ==
  ASSUME NEW r, DOMAIN r = WsFields, NEW name, NEW data
  PROVE  /\ WsRest(WsPost(r, name, data), r, {"events"})
         /\ WsPost(r, name, data).events = Append(r.events, [name |-> name, data |-> data])
         /\ WsRest(AddToPendingData(r, data), r, {"rx"})
         /\ AddToPendingData(r, data).rx = r.rx \o data
BY DEF WsRest, WsPost, AddToPendingData, WsFields

\* What WsHeld says of a connection, in short names for its stretches.
LEMMA WsStretches ==
  ASSUME WsGood(ws), ws.worker # "closed"
  PROVE  /\ WsHeld(ws) /\ DOMAIN ws = WsFields /\ ws.events \in Seq(WsEvents)
         /\ ws.got \in Seq(Nat) /\ ws.rx \in Seq(Nat)
         /\ WsBytes(ws.events, "addData") \in Seq(Nat)
         /\ WsBytes(ws.events, "newData") \in Seq(Nat)
         /\ ws.pending \in Seq(Nat) /\ ws.inbox \in Seq(Nat)
<1>1. WsHeld(ws) /\ DOMAIN ws = WsFields
  BY DEF WsGood, WsRecord
<1>2. /\ ws.events \in Seq(WsEvents) /\ ws.got \in Seq(Nat) /\ ws.rx \in Seq(Nat)
      /\ ws.pending \in Seq(Nat) /\ ws.inbox \in Seq(Nat)
  BY <1>1 DEF WsHeld
<1>3. [name |-> "notify", data |-> <<>>] \in WsEvents
  BY EmptySeq DEF WsEvents, WsNames
<1> QED
  BY <1>1, <1>2, <1>3, WsBytesAppend

LEMMA WsReadGood ==
  ASSUME WsGood(ws), WsRead
  PROVE  WsGood(ws')
<1> DEFINE c == [ws EXCEPT !.got = @ \o ws.rx, !.rx = <<>>]
           A == WsBytes(ws.events, "addData")
           N == WsBytes(ws.events, "newData")
<1>1. ws.state = "Connected" /\ ws' = c
  BY Zenon DEF WsRead
<1>2. ws.session # 0 /\ ws.worker # "closed" /\ ws.state # "Connecting"
  BY <1>1 DEF WsGood
<1>3. /\ WsHeld(ws) /\ DOMAIN ws = WsFields /\ ws.events \in Seq(WsEvents)
      /\ ws.got \in Seq(Nat) /\ ws.rx \in Seq(Nat) /\ A \in Seq(Nat) /\ N \in Seq(Nat)
      /\ ws.pending \in Seq(Nat) /\ ws.inbox \in Seq(Nat)
  BY <1>2, WsStretches
<1>4. WsRest(c, ws, {"got", "rx"}) /\ c.got = ws.got \o ws.rx /\ c.rx = <<>>
  BY <1>3 DEF WsRest, WsFields
<1> HIDE DEF c, A, N
<1>5. c.got \in Seq(Nat) /\ c.rx \in Seq(Nat)
  BY <1>3, <1>4, ConcatProperties, EmptySeq
<1>6. /\ c.events = ws.events /\ c.pending = ws.pending /\ c.inbox = ws.inbox
      /\ c.worker = ws.worker /\ WsRest(c, ws, {"got", "rx", "pending", "inbox", "events",
                                               "worker"})
  BY <1>4 DEF WsRest, WsFields
<1>7. WsJoin(ws.got \o ws.rx, <<>>, A, N, ws.pending, ws.inbox)
        = WsJoin(ws.got, ws.rx, A, N, ws.pending, ws.inbox)
  <2> DEFINE g == ws.got
             x == ws.rx
             p == ws.pending
             i == ws.inbox
  <2>1. /\ g \in Seq(Nat) /\ x \in Seq(Nat) /\ A \in Seq(Nat) /\ N \in Seq(Nat)
        /\ p \in Seq(Nat) /\ i \in Seq(Nat)
    BY <1>3
  <2> HIDE DEF g, x, p, i
  <2>2. WsJoin(g \o x, <<>>, A, N, p, i) = WsJoin(g, x, A, N, p, i)
    BY ONLY <2>1, WsMoveRead
  <2> QED
    BY <2>2, Zenon DEF g, x, p, i
<1>8. WsWay(c) = WsWay(ws)
  BY <1>4, <1>6, <1>7, Zenon DEF WsWay, A, N
<1>9. c.pending # <<>> => WsCalled(c.events)
  BY <1>3, <1>6 DEF WsHeld
<1>10. WsGood(c)
  BY <1>2, <1>3, <1>5, <1>6, <1>8, <1>9, WsMovedGood
<1> QED
  BY <1>1, <1>10

LEMMA WsCounts ==
  ASSUME NEW n \in Nat
  PROVE  [i \in 1..(n + 1) |-> i] = [i \in 1..n |-> i] \o <<n + 1>>
<1> DEFINE s == [i \in 1..n |-> i]
           t == [i \in 1..(n + 1) |-> i]
           u == Append(s, n + 1)
<1>1. s \in Seq(Nat) /\ Len(s) = n /\ t \in Seq(Nat) /\ Len(t) = n + 1
  OBVIOUS
<1>2. \A i \in 1..n : s[i] = i
  OBVIOUS
<1>3. \A i \in 1..(n + 1) : t[i] = i
  OBVIOUS
<1> HIDE DEF s, t
<1>4. u \in Seq(Nat) /\ Len(u) = n + 1 /\ u[n + 1] = n + 1 /\ \A i \in 1..n : u[i] = s[i]
  BY <1>1, AppendProperties
<1> HIDE DEF u
<1>5. \A i \in 1..(n + 1) : u[i] = t[i]
  BY <1>2, <1>3, <1>4
<1>6. u = t
  BY <1>1, <1>4, <1>5, SeqEqual
<1>7. u = s \o <<n + 1>>
  BY <1>1, AppendIsConcat DEF u
<1> QED
  BY <1>6, <1>7 DEF s, t

LEMMA WsPeerSendsGood ==
  ASSUME WsGood(ws), WsPeerSends
  PROVE  WsGood(ws')
<1> DEFINE n == ws.sent + 1
           d == <<n>>
           c == [ws EXCEPT !.sent = @ + 1, !.inbox = Append(@, n)]
           A == WsBytes(ws.events, "addData")
           N == WsBytes(ws.events, "newData")
<1>1. ws.link = "up" /\ ws' = c
  BY Zenon DEF WsPeerSends
<1>2. ws.session # 0 /\ ws.worker # "closed" /\ ws.state # "Connecting" /\ ws.sent \in Nat
      /\ ws.state \in {"Unconnected", "Connected"}
  BY <1>1 DEF WsGood, WsRecord
<1>3. /\ WsHeld(ws) /\ DOMAIN ws = WsFields /\ ws.events \in Seq(WsEvents)
      /\ ws.got \in Seq(Nat) /\ ws.rx \in Seq(Nat) /\ A \in Seq(Nat) /\ N \in Seq(Nat)
      /\ ws.pending \in Seq(Nat) /\ ws.inbox \in Seq(Nat)
  BY <1>2, WsStretches
<1>4. n \in Nat /\ d \in Seq(Nat)
  BY <1>2
<1>5. Append(ws.inbox, n) = ws.inbox \o d
  BY <1>3, <1>4, AppendIsConcat
<1>6. WsRest(c, ws, {"sent", "inbox"}) /\ c.sent = n /\ c.inbox = ws.inbox \o d
  BY <1>3, <1>5 DEF WsRest, WsFields
<1> HIDE DEF c, A, N, d
<1>7. c.inbox \in Seq(Nat)
  BY <1>3, <1>4, <1>6, ConcatProperties
<1>8. /\ DOMAIN c = WsFields /\ c.events = ws.events /\ c.pending = ws.pending
      /\ c.got = ws.got /\ c.rx = ws.rx /\ c.worker = ws.worker /\ c.state = ws.state
      /\ c.scenario = ws.scenario /\ c.session = ws.session /\ c.link = "up"
  BY <1>1, <1>6 DEF WsRest, WsFields
<1>9. WsJoin(ws.got, ws.rx, A, N, ws.pending, ws.inbox \o d)
        = WsJoin(ws.got, ws.rx, A, N, ws.pending, ws.inbox) \o d
  <2> DEFINE g == ws.got
             x == ws.rx
             p == ws.pending
             i == ws.inbox
  <2>1. /\ g \in Seq(Nat) /\ x \in Seq(Nat) /\ A \in Seq(Nat) /\ N \in Seq(Nat)
        /\ p \in Seq(Nat) /\ i \in Seq(Nat) /\ d \in Seq(Nat)
    BY <1>3, <1>4
  <2> HIDE DEF g, x, p, i
  <2>2. WsJoin(g, x, A, N, p, i \o d) = WsJoin(g, x, A, N, p, i) \o d
    BY ONLY <2>1, WsMoveArrive
  <2> QED
    BY <2>2, Zenon DEF g, x, p, i
<1>10. WsWay(c) = WsWay(ws) \o d
  BY <1>6, <1>8, <1>9, Zenon DEF WsWay, A, N
<1>11. [i \in 1..n |-> i] = [i \in 1..ws.sent |-> i] \o d
  BY <1>2, WsCounts DEF d
<1> HIDE DEF n
<1>12. ws.state = "Connected" => WsWay(c) = [i \in 1..c.sent |-> i]
  <2>1. ws.state = "Connected" => WsWay(ws) = [i \in 1..ws.sent |-> i]
    BY <1>3, Zenon DEF WsHeld
  <2> QED
    BY <1>6, <1>10, <1>11, <2>1, Zenon
<1>13. WsHeld(c)
  BY <1>3, <1>7, <1>8, <1>12, Zenon DEF WsHeld
<1>14. WsGood(c)
  BY <1>2, <1>4, <1>6, <1>8, <1>13, WsGoesOn
<1> QED
  BY <1>1, <1>14

LEMMA WsReadBytesGood ==
  ASSUME WsGood(ws), ws.worker = "reading", NEW n \in 1..Len(ws.inbox)
  PROVE  WsGood(ReadBytes(ws, n))
<1> DEFINE post == WsPost(ws, "notify", <<>>)
           a == IF ws.pending = <<>> THEN post ELSE ws
           d == SubSeq(ws.inbox, 1, n)
           i == SubSeq(a.inbox, n + 1, Len(a.inbox))
           c == [a EXCEPT !.pending = @ \o d, !.inbox = SubSeq(@, n + 1, Len(@))]
           A == WsBytes(ws.events, "addData")
           N == WsBytes(ws.events, "newData")
           x == [name |-> "notify", data |-> <<>>]
<1>1. ws.session # 0 /\ ws.worker # "closed" /\ ws.state # "Connecting"
  BY DEF WsGood, WsFresh
<1>2. /\ WsHeld(ws) /\ DOMAIN ws = WsFields /\ ws.events \in Seq(WsEvents)
      /\ ws.got \in Seq(Nat) /\ ws.rx \in Seq(Nat) /\ A \in Seq(Nat) /\ N \in Seq(Nat)
      /\ ws.pending \in Seq(Nat) /\ ws.inbox \in Seq(Nat)
  BY <1>1, WsStretches
<1>3. x \in WsEvents /\ x.name = "notify"
  BY EmptySeq DEF WsEvents, WsNames
<1>4. ReadBytes(ws, n) = c
  BY Zenon DEF ReadBytes
<1>5. WsRest(post, ws, {"events"}) /\ post.events = Append(ws.events, x)
  BY <1>2, WsUpdates
<1> HIDE DEF post, A, N, x
<1>6. /\ post.events \in Seq(WsEvents) /\ WsCalled(post.events)
      /\ WsBytes(post.events, "addData") = A /\ WsBytes(post.events, "newData") = N
  BY <1>2, <1>3, <1>5, WsPosts DEF A, N
<1>7. /\ WsRest(a, ws, {"events"}) /\ a.events \in Seq(WsEvents) /\ WsCalled(a.events)
      /\ WsBytes(a.events, "addData") = A /\ WsBytes(a.events, "newData") = N
  <2>1. WsRest(ws, ws, {"events"})
    BY <1>2 DEF WsRest
  <2>2. ws.pending # <<>> => WsCalled(ws.events)
    BY <1>2 DEF WsHeld
  <2> QED
    BY <1>2, <1>5, <1>6, <2>1, <2>2 DEF A, N
<1> HIDE DEF a
<1>8. /\ a.got = ws.got /\ a.rx = ws.rx /\ a.pending = ws.pending /\ a.inbox = ws.inbox
      /\ DOMAIN a = WsFields
  BY <1>7 DEF WsRest, WsFields
<1>9. n \in 0..Len(ws.inbox)
  BY <1>2, LenProperties
<1>10. d \in Seq(Nat) /\ i \in Seq(Nat) /\ d \o i = ws.inbox
  BY <1>2, <1>8, <1>9, PartsOf
<1>11. /\ WsRest(c, a, {"pending", "inbox"}) /\ c.pending = ws.pending \o d
       /\ c.inbox = i
  BY <1>8 DEF WsRest, WsFields
<1> HIDE DEF d, i, c
<1>12. c.pending \in Seq(Nat)
  BY <1>2, <1>10, <1>11, ConcatProperties
<1>13. /\ c.events = a.events /\ c.got = ws.got /\ c.rx = ws.rx
       /\ c.worker = ws.worker
       /\ WsRest(c, ws, {"got", "rx", "pending", "inbox", "events", "worker"})
  BY <1>7, <1>8, <1>11 DEF WsRest, WsFields
<1>14. WsJoin(ws.got, ws.rx, A, N, ws.pending \o d, i)
         = WsJoin(ws.got, ws.rx, A, N, ws.pending, d \o i)
  <2> DEFINE g == ws.got
             y == ws.rx
             p == ws.pending
  <2>1. /\ g \in Seq(Nat) /\ y \in Seq(Nat) /\ A \in Seq(Nat) /\ N \in Seq(Nat)
        /\ p \in Seq(Nat) /\ i \in Seq(Nat) /\ d \in Seq(Nat)
    BY <1>2, <1>10
  <2> HIDE DEF g, y, p
  <2>2. WsJoin(g, y, A, N, p \o d, i) = WsJoin(g, y, A, N, p, d \o i)
    BY ONLY <2>1, WsMoveTake
  <2> QED
    BY <2>2, Zenon DEF g, y, p
<1>15. WsWay(c) = WsWay(ws)
  BY <1>7, <1>10, <1>11, <1>13, <1>14, Zenon DEF WsWay, A, N
<1>16. WsGood(c)
  BY <1>1, <1>2, <1>7, <1>10, <1>11, <1>12, <1>13, <1>15, WsMovedGood
<1> QED
  BY <1>4, <1>16

LEMMA WsReadsGood ==
  ASSUME WsGood(ws), WsReads
  PROVE  WsGood(ws')
<1> DEFINE f == [ws EXCEPT !.worker = "failed"]
           x == [name |-> "error", data |-> <<>>]
           c == WsPost(f, "error", <<>>)
<1>1. /\ ws.worker = "reading"
      /\ (\E n \in 1..Len(ws.inbox) : ws' = ReadBytes(ws, n)) \/ ws' = c
  BY Zenon DEF WsReads, ReadEnds
<1>2. ws.session # 0 /\ ws.worker # "closed" /\ ws.state # "Connecting"
  BY <1>1 DEF WsGood, WsFresh
<1>3. /\ WsHeld(ws) /\ DOMAIN ws = WsFields /\ ws.events \in Seq(WsEvents)
      /\ ws.got \in Seq(Nat) /\ ws.rx \in Seq(Nat)
      /\ ws.pending \in Seq(Nat) /\ ws.inbox \in Seq(Nat)
  BY <1>2, WsStretches
<1>4. WsRest(f, ws, {"worker"}) /\ f.worker = "failed"
  BY <1>3 DEF WsRest, WsFields
<1> HIDE DEF f
<1>5. WsRest(c, f, {"events"}) /\ c.events = Append(f.events, x)
  <2>1. DOMAIN f = WsFields
    BY <1>4 DEF WsRest
  <2> QED
    BY <2>1, WsUpdates
<1>6. x \in WsEvents /\ x.name = "error"
  BY EmptySeq DEF WsEvents, WsNames
<1> HIDE DEF c, x
<1>7. /\ WsRest(c, ws, {"got", "rx", "pending", "inbox", "events", "worker"})
      /\ c.got = ws.got /\ c.rx = ws.rx /\ c.pending = ws.pending /\ c.inbox = ws.inbox
      /\ c.worker = "failed" /\ c.events = Append(ws.events, x)
  BY <1>4, <1>5 DEF WsRest, WsFields
<1>8. /\ c.events \in Seq(WsEvents)
      /\ WsCalled(ws.events) => WsCalled(c.events)
      /\ WsBytes(c.events, "addData") = WsBytes(ws.events, "addData")
      /\ WsBytes(c.events, "newData") = WsBytes(ws.events, "newData")
  BY <1>3, <1>6, <1>7, WsPosts
<1>9. c.pending # <<>> => WsCalled(c.events)
  BY <1>3, <1>7, <1>8 DEF WsHeld
<1>10. WsWay(c) = WsWay(ws)
  BY <1>7, <1>8, Zenon DEF WsWay
<1>11. WsGood(c)
  BY <1>2, <1>3, <1>7, <1>8, <1>9, <1>10, WsMovedGood
<1> QED
  BY <1>1, <1>11, WsReadBytesGood

\* The worker is closed: what its signals had posted still comes.
LEMMA WsLateEvent ==
  ASSUME WsGood(ws), WsEvent, ws.worker = "closed"
  PROVE  WsGood(ws')
<1> DEFINE h == Head(ws.events)
           q == [ws EXCEPT !.events = Tail(@)]
           k == [q EXCEPT !.pending = <<>>]
           n == WsPost(k, "newData", q.pending)
           m == WsPost(q, "addData", h.data)
           b == AddToPendingData(q, h.data)
           e == SetSocketError(q)
           f == SetSocketState(e, "Unconnected")
<1>1. ws' = n \/ ws' = m \/ ws' = b \/ ws' = f
  BY Zenon DEF WsEvent, WsHandler, NotifyAboutNewData, HandleError
<1>2. DOMAIN ws = WsFields /\ ws.state = "Unconnected" /\ ws.pending = <<>>
  BY DEF WsGood, WsRecord
<1>3. WsRest(q, ws, {"events"})
  BY <1>2 DEF WsRest, WsFields
<1> HIDE DEF h, q
<1>4. DOMAIN q = WsFields
  BY <1>3 DEF WsRest
<1>5. WsRest(k, q, {"pending"}) /\ k.pending = <<>> /\ DOMAIN k = WsFields
  BY <1>4 DEF WsRest, WsFields
<1>6. WsRest(e, q, {"errors"}) /\ DOMAIN e = WsFields
  BY <1>4, WsTold DEF WsRest
<1> HIDE DEF k, e
<1>7. WsRest(n, k, {"events"})
  BY <1>5, WsUpdates
<1>8. WsRest(m, q, {"events"}) /\ WsRest(b, q, {"rx"})
  BY <1>4, WsUpdates
<1>9. WsRest(f, e, {"state", "told"}) /\ f.state = "Unconnected"
  BY <1>6, WsTold
<1> HIDE DEF n, m, b, f
<1> DEFINE D == {"events", "rx", "errors", "told", "pending", "state"}
<1>10. /\ WsRest(n, ws, D) /\ n.pending = <<>> /\ n.state = "Unconnected"
       /\ WsRest(m, ws, D) /\ m.pending = <<>> /\ m.state = "Unconnected"
       /\ WsRest(b, ws, D) /\ b.pending = <<>> /\ b.state = "Unconnected"
       /\ WsRest(f, ws, D) /\ f.pending = <<>> /\ f.state = "Unconnected"
  BY <1>2, <1>3, <1>5, <1>6, <1>7, <1>8, <1>9 DEF WsRest, WsFields
<1>11. WsRest(ws', ws, D) /\ ws'.pending = <<>> /\ ws'.state = "Unconnected"
  BY <1>1, <1>10
<1>12. /\ DOMAIN ws' = WsFields /\ ws'.scenario = ws.scenario
       /\ ws'.session = ws.session /\ ws'.sent = ws.sent /\ ws'.worker = ws.worker
       /\ ws'.link = ws.link
  BY <1>11 DEF WsRest, WsFields
<1> QED
  BY <1>11, <1>12, WsStaysClosed

\* handleError(): the bytes that wait stay, for a socket that is not connected.
LEMMA WsErrorHeld ==
  ASSUME WsGood(ws), ws.session # 0, ws.worker # "closed", ws.state # "Connecting",
         ws.events # <<>>, Head(ws.events).name = "error"
  PROVE  WsGood(HandleError([ws EXCEPT !.events = Tail(@)]))
<1> DEFINE q == [ws EXCEPT !.events = Tail(@)]
           e == SetSocketError(q)
           f == SetSocketState(e, "Unconnected")
<1>1. /\ WsHeld(ws) /\ DOMAIN ws = WsFields /\ ws.events \in Seq(WsEvents)
      /\ ws.got \in Seq(Nat) /\ ws.rx \in Seq(Nat)
      /\ ws.pending \in Seq(Nat) /\ ws.inbox \in Seq(Nat)
  BY WsStretches
<1>2. /\ Tail(ws.events) \in Seq(WsEvents)
      /\ WsCalled(ws.events) => WsCalled(Tail(ws.events))
  BY <1>1, WsTakes
<1>3. HandleError(q) = f
  BY Zenon DEF HandleError
<1>4. WsRest(q, ws, {"events"}) /\ q.events = Tail(ws.events)
  BY <1>1 DEF WsRest, WsFields
<1> HIDE DEF q
<1>5. WsRest(e, q, {"errors"}) /\ DOMAIN e = WsFields
  <2>1. DOMAIN q = WsFields
    BY <1>4 DEF WsRest
  <2> QED
    BY <2>1, WsTold DEF WsRest
<1> HIDE DEF e
<1>6. WsRest(f, e, {"state", "told"}) /\ f.state = "Unconnected"
  BY <1>5, WsTold
<1> HIDE DEF f
<1>7. /\ DOMAIN f = WsFields /\ f.scenario = ws.scenario /\ f.session = ws.session
      /\ f.worker = ws.worker /\ f.sent = ws.sent /\ f.events = Tail(ws.events)
      /\ f.got = ws.got /\ f.rx = ws.rx /\ f.pending = ws.pending /\ f.inbox = ws.inbox
      /\ f.link = ws.link
  BY <1>4, <1>5, <1>6 DEF WsRest, WsFields
<1>8. f.pending # <<>> => WsCalled(f.events)
  BY <1>1, <1>2, <1>7 DEF WsHeld
<1>9. WsHeld(f)
  BY <1>1, <1>2, <1>6, <1>7, <1>8 DEF WsHeld
<1>10. f.sent \in Nat /\ f.link # "connecting"
  BY <1>7 DEF WsGood, WsRecord
<1>11. WsGood(f)
  BY <1>6, <1>7, <1>9, <1>10, WsGoesOn
<1> QED
  BY <1>3, <1>11 DEF q

LEMMA WsNotifyGood ==
  ASSUME WsGood(ws), ws.session # 0, ws.worker # "closed", ws.state # "Connecting",
         ws.events # <<>>, Head(ws.events).name = "notify"
  PROVE  WsGood(NotifyAboutNewData([ws EXCEPT !.events = Tail(@)]))
<1> DEFINE q == [ws EXCEPT !.events = Tail(@)]
           k == [q EXCEPT !.pending = <<>>]
           c == WsPost(k, "newData", q.pending)
           x == [name |-> "newData", data |-> ws.pending]
           A == WsBytes(ws.events, "addData")
           N == WsBytes(ws.events, "newData")
           t == Tail(ws.events)
<1>1. /\ WsHeld(ws) /\ DOMAIN ws = WsFields /\ ws.events \in Seq(WsEvents)
      /\ ws.got \in Seq(Nat) /\ ws.rx \in Seq(Nat) /\ A \in Seq(Nat) /\ N \in Seq(Nat)
      /\ ws.pending \in Seq(Nat) /\ ws.inbox \in Seq(Nat)
  BY WsStretches
<1>2. NotifyAboutNewData(q) = c
  BY Zenon DEF NotifyAboutNewData
<1>3. t \in Seq(WsEvents) /\ WsBytes(t, "addData") = A /\ WsBytes(t, "newData") = N
  BY <1>1, WsTakes
<1>4. x \in WsEvents /\ x.name = "newData" /\ x.data = ws.pending
  BY <1>1 DEF WsEvents, WsNames
<1>5. WsRest(q, ws, {"events"}) /\ q.events = t /\ q.pending = ws.pending
  BY <1>1 DEF WsRest, WsFields
<1> HIDE DEF q, A, N, t
<1>6. WsRest(k, q, {"pending"}) /\ k.pending = <<>> /\ DOMAIN k = WsFields
      /\ k.events = t
  BY <1>5 DEF WsRest, WsFields
<1> HIDE DEF k
<1>7. WsRest(c, k, {"events"}) /\ c.events = Append(t, x)
  BY <1>5, <1>6, WsUpdates
<1> HIDE DEF c, x
<1>8. /\ WsRest(c, ws, {"got", "rx", "pending", "inbox", "events", "worker"})
      /\ c.got = ws.got /\ c.rx = ws.rx /\ c.inbox = ws.inbox
      /\ c.worker = ws.worker /\ c.pending = <<>>
  BY <1>5, <1>6, <1>7 DEF WsRest, WsFields
<1>9. /\ c.events \in Seq(WsEvents)
      /\ WsBytes(c.events, "addData") = A
      /\ WsBytes(c.events, "newData") = N \o ws.pending
  <2>1. WsData(x, "newData") = ws.pending
    BY <1>4 DEF WsData
  <2> QED
    BY <1>3, <1>4, <1>7, <2>1, WsPosts
<1>10. WsJoin(ws.got, ws.rx, A, N \o ws.pending, <<>>, ws.inbox)
         = WsJoin(ws.got, ws.rx, A, N, ws.pending, ws.inbox)
  <2> DEFINE g == ws.got
             y == ws.rx
             p == ws.pending
             i == ws.inbox
  <2>1. /\ g \in Seq(Nat) /\ y \in Seq(Nat) /\ A \in Seq(Nat) /\ N \in Seq(Nat)
        /\ p \in Seq(Nat) /\ i \in Seq(Nat)
    BY <1>1
  <2> HIDE DEF g, y, p, i
  <2>2. WsJoin(g, y, A, N \o p, <<>>, i) = WsJoin(g, y, A, N, p, i)
    BY ONLY <2>1, WsMoveNotify
  <2> QED
    BY <2>2, Zenon DEF g, y, p, i
<1>11. WsWay(c) = WsWay(ws)
  BY <1>8, <1>9, <1>10, Zenon DEF WsWay, A, N
<1>12. c.pending \in Seq(Nat)
  BY <1>8, EmptySeq
<1>13. WsGood(c)
  BY <1>1, <1>8, <1>9, <1>11, <1>12, WsMovedGood
<1> QED
  BY <1>2, <1>13 DEF q

LEMMA WsNewDataGood ==
  ASSUME WsGood(ws), ws.session # 0, ws.worker # "closed", ws.state # "Connecting",
         ws.events # <<>>, Head(ws.events).name = "newData"
  PROVE  WsGood(WsPost([ws EXCEPT !.events = Tail(@)], "addData", Head(ws.events).data))
<1> DEFINE q == [ws EXCEPT !.events = Tail(@)]
           h == Head(ws.events)
           d == h.data
           c == WsPost(q, "addData", d)
           x == [name |-> "addData", data |-> d]
           A == WsBytes(ws.events, "addData")
           M == WsBytes(Tail(ws.events), "newData")
           t == Tail(ws.events)
<1>1. /\ WsHeld(ws) /\ DOMAIN ws = WsFields /\ ws.events \in Seq(WsEvents)
      /\ ws.got \in Seq(Nat) /\ ws.rx \in Seq(Nat) /\ A \in Seq(Nat)
      /\ ws.pending \in Seq(Nat) /\ ws.inbox \in Seq(Nat)
  BY WsStretches
<1>2. /\ t \in Seq(WsEvents) /\ WsBytes(t, "addData") = A /\ M \in Seq(Nat)
      /\ h \in WsEvents
      /\ WsCalled(ws.events) => WsCalled(t)
      /\ WsBytes(ws.events, "newData") = WsData(h, "newData") \o M
  BY <1>1, WsTakes
<1>3. d \in Seq(Nat) /\ WsData(h, "newData") = d
  <2>1. h.name = "newData"
    OBVIOUS
  <2> HIDE DEF h, M
  <2> QED
    BY <1>2, <2>1 DEF WsEvents, WsData
<1>4. x \in WsEvents /\ x.name = "addData" /\ x.data = d
  BY <1>3 DEF WsEvents, WsNames
<1>5. WsRest(q, ws, {"events"}) /\ q.events = t /\ DOMAIN q = WsFields
  BY <1>1 DEF WsRest, WsFields
<1> HIDE DEF q, h, t
<1>6. WsRest(c, q, {"events"}) /\ c.events = Append(t, x)
  <2> HIDE DEF d
  <2> QED
    BY <1>5, WsUpdates
<1>7. c.events \in Seq(WsEvents) /\ (WsCalled(t) => WsCalled(c.events))
      /\ WsBytes(c.events, "addData") = A \o d /\ WsBytes(c.events, "newData") = M
  <2>1. WsData(x, "addData") = d
    BY <1>4 DEF WsData
  <2> HIDE DEF x, t, c, A, M, d
  <2>2. t \in Seq(WsEvents) /\ x \in WsEvents
    BY <1>2, <1>4
  <2>3. /\ Append(t, x) \in Seq(WsEvents) /\ (WsCalled(t) => WsCalled(Append(t, x)))
        /\ WsBytes(Append(t, x), "addData") = WsBytes(t, "addData") \o WsData(x, "addData")
        /\ x.name # "newData" =>
             WsBytes(Append(t, x), "newData") = WsBytes(t, "newData")
    BY ONLY <2>2, WsPosts
  <2> QED
    BY <1>2, <1>4, <1>6, <2>1, <2>3 DEF M, t
<1> HIDE DEF c, d, x, A, M
<1>8. /\ WsRest(c, ws, {"got", "rx", "pending", "inbox", "events", "worker"})
      /\ c.got = ws.got /\ c.rx = ws.rx /\ c.inbox = ws.inbox
      /\ c.worker = ws.worker /\ c.pending = ws.pending
  BY <1>5, <1>6 DEF WsRest, WsFields
<1>9. WsJoin(ws.got, ws.rx, A \o d, M, ws.pending, ws.inbox)
        = WsJoin(ws.got, ws.rx, A, d \o M, ws.pending, ws.inbox)
  <2> DEFINE g == ws.got
             y == ws.rx
             p == ws.pending
             i == ws.inbox
  <2>1. /\ g \in Seq(Nat) /\ y \in Seq(Nat) /\ A \in Seq(Nat) /\ M \in Seq(Nat)
        /\ p \in Seq(Nat) /\ i \in Seq(Nat) /\ d \in Seq(Nat)
    BY <1>1, <1>2, <1>3
  <2> HIDE DEF g, y, p, i
  <2>2. WsJoin(g, y, A \o d, M, p, i) = WsJoin(g, y, A, d \o M, p, i)
    BY ONLY <2>1, WsMovePost
  <2> QED
    BY <2>2, Zenon DEF g, y, p, i
<1>10. WsBytes(ws.events, "newData") = d \o M
  BY <1>2, <1>3
<1>11. WsWay(c) = WsWay(ws)
  BY <1>7, <1>8, <1>9, <1>10, Zenon DEF WsWay, A
<1>12. c.pending # <<>> => WsCalled(c.events)
  BY <1>1, <1>2, <1>7, <1>8 DEF WsHeld
<1>13. WsGood(c)
  BY <1>1, <1>7, <1>8, <1>11, <1>12, WsMovedGood
<1> QED
  BY <1>13 DEF c, q, d, h

LEMMA WsAddDataGood ==
  ASSUME WsGood(ws), ws.session # 0, ws.worker # "closed", ws.state # "Connecting",
         ws.events # <<>>, Head(ws.events).name = "addData"
  PROVE  WsGood(AddToPendingData([ws EXCEPT !.events = Tail(@)], Head(ws.events).data))
<1> DEFINE q == [ws EXCEPT !.events = Tail(@)]
           h == Head(ws.events)
           d == h.data
           c == AddToPendingData(q, d)
           B == WsBytes(Tail(ws.events), "addData")
           N == WsBytes(ws.events, "newData")
           t == Tail(ws.events)
<1>1. /\ WsHeld(ws) /\ DOMAIN ws = WsFields /\ ws.events \in Seq(WsEvents)
      /\ ws.got \in Seq(Nat) /\ ws.rx \in Seq(Nat) /\ N \in Seq(Nat)
      /\ ws.pending \in Seq(Nat) /\ ws.inbox \in Seq(Nat)
  BY WsStretches
<1>2. /\ t \in Seq(WsEvents) /\ WsBytes(t, "newData") = N /\ B \in Seq(Nat)
      /\ h \in WsEvents
      /\ WsCalled(ws.events) => WsCalled(t)
      /\ WsBytes(ws.events, "addData") = WsData(h, "addData") \o B
  BY <1>1, WsTakes
<1>3. d \in Seq(Nat) /\ WsData(h, "addData") = d
  <2>1. h.name = "addData"
    OBVIOUS
  <2> HIDE DEF h, B
  <2> QED
    BY <1>2, <2>1 DEF WsEvents, WsData
<1>4. WsRest(q, ws, {"events"}) /\ q.events = t /\ q.rx = ws.rx /\ DOMAIN q = WsFields
  BY <1>1 DEF WsRest, WsFields
<1> HIDE DEF q, h, t
<1>5. WsRest(c, q, {"rx"}) /\ c.rx = ws.rx \o d
  <2> HIDE DEF d
  <2> QED
    BY <1>4, WsUpdates
<1> HIDE DEF c, d, B, N
<1>6. /\ WsRest(c, ws, {"got", "rx", "pending", "inbox", "events", "worker"})
      /\ c.got = ws.got /\ c.events = t /\ c.inbox = ws.inbox
      /\ c.worker = ws.worker /\ c.pending = ws.pending
  BY <1>4, <1>5 DEF WsRest, WsFields
<1>7. WsJoin(ws.got, ws.rx \o d, B, N, ws.pending, ws.inbox)
        = WsJoin(ws.got, ws.rx, d \o B, N, ws.pending, ws.inbox)
  <2> DEFINE g == ws.got
             y == ws.rx
             p == ws.pending
             i == ws.inbox
  <2>1. /\ g \in Seq(Nat) /\ y \in Seq(Nat) /\ B \in Seq(Nat) /\ N \in Seq(Nat)
        /\ p \in Seq(Nat) /\ i \in Seq(Nat) /\ d \in Seq(Nat)
    BY <1>1, <1>2, <1>3
  <2> HIDE DEF g, y, p, i
  <2>2. WsJoin(g, y \o d, B, N, p, i) = WsJoin(g, y, d \o B, N, p, i)
    BY ONLY <2>1, WsMoveAdd
  <2> QED
    BY <2>2, Zenon DEF g, y, p, i
<1>8. WsBytes(ws.events, "addData") = d \o B /\ WsBytes(t, "addData") = B
  BY <1>2, <1>3 DEF B, t
<1>9. WsWay(c) = WsWay(ws)
  BY <1>2, <1>5, <1>6, <1>7, <1>8, Zenon DEF WsWay, N
<1>10. c.rx \in Seq(Nat)
  BY <1>1, <1>3, <1>5, ConcatProperties
<1>11. c.pending # <<>> => WsCalled(c.events)
  BY <1>1, <1>2, <1>6 DEF WsHeld
<1>12. WsGood(c)
  BY <1>1, <1>2, <1>6, <1>9, <1>10, <1>11, WsMovedGood
<1> QED
  BY <1>12 DEF c, q, d, h

LEMMA WsEventGood ==
  ASSUME WsGood(ws), WsEvent
  PROVE  WsGood(ws')
<1>1. CASE ws.worker = "closed"
  BY <1>1, WsLateEvent
<1>2. CASE ws.worker # "closed"
  <2> DEFINE q == [ws EXCEPT !.events = Tail(@)]
             h == Head(ws.events)
  <2>1. ws.events # <<>> /\ ws' = WsHandler(q, h)
    BY Zenon DEF WsEvent
  <2>2. ws.session # 0 /\ ws.state # "Connecting"
    BY <2>1 DEF WsGood, WsFresh
  <2>3. ws.events \in Seq(WsEvents)
    BY <1>2, WsStretches
  <2>4. h \in WsEvents
    BY <2>1, <2>3, WsTakes
  <2>5. h.name \in WsNames
    <3> HIDE DEF h
    <3> QED
      BY <2>4 DEF WsEvents
  <2>6. \/ h.name = "notify" /\ ws' = NotifyAboutNewData(q)
        \/ h.name = "newData" /\ ws' = WsPost(q, "addData", h.data)
        \/ h.name = "addData" /\ ws' = AddToPendingData(q, h.data)
        \/ h.name = "error" /\ ws' = HandleError(q)
    <3> HIDE DEF h, q
    <3> QED
      BY <2>1, <2>5 DEF WsHandler, WsNames
  <2> QED
    BY <1>2, <2>1, <2>2, <2>6, WsNotifyGood, WsNewDataGood, WsAddDataGood, WsErrorHeld
<1> QED
  BY <1>1, <1>2

LEMMA WsNextGood ==
  ASSUME WsConnectsOnce, WsGood(ws), [WsNext]_ws
  PROVE  WsGood(ws')
<1>1. CASE UNCHANGED ws
  BY <1>1
<1> QED
  BY <1>1, WsBegins, WsClosesGood, WsWriteGood, WsReadGood, WsEventGood,
     WsConnectEndsGood, WsReadsGood, WsPeerSendsGood DEF WsNext

LEMMA WsPromise ==
  ASSUME WsGood(ws)
  PROVE  WsConserved /\ WsAnnounced
<1>1. CASE ws.worker = "closed"
  BY <1>1 DEF WsGood, WsConserved, WsAnnounced
<1>2. CASE ws.worker # "closed"
  <2>1. WsHeld(ws)
    BY <1>2 DEF WsGood
  <2>2. WsAnnounced
    BY <2>1, Zenon DEF WsHeld, WsCalled, WsAnnounced
  <2>3. Posted("addData") = WsBytes(ws.events, "addData")
        /\ Posted("newData") = WsBytes(ws.events, "newData")
    BY Zenon DEF Posted, WsBytes, WsData
  <2>4. WsConserved
    BY <2>1, <2>3, Zenon DEF WsConserved, WsHeld, WsWay, WsJoin
  <2> QED
    BY <2>2, <2>4
<1> QED
  BY <1>1, <1>2

-------------------------------------------------------------------------------
(* The theorems *)

LEMMA SocketsStep ==
  ASSUME [BackendsNext]_AllVars
  PROVE  /\ [BsNext]_bz /\ [DsNext]_ds /\ [AsNext]_as /\ [WsNext]_ws /\ [MoNext]_mo
         /\ [BcNext]_bc
<1>1. CASE UNCHANGED AllVars
  BY <1>1 DEF AllVars, Classic, LowEnergy
<1>2. UNCHANGED Classic => UNCHANGED <<bz, ds, as, ws, mo>>
  BY DEF Classic
<1>3. UNCHANGED LowEnergy => UNCHANGED bc
  BY DEF LowEnergy
<1>4. CASE BackendsNext
  BY <1>2, <1>3, <1>4 DEF BackendsNext
<1> QED
  BY <1>1, <1>4

\* On the kernel's sockets, what a peer sends is handed out in its order and nothing
\* of the first connection is lost before the application has it; what was written
\* goes out in its order, none of it missing or doubled unless an error was told
\* (BsStreams); what waits in txBuffer has a notifier or a queued call that will come
\* for it (BsWriteCarried); and a socket that says it is connected has a connection
\* (BsConnectedIsUp).
THEOREM BytesStayInOrder ==
  ASSUME QueuedWritesRun
  PROVE  BackendsSpec => [](BsStreams /\ BsWriteCarried /\ BsConnectedIsUp)
<1>1. BackendsInit => BsAll
  BY BsInitInv, BsInitWhole DEF BackendsInit, BsAll, BsInv
<1>2. BsAll /\ [BackendsNext]_AllVars => BsAll'
  BY SocketsStep, BsNextWhole
<1>3. BsAll => BsStreams /\ BsWriteCarried /\ BsConnectedIsUp
  BY BsBytesPromise
<1> QED
  BY <1>1, <1>2, <1>3, PTL DEF BackendsSpec, AllVars

\* On Android, whatever the order in which the workers, the reading threads and the
\* event loop come: only the newest Java socket is read, and only for a socket that
\* is connected or closing (AsReaderIsOwn); a connected socket has that one, whose
\* thread reads or has its end still to be told (AsConnectedIsOwn); and the bytes
\* arrive in order (AsStreams).
THEOREM ReadersAreOwn ==
  BackendsSpec => [](AsReaderIsOwn /\ AsConnectedIsOwn /\ AsStreams)
<1>1. BackendsInit => AsAll
  BY AsInitHolds DEF BackendsInit
<1>2. AsAll /\ [BackendsNext]_AllVars => AsAll'
  BY SocketsStep, AsNextHolds
<1>3. AsAll => AsReaderIsOwn /\ AsConnectedIsOwn /\ AsStreams
  BY AsPromise
<1> QED
  BY <1>1, <1>2, <1>3, PTL DEF BackendsSpec, AllVars

\* A connected socket is connected to what it asked for last, on every platform, and
\* nothing of an earlier connection reads for it; a Low Energy central has one socket,
\* its own, and the links in its way are ended one by one (ConnectedIsOwn).
THEOREM ConnectionsAreOwn ==
  ASSUME QueuedWritesRun, LooksUpOnce
  PROVE  BackendsSpec => []ConnectedIsOwn
<1> DEFINE All == BsAll /\ DsTied(ds) /\ AsAll /\ MoLinked(mo) /\ BcGood(bc)
<1>1. BackendsInit => All
  BY BsInitInv, BsInitWhole, DsInitTied, AsInitHolds, MoInitLinked, BcInitGood
     DEF BackendsInit, BsAll, BsInv
<1>2. All /\ [BackendsNext]_AllVars => All'
  <2>1. SUFFICES ASSUME All, [BackendsNext]_AllVars PROVE All'
    OBVIOUS
  <2>2. [BsNext]_bz /\ [DsNext]_ds /\ [AsNext]_as /\ [MoNext]_mo /\ [BcNext]_bc
    BY <2>1, SocketsStep
  <2>3. BsAll'
    BY <2>1, <2>2, BsNextWhole
  <2>4. DsTied(ds')
    BY <2>1, <2>2, DsNextTied
  <2>5. AsAll'
    BY <2>1, <2>2, AsNextHolds
  <2>6. MoLinked(mo')
    BY <2>1, <2>2, MoNextLinked
  <2>7. BcGood(bc')
    BY <2>1, <2>2, BcNextGood
  <2> QED
    BY <2>3, <2>4, <2>5, <2>6, <2>7
<1>3. All => ConnectedIsOwn
  BY BsBytesPromise, DsSocketPromise, AsPromise, MoOpenPromise, BcPromise
     DEF ConnectedIsOwn
<1> QED
  BY <1>1, <1>2, <1>3, PTL DEF BackendsSpec, AllVars

\* On every platform what the peer sends reaches the application in order, none of it
\* twice, and what is written goes out so, however the event loop, the workers and the
\* pool interleave; what waits to be read or written has a call, an event or a notifier
\* that will come for it; and while a socket of Windows is connected nothing it was
\* sent is missing on the way (Streams).
THEOREM StreamsFlow ==
  ASSUME QueuedWritesRun, LooksUpOnce, WsConnectsOnce
  PROVE  BackendsSpec => []Streams
<1> DEFINE All == BsAll /\ AsAll /\ MoLinked(mo) /\ MoCarried(mo) /\ WsGood(ws)
<1>1. BackendsInit => All
  BY BsInitInv, BsInitWhole, AsInitHolds, MoInitLinked, MoInitCarried, WsInitGood
     DEF BackendsInit, BsAll, BsInv
<1>2. All /\ [BackendsNext]_AllVars => All'
  <2>1. SUFFICES ASSUME All, [BackendsNext]_AllVars PROVE All'
    OBVIOUS
  <2>2. [BsNext]_bz /\ [AsNext]_as /\ [MoNext]_mo /\ [WsNext]_ws
    BY <2>1, SocketsStep
  <2>3. BsAll'
    BY <2>1, <2>2, BsNextWhole
  <2>4. AsAll'
    BY <2>1, <2>2, AsNextHolds
  <2>5. MoLinked(mo')
    BY <2>1, <2>2, MoNextLinked
  <2>6. MoCarried(mo')
    BY <2>1, <2>2, MoNextCarried
  <2>7. WsGood(ws')
    BY <2>1, <2>2, WsNextGood
  <2> QED
    BY <2>3, <2>4, <2>5, <2>6, <2>7
<1>3. All => Streams
  BY BsBytesPromise, AsPromise, MoBytesPromise, WsPromise DEF Streams
<1> QED
  BY <1>1, <1>2, <1>3, PTL DEF BackendsSpec, AllVars

=============================================================================
