--------------------------- MODULE AttributeAccess ---------------------------
(***************************************************************************)
(* What QLowEnergyService promises of readCharacteristic(),                *)
(* writeCharacteristic() and their descriptor counterparts                 *)
(* (src/src/bluetooth/qlowenergyservice.cpp): every call is answered at    *)
(* most once, by its own signal or error; a write takes effect as a whole  *)
(* or not at all, in one step between the call and its answer, and the     *)
(* answer says which.  No request, packet or chunk is visible here.        *)
(***************************************************************************)
EXTENDS Integers, Sequences

CONSTANTS Handles, MaxCalls, MaxChunks

VARIABLES
  calls,    \* the calls of the application and their outcome
  content   \* the call that wrote each part of each attribute

vars == <<calls, content>>

Init ==
  /\ calls = <<>>
  /\ content = [a \in Handles |-> [k \in 1..MaxChunks |-> 0]]

Call ==
  /\ Len(calls) < MaxCalls
  /\ \E kind \in {"read", "write"}, a \in Handles, size \in 1..MaxChunks :
       calls' = Append(calls, [kind |-> kind, target |-> a, size |-> size,
                               result |-> "open"])
  /\ UNCHANGED content

Open(i) == i \in DOMAIN calls /\ calls[i].result = "open"
Holds(i) == \A k \in 1..calls[i].size : content[calls[i].target][k] = i
NoTrace(i) == \A a \in Handles, k \in 1..MaxChunks : content[a][k] # i

\* A write that was dropped with its session may have left the host before.
Commit(i) ==
  /\ i \in DOMAIN calls
  /\ calls[i].kind = "write" /\ calls[i].result \in {"open", "dropped"}
  /\ content' = [content EXCEPT ![calls[i].target] =
                   [k \in 1..MaxChunks |-> IF k <= calls[i].size THEN i ELSE @[k]]]
  /\ UNCHANGED calls

Confirm(i) ==
  /\ Open(i)
  /\ calls[i].kind = "write" => Holds(i)
  /\ calls' = [calls EXCEPT ![i].result = "ok"]
  /\ UNCHANGED content

Refuse(i) ==
  /\ Open(i)
  /\ NoTrace(i)
  /\ calls' = [calls EXCEPT ![i].result = "error"]
  /\ UNCHANGED content

\* The session ends: no open call is answered any more.
EndSession ==
  /\ calls' = [i \in DOMAIN calls |->
                 IF Open(i) THEN [calls[i] EXCEPT !.result = "dropped"]
                            ELSE calls[i]]
  /\ UNCHANGED content

Next ==
  \/ Call \/ EndSession
  \/ \E i \in 1..MaxCalls : Commit(i) \/ Confirm(i) \/ Refuse(i)

Spec == Init /\ [][Next]_vars

=============================================================================
