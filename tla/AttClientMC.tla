----------------------------- MODULE AttClientMC -----------------------------
(* AttClient on small peers: one service with a readable characteristic and  *)
(* its descriptor; two services, one of them secondary, the other with two   *)
(* characteristics whose values are read in either order.                    *)
EXTENDS AttClient, TLC

CONSTANTS s1, s2

OneService == {s1}
NoServices == {}
OneCharsOf == s1 :> {1}
OneDescsOf == 1 :> {2}
OneReadable == {1}

TwoServices == {s1, s2}
TwoSecondary == {s2}
TwoCharsOf == s1 :> {1, 4} @@ s2 :> {6}
TwoDescsOf == 1 :> {2, 3} @@ 4 :> {} @@ 6 :> {}
TwoReadable == {1, 4}

=============================================================================
