----------------------------- MODULE AttServerMC -----------------------------
(* AttServer with one characteristic, or with two of which the first notifies *)
(* and both indicate; values of one byte, configurations of two.             *)
EXTENDS AttServer, TLC

OneChar == {3}
OneConfig == 3 :> 4
TwoChars == {3, 6}
TwoConfig == 3 :> 4 @@ 6 :> 7
OnlyFirst == {3}
OneInitial == 3 :> <<1>>
TwoInitial == 3 :> <<1>> @@ 6 :> <<1>>

OneByte == {<<1>>, <<2>>}
TwoTwos == {<<2, 2>>}
JustOne == {<<1>>}
Nothing == {}
NoConfigs == {<<0, 0>>}
WholeConfigs == {<<0, 0>>, <<1, 0>>, <<2, 0>>}
IndicateOnly == {<<0, 0>>, <<2, 0>>}
HalfConfigs == {<<0>>, <<2>>}

=============================================================================
