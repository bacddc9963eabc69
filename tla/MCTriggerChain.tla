---------------------------- MODULE MCTriggerChain ----------------------------
(* TriggerChain with the values that TLC needs: expressions, signals and frames.   *)
EXTENDS TriggerChain

MinusThree == -3

(* Tokens, as LogicExpression makes them.                                   *)
Op(c)  == [kind |-> c, id |-> -1]
Sig(n) == [kind |-> "signal", id |-> n]

Tokens == {Sig(0), Sig(1), Sig(NsigMax - 1), Sig(NsigMax)} \cup {Op(c) : c \in {"&", "|", "!", "(", ")"}}

(* Expressions in which the precedence and the parentheses matter.                *)
Longer == {
  <<Sig(0), Op("|"), Sig(1), Op("&"), Op("!"), Sig(0)>>,
  <<Op("("), Sig(0), Op("|"), Sig(1), Op(")"), Op("&"), Op("!"), Sig(0)>>,
  <<Op("!"), Sig(0), Op("&"), Sig(1), Op("|"), Sig(0)>>,
  <<Op("!"), Op("("), Sig(0), Op("&"), Sig(1), Op(")"), Op("|"), Sig(1)>>,
  <<Op("("), Op("!"), Sig(1), Op(")"), Op("&"), Sig(0), Op("&"), Sig(0)>>}

ReversePolish == {
  <<Op("RPN"), Sig(0), Sig(1), Op("&")>>,
  <<Op("RPN"), Sig(0), Sig(1), Op("x"), Op("d"), Op("!")>>,
  <<Op("RPN"), Op("("), Op("!")>>}

Both == <<Sig(0), Op("&"), Sig(1)>>

SmallStarted == {[expression |-> Both, suppress |-> FALSE]}

SmallConfigurations ==
  SmallStarted \cup
  [expression : UNION {[1 .. n -> Tokens] : n \in 0 .. 4} \cup Longer \cup ReversePolish, suppress : {FALSE}]

SuppressConfigurations == {[expression |-> Both, suppress |-> TRUE]}

(* Module 1 has signal 0, with a negative delay, module 2 signal 1, with a positive  *)
(* one; the expression leaves out signal 2.                                     *)
SmallSignals == <<[fem |-> 1, ch |-> 0, delay |-> -1], [fem |-> 2, ch |-> 0, delay |-> 1],
                  [fem |-> 1, ch |-> 1, delay |-> 0]>>

Hit(t) == [hit |-> TRUE, ch |-> 0, t |-> t]
Veto(t) == [hit |-> TRUE, ch |-> 1, t |-> t]     (* of the third signal         *)
Spill  == [hit |-> FALSE, ch |-> 0, t |-> -1]
Edge(t) == [hit |-> FALSE, ch |-> 0, t |-> t]   (* a trailing edge                *)

HitSets(times, n) == {{Hit(t) : t \in S} : S \in UNION {kSubset(k, times) : k \in 0 .. n}}

STF(fem, hbfs) == [fem |-> fem, numMessages |-> Len(hbfs), hbfs |-> hbfs]
Frame(stfs)    == [numSource |-> 2, lists |-> <<>>, stfs |-> stfs]

OneHBF ==
  {Frame(<<STF(1, <<A>>), STF(2, <<B>>)>>) :
     A \in HitSets({3, 6, 10}, 2) \ HitSets({3, 10}, 1), B \in HitSets({1, 4, 8}, 2)}
   \cup {Frame(<<STF(2, <<B>>), STF(1, <<{Hit(6), Edge(7), Hit(10)}>>)>>) : B \in HitSets({4, 8}, 2)}
   \cup {Frame(<<STF(1, <<{Hit(6), Edge(7), Hit(11)}>>), STF(2, <<{Hit(4), Hit(9)}>>)>>),
         Frame(<<STF(1, <<{Hit(6), Spill}>>), STF(2, <<{Hit(4), Hit(8)}>>)>>),
         Frame(<<STF(1, <<{Hit(5), Veto(5)}>>), STF(2, <<{Hit(3), Hit(4)}>>)>>)}

(* Hits at the borders of the time region, with the delays: before its first bin, at it   *)
(* and behind it, in the last bin that counts and in those behind it.                *)
Borders ==
  {Frame(<<STF(1, <<{Hit(t) : t \in A}>>), STF(2, <<{Hit(t) : t \in B}>>)>>) :
     A \in {{0}, {1}, {0, 3}, {11}, {1, 11}},
     B \in {{0}, {9}, {10}, {0, 9}, {1, 10}}}

Coincident == STF(1, <<{Hit(6)}, {Hit(3), Hit(10)}>>)

FewSmallFrames == {Frame(<<Coincident, STF(2, <<{}, {Hit(8)}>>)>>)}

Irregular == {
  Frame(<<STF(1, <<{Hit(6)}>>)>>),
  Frame(<<STF(1, <<{Hit(6)}>>), STF(2, <<{Hit(4)}, {}>>)>>),
  Frame(<<Coincident, STF(2, <<{Hit(4)}>>)>>),
  Frame(<<Coincident, STF(2, <<>>)>>),
  Frame(<<STF(1, <<>>), STF(2, <<{Hit(4)}>>)>>)}

SmallFrames == OneHBF \cup Borders \cup FewSmallFrames \cup Irregular

=============================================================================
