----------------------------- MODULE MCDecider ------------------------------
(* TLC instance of Decider. *)
EXTENDS Decider, TLC

Question(kind, asks) == [kind |-> kind, asks |-> asks, cands |-> <<>>]
Find(cands) == [kind |-> "find", asks |-> <<>>, cands |-> cands]

AB == <<"a", "b">>
Twins == <<"a", "a">>
Numerals == <<"2", "1">>
Padded == <<"02", "+1">>
MCIds == <<"1", "2", "3">>
MCNumeral == "0" :> 0 @@ "1" :> 1 @@ "2" :> 2 @@ "3" :> 3 @@ "+1" :> 1 @@ "02" :> 2

\* Two candidates have the same text.
MCTextOf == <<"first", "twin", "third", "twin", "fifth", "sixth">>

\* One and two questions, with options that are numerals too; a batch with more requests than permits, one of them
\* invalid; finds with no candidate, one chunk, two (with winners that are
\* among the numbers of the last question or not) and more winners than fit.
MCQueries ==
    {Question("decide", <<<<AB, AB>>>>), Question("decide", <<<<Numerals>>>>),
     Question("decide", <<<<Padded>>>>),
     Question("batch", <<<<AB>>, <<<<>>>>, <<AB>>>>),
     Question("choose", <<<<AB>>>>), Question("choose", <<<<Twins>>>>), Question("detect", <<<<Verdicts>>>>),
     Question("verify", <<<<Verdicts>>>>), Question("wait", <<<<Verdicts>>>>),
     Find(<<>>), Find(<<3, 4>>), Find(<<1, 2, 3>>), Find(<<2, 4, 5, 6>>), Find(<<1, 2, 3, 4, 5>>)}
=============================================================================
