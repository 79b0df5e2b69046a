------------------------------ MODULE MCPoker ------------------------------
(* TLC instances of the games of Big Two: deals small enough to explore.    *)
EXTENDS PokerGame, TLC

Deal(a, b, c, d) == <<b, c, d>> @@ (0 :> a)

\* A computer is first, with a straight; two flushes of the same nums.
Flushing == Deal({<<1, 1>>, <<3, 1>>, <<5, 1>>, <<7, 1>>, <<9, 1>>, <<11, 3>>},
                 {<<1, 2>>, <<3, 2>>, <<5, 2>>, <<7, 2>>, <<9, 2>>, <<11, 0>>},
                 {<<0, 0>>, <<1, 3>>, <<2, 3>>, <<3, 0>>, <<4, 0>>, <<11, 1>>},
                 {<<12, 0>>, <<12, 1>>, <<10, 0>>, <<8, 1>>, <<6, 2>>, <<6, 3>>})

\* The human is first; two full houses, four of a kind, and a straight flush.
Grand == Deal({<<0, 0>>, <<0, 1>>, <<0, 2>>, <<5, 0>>, <<5, 1>>},
               {<<3, 0>>, <<3, 1>>, <<3, 2>>, <<3, 3>>, <<8, 0>>},
               {<<1, 1>>, <<1, 2>>, <<1, 3>>, <<6, 2>>, <<6, 3>>},
               {<<7, 1>>, <<8, 1>>, <<9, 1>>, <<10, 1>>, <<11, 1>>})

MCDeals == {Flushing, Grand}
=============================================================================
