------------------------------ MODULE MCTimers ------------------------------
(* A delay to True and one to False of the same operand, and a cache with  *)
(* two attributes, one of whose values is shared by two rows.              *)
EXTENDS Timers

MCDelayed == [d1 |-> {"T", "N"}, d2 |-> {"F"}]
MCDuration == [d1 |-> 2, d2 |-> 1]
MCRow == {<<"a", "x">>, <<"a", "y">>}
MCOptions == {{"count"}, {"expire"}}
MCThreshold == [hits |-> <<<<0>>, <<0, 2>>, <<1, 2>>>>,
                rows |-> <<<<1, 1, 2>>, <<0>>, <<0>>>>,
                kids |-> <<<<0>>, <<1, 2>>, <<0>>>>]
=============================================================================
