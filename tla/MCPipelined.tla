----------------------------- MODULE MCPipelined -----------------------------
(***************************************************************************)
(* Small programs for the loop.pip path from end to end.                   *)
(***************************************************************************)
EXTENDS LooppipBackend, MCLooppip

\* Every loop of three instructions, and the empty one, behind nothing but the loop
\* count; shorter ones behind a product that is not ready when the loop may start,
\* behind a row without a free ALU slot, and behind a chain and no loop count.
Pipelines ==
    Around(<<MovSpecial>>, Straight(3) \cup {<<>>}, <<Addi(2, 1)>>)
    \cup Around(<<MovSpecial, MovImmediate(2), Mulu(1, 2, 2)>>, Straight(2), <<St(1, 2)>>)
    \cup Around(<<MovSpecial, MovImmediate(1)>>, Straight(2), <<Mulu(2, 1, 2), St(2, 1)>>)
    \cup Around(<<MovImmediate(2), Addi(1, 2)>>, Straight(2), <<>>)

\* A sum over the iterations of a value that takes some cycles: the sum stands in a
\* stage of its own when the interval is shorter than that.
Recurrences ==
    Around(<<MovSpecial, MovImmediate(1), MovImmediate(2)>>,
           {<<x, y, Add(1, 1, 3)>> : x, y \in {Ld(3, 2), Mulu(3, 2, 2), Mulu(3, 3, 3), Addi(2, 2),
                                                St(1, 2), St(2, 2)}},
           <<St(1, 2)>>)

\* Nothing to go back to, more results before the loop than static registers, and more
\* in the loop than windows.
Refused ==
    {[code |-> <<MovSpecial, Loop, St(1, 2)>>, target |-> t] : t \in 3 .. 5}
    \cup Around([i \in 1 .. 8 |-> MovImmediate(1)], {<<St(1, 1)>>}, <<>>)
    \cup Around(<<MovSpecial>>, {[i \in 1 .. 13 |-> MovImmediate(1)]}, <<>>)

PipelinedPrograms == Pipelines \cup Recurrences \cup Refused

\* The sum of products in the third stage.
Late ==
    Around(<<MovSpecial, MovImmediate(1), MovImmediate(2)>>, {<<Mulu(3, 2, 2), Add(1, 1, 3)>>},
           <<St(1, 2)>>)

\* A product that the loop does not read, and a load.
Unread ==
    Around(<<MovSpecial, MovImmediate(2)>>, {<<Mulu(1, 2, 2), Ld(3, 2)>>}, <<St(3, 2)>>)

\* A sum that goes on longer than there are rotating registers.
Counting == Around(<<MovSpecial, MovImmediate(1)>>, {<<Addi(1, 1)>>}, <<St(1, 1)>>)

=============================================================================
