----------------------------- MODULE MCLooppip -----------------------------
(***************************************************************************)
(* Small programs for the looppip scheduler.                               *)
(***************************************************************************)
EXTENDS LooppipScheduler

\* Sums and products of one register into another, a load and a store.
Straight(k) ==
    [1 .. k -> {Addi(d, s) : d \in {1, 2}, s \in {1, 2}}
                  \cup {Mulu(d, s, s) : d \in {1, 2}, s \in {1, 2}} \cup {Ld(1, 2), St(1, 2)}]

Around(before, bodies, after) ==
    {[code |-> before \o body \o <<Loop>> \o after, target |-> Len(before) + 1] :
        body \in bodies}

\* Blocks with more work for a unit than it has slots for in the search range.
Crowded ==
    {[code |-> before \o body \o <<Loop>>, target |-> Len(before) + 1] :
        before \in {<<MovSpecial>>, <<St(1, 2), St(2, 1), St(1, 1)>>},
        body \in Straight(2)
                    \cup {<<St(1, 1), St(1, 1), St(1, 1)>>}
                    \cup {<<Mulu(2, 1, 1), Mulu(1, 2, 2), Mulu(2, 1, 1)>>}}

\* Programs with nops anywhere, any target, and none or several loop instructions.
Noisy ==
    [code : [1 .. 6 -> {Nop, Loop, Add(1, 1, 2), Mulu(2, 1, 1)}],
     target : 1 .. 7]

FrontendPrograms == Noisy \cup Crowded

=============================================================================
