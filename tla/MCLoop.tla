------------------------------- MODULE MCLoop -------------------------------
(***************************************************************************)
(* Small programs for the plain loop backend.                              *)
(***************************************************************************)
EXTENDS LoopBackend

CONSTANTS r, s      \* two registers of the input programs

Straight(k) ==
    [1 .. k -> {Add(d, a, b) : d \in {r, s}, a \in {r, s}, b \in {r, s}}
                  \cup {Mulu(d, a, a) : d \in {r, s}, a \in {r, s}} \cup {Ld(r, s), St(s, r)}]

Around(before, bodies, after) ==
    {[code |-> before \o body \o <<Loop>> \o after, target |-> Len(before) + 1] :
        body \in bodies}

\* Loops of two instructions, behind the loop count, a late product and a chain.
Loops ==
    Around(<<MovSpecial>>, Straight(2), <<St(r, s)>>)
    \cup Around(<<MovSpecial, Mulu(r, s, s)>>, Straight(2), <<Addi(s, r), St(s, r)>>)
    \cup Around(<<MovSpecial, MovImmediate(s), Addi(r, s), Mulu(r, r, s)>>, Straight(2),
                <<Add(r, s, r)>>)

\* Loops of three, of fewer kinds: several products, several values carried over.
Longer ==
    Around(<<MovSpecial, MovImmediate(r)>>,
           [1 .. 3 -> {Addi(r, s), Addi(s, r), Add(r, r, s), Mulu(s, r, s), Mulu(r, r, r)}],
           <<St(r, s)>>)

\* The shortest loops, between a product and its use.
Short == Around(<<MovSpecial, Mulu(r, s, s)>>, {<<MovImmediate(s)>>, <<Addi(s, s)>>, <<St(s, s)>>},
                <<St(r, r)>>)

\* Without a loop, with nothing before the loop, with no proper target, with nops, and
\* with more results or more starting registers than there are registers.
Special ==
    {[code |-> p, target |-> 1] : p \in Straight(2)}
    \cup {[code |-> <<MovSpecial, Nop, Add(r, r, s), Loop, St(r, s)>>, target |-> t] :
             t \in 1 .. 6}
    \cup {[code |-> [i \in 1 .. n |-> MovImmediate(r)], target |-> 1] : n \in 11 .. 13}
    \cup {[code |-> [i \in 1 .. n |-> St(r, s)], target |-> 1] : n \in 5 .. 7}

\* So many results that they bear the names of two registers carried around the loop.
Clashing ==
    {[code |-> <<MovSpecial>> \o [i \in 1 .. 8 |-> MovImmediate(r)]
                  \o <<MovImmediate(s), Addi(s, s), Addi(r, r), Loop>>, target |-> 11]}

\* The sum of two registers, each written just before.
Sums == {[code |-> <<MovImmediate(a), MovImmediate(b), Add(r, r, s)>>, target |-> 1] :
           a \in {r, s}, b \in {r, s}}

\* Two counters, set in any order before the loop.
Counters ==
    UNION {Around(<<MovSpecial, MovImmediate(a), MovImmediate(b)>>, {<<Addi(a, a), Addi(b, b)>>},
                  <<St(r, s)>>) : a \in {r, s}, b \in {r, s}}

Programs ==
    Loops \cup Longer \cup Short \cup Special \cup Clashing

=============================================================================
