------------------------------- MODULE MCPool -------------------------------
(* The values of Pool's constants in the runs.                             *)
EXTENDS Pool

Block(a, p) == [kind |-> "cidr", addr |-> a, prefix |-> p]
Span(a, b) == [kind |-> "range", lo |-> a, hi |-> b]
Single(a) == [kind |-> "single", addr |-> a]

\* One warm member from three addresses, or an entry whose prefix is too long.
EditedSpecs == {[warm |-> 1, entries |-> <<Block(3, 1), Single(1)>>],
                [warm |-> 1, entries |-> <<Block(0, 4)>>]}

\* One warm member, from two addresses.
SteadySpecs == {[warm |-> 1, entries |-> <<Span(1, 2)>>]}
=============================================================================
