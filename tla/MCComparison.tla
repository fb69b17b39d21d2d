---------------------------- MODULE MCComparison ----------------------------
(* Values for the constants of Comparison: three tests, and the contents of *)
(* known-failures.json the runs choose from.                               *)
EXTENDS Comparison

CONSTANTS connect, wide, huge, issue1, issue2, why

MCInventory == <<connect, wide, huge>>
MCSmallInventory == <<connect, wide>>

Group(i, tests) == [issue |-> i, reason |-> why, tests |-> tests]
Listing(ref, rust) ==
    [d \in Drivers |-> IF d = Reference THEN ref ELSE rust]

\* Nothing known; tests known under different issues, the one in the middle on
\* both drivers; a registry that names a test twice and does not load.
MCRegistries == {
    Listing(<<>>, <<>>),
    Listing(<<Group(issue2, <<wide>>)>>, <<Group(issue1, <<wide>>), Group(issue2, <<huge>>)>>),
    Listing(<<>>, <<Group(issue1, <<wide>>), Group(issue2, <<wide>>)>>)}

\* A test that is known on both drivers: the audit runs it on one of them.
MCOneRegistry == {Listing(<<Group(issue1, <<wide>>)>>, <<Group(issue1, <<wide>>)>>)}

MCNoneKnown == {Listing(<<>>, <<>>)}
=============================================================================
