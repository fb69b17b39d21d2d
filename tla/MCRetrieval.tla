----------------------------- MODULE MCRetrieval -----------------------------
(***************************************************************************)
(* Small columns for Retrieval: chunks of 4 bytes, three of them at most,    *)
(* buffers of 34 bytes and elements of 8.                                   *)
(***************************************************************************)
EXTENDS Retrieval, Samples

MCColumns ==
    {Fixed(2, 3), [Fixed(2, 6) EXCEPT !.scaled = TRUE],
     Narrow(0), Narrow(7), Narrow(33), Sample("binary", 8, 6), Sample("binary", 33, 3),
     Sample("binary", 34, 3), [Sample("binary", 0, 0) EXCEPT !.generated = TRUE]}
    \cup {Large(Narrow(n)) : n \in {0, 1, 3, 4, 9, 10}}
    \cup {Large(Wide(n)) : n \in {2, 3}}
    \cup {Large(Hex(n)) : n \in {14, 24}}
=============================================================================
