------------------------------- MODULE MCHeap -------------------------------
(* Small instances of the heap: granules of 512 bytes instead of 64K.      *)
EXTENDS Heap

MCSizes == {1, 36, 120, 400, 800, 65500}
MCProducts == {<<0, 4>>, <<5, 12>>, <<4096, 16>>, <<300, 300>>}
MCAlignments == {32}

\* Where the blocks are: there is room for three, or for one of 1024 bytes
\* and one of 512.
MCPlaces == {1024, 1536, 2048}

\* A script is a sequence of calls: <<bytes, os>> is malloc, and <<k>> frees
\* what the k-th malloc gave.

\* Four chunks of one tree, of 176, 152, 144 and 160 bytes, between small
\* ones, which are freed in some order.
Fragments ==
    << <<172, 1024>>, <<12, 0>>, <<148, 0>>, <<12, 0>>, <<140, 1536>>, <<12, 0>>, <<156, 0>>, <<12, 0>> >>
Freed(order) == [i \in DOMAIN order |-> <<order[i]>>]

\* Small chunks of several sizes, some of them freed.
Smalls ==
    << <<12, 1024>>, <<12, 0>>, <<20, 0>>, <<12, 0>>, <<44, 0>>, <<12, 0>>, <<1>>, <<3>>, <<5>> >>

\* Segments that are apart, and that are merged.
Apart == << <<400, 1024>>, <<400, 2048>>, <<60, 0>> >>
Merged == << <<400, 1024>>, <<400, 1536>>, <<400, 2048>>, <<3>> >>

\* The first chunk of a segment is dv, or it is top, and a block comes before it.
DvFirst == << <<60, 1536>>, <<84, 0>>, <<12, 0>>, <<2>>, <<20, 0>>, <<4>>, <<1>> >>
TopFirst == << <<12, 2048>>, <<1>>, <<480, 1024>> >>

\* A segment that is not used is dv.
DvUnused ==
    << <<60, 1024>>, <<84, 0>>, <<12, 0>>, <<284, 0>>, <<120, 2048>>, <<36, 0>>,
       <<2>>, <<20, 0>>, <<7>>, <<1>>, <<3>>, <<4>> >>

MCScripts ==
    {<< >>, Smalls, Apart, Merged, DvFirst, TopFirst, DvUnused}
      \cup {Fragments \o Freed(order) : order \in {<<5, 1, 7, 3>>, <<7, 5, 3, 1>>}}
=============================================================================
