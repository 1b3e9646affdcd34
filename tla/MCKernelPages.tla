--------------------------- MODULE MCKernelPages ---------------------------
(* Instances of KernelPages for TLC. *)
EXTENDS KernelPages

\* Regions that end where a block of the largest order can end, with every
\* beginning; longer ones; and two that end elsewhere, with no block that has
\* a smaller one as its buddy.
MCRegions ==
    {<<i, 8>> : i \in 0 .. 7} \cup {<<i, 12>> : i \in 3 .. 5} \cup {<<0, 5>>, <<1, 6>>}

MCOneRegion == {<<0, 4>>}

ASSUME RegionsUnmerged
=============================================================================
