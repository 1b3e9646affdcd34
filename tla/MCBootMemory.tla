---------------------------- MODULE MCBootMemory -----------------------------
(* Memory maps of two and three regions, in any order, and all that a boot   *)
(* loader may have left behind the kernel.                                   *)
EXTENDS BootMemory

Region(from, to, type) == [base |-> from * 4, length |-> (to - from) * 4, type |-> type]

\* Low memory or none; the memory the kernel is in; what follows it.
MCMap ==
    {<<Region(0, e, 1)>> : e \in {9, 11}} \cup
    UNION {{<<Region(1, e, 1), Region(f, t, k)>>, <<Region(f, t, k), Region(1, e, 1)>>,
            <<Region(0, 1, 2), Region(1, e, 1), Region(f, t, k)>>,
            <<Region(f, t, k), Region(0, 1, 1), Region(1, e, 1)>>} :
                <<e, f, t, k>> \in {8, 10} \X {10, 11} \X {12, 13, 16, 17} \X {1, 2}}

MCBootInfo ==
    {info \in [memory : {0, 32, 36, 40, 44}, map : MCMap,
               reserved : {<<>>, <<3>>, <<14>>, <<16, 9>>, <<13, 12, 15>>}] : Honest(info)}
==============================================================================
