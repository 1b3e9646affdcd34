------------------------------- MODULE MCPci --------------------------------
(* The PCI walk on every machine that can be made from a few locations.    *)
EXTENDS Pci

MCCategory == {<<"network", "ethernet">>, <<"network", "other">>, <<"storage", "ide">>}

\* Two slots with two functions on bus 0, with a gap in one; a slot with two functions on bus 1;
\* one location on bus 2.
OnBus(bus) == {l \in {<<0, 0, 0>>, <<0, 0, 1>>, <<0, 1, 0>>, <<0, 1, 2>>,
                      <<1, 0, 0>>, <<1, 0, 1>>, <<2, 1, 0>>} : l[1] = bus}

\* What they can hold: the bus numbers of bridges grow, and few
\* categories suffice at each.
Bus0 == [OnBus(0) -> {Absent, Bridge(1), Bridge(2),
                         Device(<<"network", "ethernet">>), Device(<<"storage", "ide">>)}]
Bus1 == [OnBus(1) -> {Absent, Bridge(2), Device(<<"network", "ethernet">>)}]
Bus2 == [OnBus(2) -> {Absent, Device(<<"network", "other">>)}]

Everywhere(r) == [l \in Location |-> IF l \in DOMAIN r THEN r[l] ELSE Absent]

MCMachine ==
    {m \in {[regs |-> Everywhere(r0 @@ r1 @@ r2), multi |-> s] :
                r0 \in Bus0, r1 \in Bus1, r2 \in Bus2,
                s \in SUBSET {<<0, 0>>, <<0, 1>>, <<1, 0>>}} : Configured(m)}
=============================================================================
