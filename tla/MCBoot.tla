------------------------------- MODULE MCBoot -------------------------------
(* Small firmware data for Boot. *)
EXTENDS Boot

KernelSizes == 1 .. 2 * PDES

Tag(t, s) == [type |-> t, size |-> s]

\* Tags with sizes that are no multiples of eight: up to three of them in any
\* order, any of them twice or missing, and four.
TagKinds == {Tag("fb", 38), Tag("memmap", 41), Tag("rsdp_v1", 28), Tag("rsdp_v2", 44), Tag("other", 9)}
SmallInfos ==
    UNION {[1 .. n -> TagKinds] : n \in 0 .. 3}
        \cup {<<Tag("fb", 38), a, b, Tag("memmap", 40)>> : a, b \in TagKinds}

Tables == [sig : {"APIC", "FACP"}, ok : BOOLEAN]
SmallSdtLists == UNION {[1 .. n -> Tables] : n \in 0 .. 3}

MadtEntries == {Tag("lapic", 8), Tag("ioapic", 12), Tag("iso", 10), Tag("iso", 0)}
SmallMadts == UNION {[1 .. n -> MadtEntries] : n \in 0 .. 2}

Entries ==
    [base : {0, 30, 89}, length : {16, 27, 58}, type : {"RAM"}]
        \cup [base : {30}, length : {58}, type : {"ACPI"}]
        \cup [base : {150}, length : {40, 250}, type : {"HIBER"}]

\* Firmware lists regions in order and without overlaps.
SmallMemMaps ==
    {m \in UNION {[1 .. n -> Entries] : n \in 0 .. 3} :
        \A i, j \in DOMAIN m : i < j => m[i].base + m[i].length <= m[j].base}
=============================================================================
