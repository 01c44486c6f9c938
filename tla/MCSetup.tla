------------------------------- MODULE MCSetup -------------------------------
(* Small instances of Setup. *)
EXTENDS Setup

MCMemmap == <<[base |-> 0, length |-> 1, usable |-> FALSE],
              [base |-> 1, length |-> 21, usable |-> TRUE]>>

Layout(text, rodata, data, virt_base, low) ==
  [text |-> text, rodata |-> rodata, data |-> data, virt_base |-> virt_base,
   phys_base |-> 5, low |-> low]

(* Sections that end within a page and at the end of one; tables that the  *)
(* kernel and the higher half share; more tables than there are pages.     *)
Plain == Layout(5, 3, 6, 72, 2)
MCLayouts ==
  {Plain, Layout(4, 4, 9, 60, 4), Layout(1, 7, 4, 33, 3), Layout(2, 2, 2, 72, 18)}

Device(id, top) == [id |-> id, top |-> top]
Machine(revision, rsdt, xsdt, madt, beyond, devices) ==
  [revision |-> revision, rsdt |-> rsdt, xsdt |-> xsdt, madt |-> madt,
   beyond |-> beyond, devices |-> devices]

One == <<Device(1, 3)>>
Two == <<Device(1, 2), Device(2, 3)>>
OneEntry == IoapicEntry(1, 1, 0)
TimerAtTwo == IsoEntry(0, 2, 0)
Usual == <<LapicEntry, OneEntry, TimerAtTwo, IsoEntry(9, 3, 13)>>
PcTables == <<"FACP", "APIC">>
With(madt, beyond, devices) ==
  Machine(0, PcTables, <<>>, madt, beyond, devices)
UsualMachine == With(Usual, <<OtherTable>>, One)

MCMachines ==
  {UsualMachine} \cup
  (* root tables *)
  {Machine(2, <<"FACP">>, <<"FACP", "HPET", "APIC">>, Usual, <<OtherTable>>, One),
   Machine(2, <<>>, PcTables, Usual, <<OtherTable>>, One),
   Machine(0, <<"FACP">>, PcTables, Usual, <<OtherTable>>, One),
   Machine(2, PcTables, <<"FACP">>, Usual, <<OtherTable>>, One)} \cup
  (* what follows the MADT *)
  {With(Usual, beyond, One) :
     beyond \in {<<Zeroes>>, <<LapicEntry, LapicAddrEntry, LapicEntry, OtherTable>>,
                 <<IsoEntry(1, 3, 15), OtherTable>>, <<IsoEntry(0, 3, 15), OtherTable>>,
                 <<IsoEntry(1, 2, 15), OtherTable>>,
                 <<LapicEntry, OneEntry, OneEntry, OneEntry>>}} \cup
  (* overrides, I/O APICs, and interrupts that arrive at the last entry *)
  {With(<<OneEntry>>, <<OtherTable>>, One),
   With(<<OneEntry, IsoEntry(0, 1, 0)>>, <<OtherTable>>, One),
   With(<<LapicAddrEntry, LapicEntry>>, <<OtherTable>>, One),
   With(<<OneEntry, IsoEntry(1, 3, 0)>>, <<OtherTable>>, One),
   With(<<IoapicEntry(5, 1, 0), TimerAtTwo>>, <<OtherTable>>, One),
   With(<<OneEntry, IsoEntry(0, 2, 13), IsoEntry(0, 0, 0), IsoEntry(1, 1, 7)>>,
        <<OtherTable>>, One),
   With(<<IoapicEntry(1, 1, 0), IoapicEntry(2, 2, 3), IsoEntry(0, 4, 5)>>,
        <<OtherTable>>, Two),
   With(<<IoapicEntry(2, 2, 3), IoapicEntry(1, 1, 0), IsoEntry(1, 5, 15), IsoEntry(0, 3, 0)>>,
        <<OtherTable>>, Two),
   With(<<OneEntry, TimerAtTwo, IsoEntry(1, 1, 0), IsoEntry(3, 3, 0), IsoEntry(4, 3, 0)>>,
        <<OtherTable>>, One)}

(* Sizes below, at and above the limits and the steps of the scale, with   *)
(* odd and even numbers of cells; colours of other sizes than a byte.      *)
Framebuffer(width, height) == [width |-> width, height |-> height, masks |-> <<8, 8, 8>>]
Usual1280 == Framebuffer(1280, 800)
MCFramebuffers ==
  {Framebuffer(width, height) :
     width \in {640, 1366, 1920, 1921, 2559, 2560, 3840, 5120},
     height \in {480, 1080, 1200, 1201, 1439, 1440, 2879, 2880}} \cup
  {Usual1280} \cup
  {[Usual1280 EXCEPT !.masks = m] : m \in {<<5, 6, 5>>, <<8, 8, 7>>, <<10, 10, 10>>}}

MCInstances ==
  (MCLayouts \X {UsualMachine} \X {Usual1280})
    \cup ({Plain} \X MCMachines \X {Usual1280})
    \cup ({Plain} \X {UsualMachine} \X MCFramebuffers)
=============================================================================
