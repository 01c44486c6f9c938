-------------------------------- MODULE Ioapic --------------------------------
(***************************************************************************)
(* The I/O APICs: src/dev/ioapic.c, from ioapic_init to the redirections   *)
(* that irq_register (src/sys/idt.c) asks for when pit_init and kb_init    *)
(* call it, over the lists of Acpi.  The two words of a redirection entry  *)
(* are written one after the other.  A dereference of NULL is a page fault *)
(* here, whose handler stops the processor.                                *)
(*                                                                         *)
(* A definition whose name ends in an underscore and a word is a faulty    *)
(* variant of the definition after it.                                     *)
(***************************************************************************)
EXTENDS Acpi

VARIABLES
  redtbl,         \* of each device: its redirection entries
  registered,     \* the interrupts whose handler is stored
  half            \* within ioapic_redirect_gsi: the low word is written

ioapicVars == <<redtbl, registered, half>>

Timer == 0
Keyboard == 1
Irqs == {Timer, Keyboard}
(* The processor that an entry names: the one whose identity is 0, or any, *)
(* as long as the kernel has not written it. *)
BootCpu == "boot"
AnyCpu == "any"

Redirection(masked, vector, low, level, cpu) ==
  [masked |-> masked, vector |-> vector, active_low |-> low, level |-> level, cpu |-> cpu]

(* The boot protocol hands over with every entry masked. *)
IoapicInit ==
  /\ redtbl = [d \in DOMAIN machine.devices |->
                 [k \in 0..machine.devices[d].top |-> Redirection(TRUE, 0, FALSE, FALSE, AnyCpu)]]
  /\ registered = {}
  /\ half = FALSE

(* The highest index of an entry, which the version register holds.        *)
ioapic_gsi_count(e) == machine.devices[e.address].top
-----------------------------------------------------------------------------
(* Every entry of the first I/O APIC is masked, unless it does not have the*)
(* identity that the MADT says.                                            *)
ioapic_init ==
  /\ pc = "ioapic"
  /\ IF madt_ioapic_list = <<>>
     THEN Stop /\ UNCHANGED redtbl
     ELSE /\ pc' = "pit"
          /\ LET e == madt_ioapic_list[1]
             IN  redtbl' =
                   IF machine.devices[e.address].id # e.id THEN redtbl
                   ELSE [redtbl EXCEPT ![e.address] =
                           [i \in 0..ioapic_gsi_count(e) |->
                              Redirection(TRUE, i + 32, FALSE, FALSE, BootCpu)]]
  /\ UNCHANGED <<registered, half>>

(* Index 0 stands for NULL.  The last entry of an I/O APIC is not found.   *)
ioapic_get_gsi(gsi) ==
  SelectInSeq(madt_ioapic_list,
              LAMBDA e : e.gsi_base <= gsi /\ e.gsi_base + ioapic_gsi_count(e) > gsi)

Bit(mask, flags) == (flags \div mask) % 2 = 1

LowWord_Swapped(entry, vector, flags) ==
  Redirection(FALSE, vector, Bit(8, flags), Bit(2, flags), entry.cpu)
(* ioapic_redirect_gsi, which unmasks: the low word of the entry. *)
LowWord(entry, vector, flags) ==
  Redirection(FALSE, vector, Bit(2, flags), Bit(8, flags), entry.cpu)

(* The first source override of the interrupt, or what holds without one.  *)
Override(irq) ==
  LET k == SelectInSeq(madt_iso_list, LAMBDA e : e.irq_source = irq)
  IN  IF k = 0 THEN IsoEntry(irq, irq, 0) ELSE madt_iso_list[k]

(* ioapic_redirect_irq(0, irq + 32, irq, false), one word at a time. *)
WriteWord(irq) ==
  LET to  == Override(irq)
      ioapic == ioapic_get_gsi(to.gsi)
  IN  IF ioapic = 0
      THEN Stop /\ UNCHANGED <<redtbl, half>>
      ELSE LET e == madt_ioapic_list[ioapic]
               k == to.gsi - e.gsi_base
           IN  /\ redtbl' = [redtbl EXCEPT ![e.address][k] =
                               IF half THEN [@ EXCEPT !.cpu = BootCpu]
                               ELSE LowWord(@, irq + 32, to.flags)]
               /\ half' = ~ half
               /\ IF half THEN pc' = "handler" ELSE UNCHANGED pc

irq_register(irq, from, to) ==
  \/ pc = from /\ irq \notin registered /\ WriteWord(irq) /\ UNCHANGED registered
  \/ /\ Goto("handler", to)
     /\ registered' = registered \cup {irq}
     /\ UNCHANGED <<redtbl, half>>

pit_init == registered = {} /\ irq_register(Timer, "pit", "kb")
kb_init == registered = {Timer} /\ irq_register(Keyboard, "kb", "done")

IoapicNext ==
  /\ ioapic_init \/ pit_init \/ kb_init
  /\ UNCHANGED <<machine, acpi_root_sdt, acpi_use_xsdt, place, offset,
                 madt_ioapic_list, madt_iso_list, lapic_addr>>
-----------------------------------------------------------------------------
(* What the machine's tables say, whatever the kernel made of them. *)
TableOverrides(irq) ==
  {k \in DOMAIN machine.madt : machine.madt[k].type = 2 /\ machine.madt[k].irq_source = irq}

Declared(irq) ==
  IF TableOverrides(irq) = {} THEN IsoEntry(irq, irq, 0)
  ELSE machine.madt[CHOOSE k \in TableOverrides(irq) : \A j \in TableOverrides(irq) : k <= j]

(* The device and the entry that an interrupt's line arrives at.           *)
Pins(irq) ==
  {<<e.address, Declared(irq).gsi - e.gsi_base>> :
     e \in {e \in Range(machine.madt) :
              /\ e.type = 1
              /\ Declared(irq).gsi \in e.gsi_base..(e.gsi_base + machine.devices[e.address].top)}}

(* Past the table's end there is something that looks like an override of *)
(* the interrupt, of which the table has none, or like an I/O APIC, and the*)
(* interrupt arrives at the last entry of its own, which is not found.     *)
AtLast(pin) == pin[2] = machine.devices[pin[1]].top
Foreign(irq) ==
  \E e \in Range(machine.beyond) :
    \/ e.type = 2 /\ e.irq_source = irq /\ TableOverrides(irq) = {}
    \/ e.type = 1 /\ \A pin \in Pins(irq) : AtLast(pin)
Misled == \E irq \in Irqs : Foreign(irq)

(* The tables send both interrupts to one entry, which can only have one   *)
(* vector.                                                                 *)
Shared == Pins(Timer) \cap Pins(Keyboard) # {}

(* Polarity and trigger mode of an override: 3 in the two bits of either   *)
(* says low, or level.                                                     *)
ActiveLow(flags) == flags % 4 = 3
LevelTriggered(flags) == (flags \div 4) % 4 = 3

(* Once its handler is stored, an interrupt's own pin, whichever I/O APIC  *)
(* and entry the tables say, sends it to the boot processor under the      *)
(* vector of the handler, with the line's polarity and trigger mode, also  *)
(* after the other one has been redirected; and no other pin can interrupt,*)
(* at any time (ioapic.c:25-85, idt.c:73-77).                              *)
RoutedAsTables ==
  ~ Misled =>
    /\ ~ Shared =>
         \A irq \in registered : \E pin \in Pins(irq) :
           redtbl[pin[1]][pin[2]] =
             Redirection(FALSE, irq + 32, ActiveLow(Declared(irq).flags),
                         LevelTriggered(Declared(irq).flags), BootCpu)
    /\ \A d \in DOMAIN redtbl : \A k \in DOMAIN redtbl[d] :
         redtbl[d][k].masked \/ \E irq \in Irqs : <<d, k>> \in Pins(irq)
=============================================================================
