-------------------------------- MODULE Acpi --------------------------------
(***************************************************************************)
(* The ACPI tables: acpi_init and acpi_find_table of src/acpi/acpi.c, and  *)
(* madt_init of src/acpi/madt.c, whose walk over the MADT takes one step   *)
(* for each entry.  A table is the sequence of its entries, and the walk   *)
(* goes on over whatever follows the table in memory.  A dereference of    *)
(* NULL and an index out of bounds stop the processor: the sanitizer's     *)
(* handlers halt.                                                          *)
(*                                                                         *)
(* A definition whose name ends in an underscore and a word is a faulty    *)
(* variant of the definition after it.                                     *)
(***************************************************************************)
EXTENDS Naturals, Sequences, SequencesExt

CONSTANTS
  ListSize,   \* room in madt_ioapic_list and in madt_iso_list (64)
  Machines    \* the machines: see MachinesAssumption

(* A table's entries have lengths, those of an MADT lead to I/O APICs that *)
(* exist, and its overrides have none of the reserved polarities and       *)
(* trigger modes.  Of what follows an MADT nothing is known.               *)
ASSUME MachinesAssumption ==
  \A m \in Machines :
    /\ m.madt \in Seq(Range(m.madt)) /\ m.beyond \in Seq(Range(m.beyond))
    /\ \A d \in DOMAIN m.devices : m.devices[d].top \in Nat
    /\ \A e \in Range(m.madt) :
         /\ e.length \in Nat
         /\ e.type = 1 => e.address \in DOMAIN m.devices /\ e.gsi_base \in Nat
         /\ e.type = 2 => /\ e.gsi \in Nat /\ e.flags \in Nat
                          /\ e.flags % 4 # 2 /\ (e.flags \div 4) % 4 # 2

VARIABLES
  machine,          \* the one of Machines that is explored
  pc,               \* where _start is
  acpi_root_sdt,    \* the root table: the signatures it leads to, see Root
  acpi_use_xsdt,
  place,            \* madt_init: the number of the entry at table + i
  offset,           \* madt_init: i
  madt_ioapic_list, madt_iso_list,
  lapic_addr        \* the entry with the local APIC's address, or NoEntry

acpiVars ==
  <<machine, pc, acpi_root_sdt, acpi_use_xsdt, place, offset, madt_ioapic_list,
    madt_iso_list, lapic_addr>>

(* The entries of an MADT, and what else may be found past its end: here   *)
(* the signature of another table and its length.                          *)
IoapicEntry(id, device, base) ==
  [type |-> 1, length |-> 12, id |-> id, address |-> device, gsi_base |-> base]
IsoEntry(irq, gsi, flags) ==
  [type |-> 2, length |-> 10, irq_source |-> irq, gsi |-> gsi, flags |-> flags]
LapicEntry == [type |-> 0, length |-> 8]
LapicAddrEntry == [type |-> 5, length |-> 12]
OtherTable == [type |-> 72, length |-> 80]
Zeroes == [type |-> 0, length |-> 0]
NoEntry == [type |-> 0, length |-> 0]

(* A root table whose pointers are of so many bytes. *)
Root(width, signatures) == [width |-> width, tables |-> signatures]

SdtHeader == 36
MadtHeader == 44
PointerSize == 8

Stop == pc' = "halted"
Goto(from, to) == pc = from /\ pc' = to

AcpiInit ==
  /\ machine \in Machines
  /\ pc = "acpi"
  /\ acpi_root_sdt = Root(4, <<>>) /\ acpi_use_xsdt = FALSE
  /\ place = 1 /\ offset = 0
  /\ madt_ioapic_list = <<>> /\ madt_iso_list = <<>>
  /\ lapic_addr = NoEntry
-----------------------------------------------------------------------------
(* Without an RSDT the kernel stops, even if there is an XSDT. *)
acpi_init ==
  /\ pc = "acpi"
  /\ IF machine.rsdt = <<>>
     THEN Stop /\ UNCHANGED <<acpi_root_sdt, acpi_use_xsdt>>
     ELSE /\ pc' = "madt"
          /\ acpi_use_xsdt' = (machine.revision # 0)
          /\ acpi_root_sdt' = IF machine.revision # 0 THEN Root(8, machine.xsdt)
                              ELSE Root(4, machine.rsdt)
  /\ UNCHANGED <<machine, place, offset, madt_ioapic_list, madt_iso_list, lapic_addr>>

(* The length that the root table's header holds. *)
RootLength == SdtHeader + acpi_root_sdt.width * Len(acpi_root_sdt.tables)

Entries_Wide == (RootLength - SdtHeader) \div 8
(* entries, in either half of acpi_find_table *)
Entries == (RootLength - SdtHeader) \div (IF acpi_use_xsdt THEN 8 ELSE 4)

(* acpi_find_table: whether a table has the signature. *)
acpi_find_table(signature) ==
  \E i \in (1..Entries) \cap DOMAIN acpi_root_sdt.tables :
    acpi_root_sdt.tables[i] = signature

(* The beginning of madt_init, which does not test for NULL. *)
FindMadt ==
  /\ pc = "madt"
  /\ IF acpi_find_table("APIC") THEN pc' = "walk" ELSE Stop
  /\ UNCHANGED <<machine, acpi_root_sdt, acpi_use_xsdt, place, offset,
                 madt_ioapic_list, madt_iso_list, lapic_addr>>

(* What a walk from the table's beginning finds. *)
Memory == machine.madt \o machine.beyond
Entry == IF place \in DOMAIN Memory THEN Memory[place] ELSE OtherTable

(* The bytes that its first n entries take up. *)
Bytes ==
  LET bytes[n \in 0..Len(machine.madt)] ==
        IF n = 0 THEN 0 ELSE bytes[n - 1] + machine.madt[n].length
  IN  bytes

MadtLength == MadtHeader + Bytes[Len(machine.madt)]

(* The condition of the loop subtracts the size of a pointer, not that of  *)
(* the header.                                                             *)
WalkGoesOn == offset <= MadtLength - PointerSize

Listed_Twice(type, list) ==
  IF Entry.type = type THEN <<Entry>> \o list ELSE list
Listed(type, list) == IF Entry.type = type THEN Append(list, Entry) ELSE list

Full == \/ Entry.type = 1 /\ Len(madt_ioapic_list) = ListSize
        \/ Entry.type = 2 /\ Len(madt_iso_list) = ListSize

WalkEntry ==
  /\ pc = "walk" /\ WalkGoesOn
  /\ IF Full
     THEN Stop /\ UNCHANGED <<madt_ioapic_list, madt_iso_list, lapic_addr, place, offset>>
     ELSE /\ madt_ioapic_list' = Listed(1, madt_ioapic_list)
          /\ madt_iso_list' = Listed(2, madt_iso_list)
          /\ lapic_addr' = IF Entry.type = 5 THEN Entry ELSE lapic_addr
          /\ offset' = offset + Entry.length
          /\ place' = IF Entry.length = 0 THEN place ELSE place + 1
          /\ UNCHANGED pc
  /\ UNCHANGED <<machine, acpi_root_sdt, acpi_use_xsdt>>

EndWalk ==
  /\ ~ WalkGoesOn
  /\ Goto("walk", "ioapic")
  /\ UNCHANGED <<machine, acpi_root_sdt, acpi_use_xsdt, place, offset,
                 madt_ioapic_list, madt_iso_list, lapic_addr>>

madt_init == FindMadt \/ WalkEntry \/ EndWalk
-----------------------------------------------------------------------------
(* Of the first n entries, those of one type. *)
Kept(type, entries) ==
  LET kept[n \in 0..Len(entries)] ==
        IF n = 0 THEN <<>>
        ELSE IF entries[n].type = type THEN Append(kept[n - 1], entries[n])
        ELSE kept[n - 1]
  IN  kept
(* The entries of one type, in their order. *)
OfType(type, entries) == Kept(type, entries)[Len(entries)]

(* The lists that the kernel works with begin with all the entries of the  *)
(* table, in their order: what is found past its end only follows them     *)
(* (madt.c:16-33).                                                         *)
Walked == pc \notin {"acpi", "madt", "walk", "halted"}

ListsAsTable ==
  Walked =>
    /\ IsPrefix(OfType(1, machine.madt), madt_ioapic_list)
    /\ IsPrefix(OfType(2, machine.madt), madt_iso_list)
=============================================================================
