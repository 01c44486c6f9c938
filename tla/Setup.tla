-------------------------------- MODULE Setup --------------------------------
(***************************************************************************)
(* The part of _start (src/main.c) that works on what the boot loader and  *)
(* the firmware have left in memory: the terminal on the framebuffer, the  *)
(* page map, then the ACPI tables, and the routing of the two interrupts   *)
(* that they lead to.  The result of flanterm_fb_init is not tested, but   *)
(* the first text that is printed stops a kernel without a terminal.       *)
(***************************************************************************)
EXTENDS Vmm, Ioapic, FbInit

CONSTANT Instances   \* the layouts, machines and framebuffers that are explored

setupVars == <<fbVars, absVars, vmmVars, acpiVars, ioapicVars>>

SetupInit ==
  /\ FbInitInit /\ AbsInit /\ VmmInit /\ AcpiInit /\ IoapicInit
  /\ <<layout, machine, frame>> \in Instances

SetupNext ==
  \/ FbInitNext /\ UNCHANGED <<absVars, vmmVars, acpiVars, ioapicVars>>
  \/ phase = "ready" /\ vmm_init /\ UNCHANGED <<fbVars, acpiVars, ioapicVars>>
  \/ VmmDone /\ (acpi_init \/ madt_init) /\ UNCHANGED <<fbVars, absVars, vmmVars, ioapicVars>>
  \/ VmmDone /\ IoapicNext /\ UNCHANGED <<fbVars, absVars, vmmVars>>

(* The processor executes, and no interrupt has been unmasked that could   *)
(* keep it from it.                                                        *)
SetupSpec == SetupInit /\ [][SetupNext]_setupVars /\ WF_setupVars(SetupNext)
-----------------------------------------------------------------------------
(* The machines on which the kernel can be set up at all: the framebuffer  *)
(* has whole bytes for its colours and an even number of characters, there *)
(* is an RSDT, the root table that the revision chooses leads to an MADT,  *)
(* the lists have room for what the walk finds, what follows the MADT has  *)
(* no entry of length 0 and none that the walk takes for an override, and  *)
(* no interrupt arrives at the last entry of its I/O APIC.                 *)
Supported ==
  LET found(type) == OfType(type, Memory)
  IN  /\ TrueColour /\ GridCells % 2 = 0
      /\ machine.rsdt # <<>>
      /\ "APIC" \in Range(IF machine.revision = 0 THEN machine.rsdt ELSE machine.xsdt)
      /\ \A e \in Range(machine.beyond) : e.length > 0
      /\ \A type \in {1, 2} : Len(found(type)) <= ListSize
      /\ found(1) # <<>>
      /\ \A irq \in Irqs : ~ Foreign(irq) /\ \E pin \in Pins(irq) : ~ AtLast(pin)

(* On such a machine both handlers are stored in the end: the terminal has *)
(* its memory, the walk over the MADT ends although it goes past the       *)
(* table's end, and neither a table nor an I/O APIC is missed (fb.c:39-58, *)
(* acpi.c:17-48, madt.c:16-33, ioapic.c:25-30).                            *)
SetupEnds == Supported ~> pc = "done"
=============================================================================
