--------------------------------- MODULE Vmm ---------------------------------
(***************************************************************************)
(* The virtual memory manager, src/mm/vmm.c, over the physical memory      *)
(* manager in its abstract form: vmm_init builds the kernel's page map with*)
(* one call of vmm_map after the other, each of which walks down four      *)
(* levels of tables and allocates those that are missing.  A step goes down*)
(* one level.  Addresses are counted in bytes where sections begin and end,*)
(* and in pages elsewhere; HIGHER_HALF and PHYSICAL, which the code applies*)
(* to every table's address, cancel out.  Nothing ever loads the map       *)
(* (vmm_switch_pm has no caller), so that only its contents matter.        *)
(*                                                                         *)
(* A definition whose name ends in an underscore and a word is a faulty    *)
(* variant of the definition after it.                                     *)
(***************************************************************************)
EXTENDS PageAllocator, SequencesExt

CONSTANTS
  Fanout,      \* entries in a table (512 in the code)
  HhdmBase,    \* the page that HIGHER_HALF maps page 0 to
  Layouts      \* the kernels and machines, see LayoutType

(* The sizes of the kernel's sections in bytes, the page it is linked to   *)
(* and the one it is loaded to, and the pages below 4 GiB.                 *)
LayoutType ==
  [text : Nat \ {0}, rodata : Nat \ {0}, data : Nat \ {0},
   virt_base : Nat, phys_base : Nat, low : Nat]

ASSUME VmmAssumption ==
  /\ Fanout \in Nat \ {0}
  /\ HhdmBase \in Nat
  /\ Layouts \subseteq LayoutType

(* The pages that an entry of a table of each level covers. *)
Span == <<1, Fanout, Fanout * Fanout, Fanout * Fanout * Fanout>>
VirtualPages == 0..(Fanout * Span[4] - 1)

(* The higher half begins above 4 GiB, and the kernel is linked above it,  *)
(* to the last 2 GiB, where the linker makes it fit (linker.ld).           *)
ASSUME LayoutAssumption ==
  \A l \in Layouts :
    LET bytes == l.text + l.rodata + l.data + 2 * PageBytes
    IN  /\ l.low <= HhdmBase /\ HhdmBase + l.low <= l.virt_base
        /\ l.virt_base * PageBytes + bytes <= Fanout * Span[4] * PageBytes

VARIABLES
  layout,   \* the one of Layouts that is explored
  tables,   \* for each page, its contents as a table
  vmm_kernel_pm,  \* the page of the map's root, or 0
  call,     \* the number of the call of vmm_map in progress
  level,    \* in it: the level of the table that has been reached
  table,    \* in it: the page of that table
  refused   \* history: an allocation has been refused

vmmVars == <<layout, tables, vmm_kernel_pm, call, level, table, refused>>

Indices == 0..(Fanout - 1)

Pte(page, flags) == [page |-> page, flags |-> flags]
Zeroed == [i \in Indices |-> Pte(0, {})]

(* What a page holds before its first use. *)
Garbage == [i \in Indices |-> Pte(0, {"present"})]
-----------------------------------------------------------------------------
(* The calls that vmm_init makes. *)

Call(virt, phys, flags) == [virt |-> virt, to |-> Pte(phys, flags)]

ALIGN_DOWN(x) == x \div PageBytes
ALIGN_UP(x) == (x + PageBytes - 1) \div PageBytes

(* The first byte of each section and the one after its last: the linker   *)
(* leaves a page between sections.                                         *)
TextStart == layout.virt_base * PageBytes
TextEnd == TextStart + layout.text
RodataStart == TextEnd + PageBytes
RodataEnd == RodataStart + layout.rodata
DataStart == RodataEnd + PageBytes
DataEnd == DataStart + layout.data

Section_Down(start, end, flags) ==
  [i \in 1..((end \div PageBytes) - ALIGN_DOWN(start)) |->
     LET v == ALIGN_DOWN(start) + i - 1
     IN  Call(v, v - layout.virt_base + layout.phys_base, flags)]
(* One of vmm_init's three loops over the pages of a section. *)
Section(start, end, flags) ==
  [i \in 1..(ALIGN_UP(end) - ALIGN_DOWN(start)) |->
     LET v == ALIGN_DOWN(start) + i - 1
     IN  Call(v, v - layout.virt_base + layout.phys_base, flags)]

(* The loop over the first 4 GiB. *)
LowMemory ==
  [i \in 1..(2 * layout.low) |->
     LET p == (i - 1) \div 2
     IN  Call(IF i % 2 = 1 THEN p ELSE HhdmBase + p, p, {"present", "writable"})]

Calls ==
  Section(TextStart, TextEnd, {"present"})
    \o Section(RodataStart, RodataEnd, {"present", "nx"})
    \o Section(DataStart, DataEnd, {"present", "writable", "nx"})
    \o LowMemory
-----------------------------------------------------------------------------
VmmInit ==
  /\ layout \in Layouts
  /\ tables = [p \in 0..PageCount |-> Garbage]
  /\ vmm_kernel_pm = 0
  /\ call = 0 /\ level = 4 /\ table = 0
  /\ refused = FALSE

(* pmm_alloc(1), whose result nobody looks at. *)
TakePage ==
  /\ Alloc(1) \/ Refuse(1)
  /\ refused' = (refused \/ reply' = 0)

(* The beginning of vmm_init: the root. *)
AllocateRoot ==
  /\ call = 0
  /\ TakePage
  /\ tables' = [tables EXCEPT ![reply'] = Zeroed]
  /\ vmm_kernel_pm' = reply'
  /\ call' = 1
  /\ table' = reply'
  /\ UNCHANGED <<layout, level>>

(* pml4i to pml1i of vmm_map. *)
Index(virt, lvl) == (virt \div Span[lvl]) % Fanout

InCall == call \in DOMAIN Calls

NextTable_NotZeroed(i) ==
  IF "present" \in tables[table][i].flags
  THEN /\ table' = tables[table][i].page
       /\ UNCHANGED <<absVars, tables, refused>>
  ELSE /\ TakePage
       /\ table' = reply'
       /\ tables' = [tables EXCEPT ![table][i] = Pte(reply', {"present", "writable"})]

(* vmm_get_next_lvl of the entry i.  A refused page is page 0, which is    *)
(* cleared and linked in like any other.                                   *)
NextTable(i) ==
  IF "present" \in tables[table][i].flags
  THEN /\ table' = tables[table][i].page
       /\ UNCHANGED <<absVars, tables, refused>>
  ELSE /\ TakePage
       /\ table' = reply'
       /\ tables' = [tables EXCEPT ![reply'] = Zeroed,
                                   ![table][i] = Pte(reply', {"present", "writable"})]

vmm_get_next_lvl ==
  /\ InCall /\ level > 1
  /\ NextTable(Index(Calls[call].virt, level))
  /\ level' = level - 1
  /\ UNCHANGED <<layout, vmm_kernel_pm, call>>

(* The end of vmm_map. *)
WriteEntry ==
  /\ InCall /\ level = 1
  /\ tables' = [tables EXCEPT ![table][Index(Calls[call].virt, 1)] = Calls[call].to]
  /\ call' = call + 1
  /\ level' = 4
  /\ table' = vmm_kernel_pm
  /\ UNCHANGED <<absVars, layout, vmm_kernel_pm, refused>>

vmm_map == vmm_get_next_lvl \/ WriteEntry

vmm_init == AllocateRoot \/ vmm_map

VmmDone == call > Len(Calls)
-----------------------------------------------------------------------------
(* What the processor would find for a virtual page, level by level. *)
Unmapped == Pte(0, {})

EntryOf(page, virt, lvl) == tables[page][Index(virt, lvl)]

Walk(virt) ==
  LET e4 == EntryOf(vmm_kernel_pm, virt, 4)
      e3 == EntryOf(e4.page, virt, 3)
      e2 == EntryOf(e3.page, virt, 2)
      e1 == EntryOf(e2.page, virt, 1)
  IN  IF call > 0 /\ \A e \in {e4, e3, e2, e1} : "present" \in e.flags
      THEN e1 ELSE Unmapped

(* Each call of vmm_map changes the map at its page only, whichever tables *)
(* it shares with others and whichever it allocates, as long as there is   *)
(* memory (vmm.c:56-78).                                                   *)
Space == INSTANCE AddressSpace WITH
  Virtual <- VirtualPages,
  space <- [v \in VirtualPages |-> Walk(v)],
  request <- IF InCall THEN Calls[call] ELSE Call(0, 0, {}),
  broken <- refused

ImplementsAddressSpace == Space!SpaceSpec

(* The page that a virtual page must lead to when vmm_init returns: exactly*)
(* the pages with a byte of a section, and the memory below 4 GiB, twice.  *)
Holds(v, start, end) == \E b \in start..(end - 1) : b \div PageBytes = v

Wanted(v) ==
  LET loaded == v - layout.virt_base + layout.phys_base
  IN  CASE Holds(v, TextStart, TextEnd) -> Pte(loaded, {"present"})
        [] Holds(v, RodataStart, RodataEnd) -> Pte(loaded, {"present", "nx"})
        [] Holds(v, DataStart, DataEnd) -> Pte(loaded, {"present", "writable", "nx"})
        [] v < layout.low -> Pte(v, {"present", "writable"})
        [] v - HhdmBase \in 0..(layout.low - 1) ->
             Pte(v - HhdmBase, {"present", "writable"})
        [] OTHER -> Unmapped

(* The kernel's map is the one it needs, although sections end within a    *)
(* page and the kernel is not loaded where it is linked to: in particular  *)
(* no two sections share a page, so that none takes another's flags        *)
(* (vmm.c:34-50, linker.ld:26-69).                                         *)
KernelMapped == (VmmDone /\ ~ refused) => \A v \in VirtualPages : Walk(v) = Wanted(v)
=============================================================================
