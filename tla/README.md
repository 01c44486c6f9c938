# Medlar64: specifications, model checks and proofs

Medlar64 is a small 64-bit kernel in C, started by the Limine boot loader. It
initialises memory management, interrupts and a framebuffer terminal, and then
runs a shell that reads lines from a PS/2 keyboard. This directory holds TLA+
modules translated from its source, the TLC configurations that check them on
small instances, and proofs about them for TLAPS. Paths below are relative to
the kernel's own source directory, `src/` of the repository.

## The system

One processor runs one thread of execution, `_start` (main.c), which ends in the
shell's loop. The only concurrency is between that thread and two interrupt
handlers, the timer's and the keyboard's; a handler runs with interrupts
disabled. The kernel is built with `-O0` (every access in the source is an
access to memory) and with `-fsanitize=undefined` (undefined behaviour in most
functions prints a report and halts the processor).

| component | state | operations | used by |
|---|---|---|---|
| physical memory manager (mm/pmm.c, mm/bitmap.h) | bitmap, search cursor, page count | `pmm_init`, `pmm_alloc`, `pmm_free` | heap, page tables |
| kernel heap (mm/heap.c, mm/kmalloc.c) | ring of block headers in the pages themselves | `heap_create`, `heap_alloc`, `heap_free`, `heap_realloc` | shell, scheduler |
| page tables (mm/vmm.c) | a tree of pages | `vmm_init`, `vmm_map`, `vmm_get_next_lvl` | `_start`; never loaded |
| interrupt entry (sys/idt.asm, sys/idt.c) | stack frame, table of handlers | stubs, `isr_handler`, `irq_handler`, `irq_register` | processor, drivers |
| timer and local APIC (dev/pit.c, dev/lapic.c) | `pit_ticks`, `lapic_ticks` | `pit_handler`, `pit_sleep`, `lapic_calibrate_timer`, `lapic_eoi` | `_start`, handlers |
| I/O APIC and ACPI (dev/ioapic.c, acpi/*.c) | redirection table, lists from the MADT | `ioapic_init`, `ioapic_redirect_irq`, `madt_init`, `acpi_find_table` | `irq_register`, `_start` |
| keyboard (dev/char/kb.c) | `kb_char` (a mailbox of one character), `kb_shift`, `kb_ctrl`, `kb_caps` | `kb_handler`, `kb_get_string` | shell |
| shell (utils/shell.c) | a buffer of 1024 bytes | `shell_launch` | `_start` |
| terminal (flanterm/flanterm.c) | parser state, attributes | `flanterm_write`, control functions | `printf`, `dprintf`, reports |
| framebuffer terminal (flanterm/backends/fb.c) | pool of memory, grid, queue of changes, map from cells to the queue, cursor | `flanterm_fb_init`, `raw_putchar`, `clear`, `scroll`, `double_buffer_flush`, ... | terminal |
| printf (lib/printf.c) | the format string and the arguments of a call | `printf`, `dprintf`, `snprintf`, ... | everywhere |
| libc, serial port, mubsan, gdt, sched | none or constant | | everywhere |

What must be right, per component:

* **Page allocator**: no page is owned twice, lost, or handed out while it holds
  the bitmap or does not exist; a request is refused only when no run of free
  pages is long enough; every search ends.
* **Heap**: the ring always holds exactly the blocks in use; blocks never
  overlap; contents survive whatever is done to other blocks; what is freed is
  what was allocated; failure is reported.
* **Interrupt entry**: an interrupted program cannot tell; a handler sees the
  frame it declares.
* **Boot**: the kernel reaches the shell, every interrupt is acknowledged, no
  sleep lasts for ever.
* **Keyboard**: keys take effect once and in order if the typist is slow
  enough; whatever the timing, the line stays in its buffer and terminated.
* **Page tables**: a call of `vmm_map` changes the map at its page and nowhere
  else; the kernel's map holds exactly its sections, with their flags, and the
  memory below 4 GiB.
* **I/O APIC, ACPI**: the lists are the table's; every interrupt the kernel
  registers is routed as the firmware's tables say, and no other is.
* **Framebuffer terminal**: it fits the pool it has for memory and the framebuffer;
  what is on the screen after a flush is what a plain screen would show.
* **printf**: what is printed is what the C standard says; a buffer is never
  written past its size and always terminated.

The hard behaviours are the interleavings of the handlers with the main thread
(keyboard mailbox, `irq_register`, sleeping), long sequences of calls on the
allocators, and arithmetic at boundaries. Nothing is persisted and no message is
sent, so there is no crash recovery and no lost message to model. PROJECT.json
lists each hazard at its line with the properties that cover it.

## Modules

| module | models | state and actions |
|---|---|---|
| `PmmInit` | what `pmm_init` computes from the memory map | operators only: page count, size and place of the bitmap, the pages free at boot |
| `Pmm` | mm/pmm.c, the search one loop iteration per step | variables of the source, plus `pc`, the locals of `pmm_find_pages`, and histories: the runs held, the cursor at the call, the latest answer |
| `PageAllocator` | what `pmm_alloc` and `pmm_free` promise: a next-fit allocator in one step per call | `Alloc`, `Refuse`, `Free`; `Pmm` implements it and `Heap` is built on it |
| `Heap` | mm/heap.c and mm/kmalloc.c over `PageAllocator` | memory as units, a header in one of them; `heap_realloc` in two steps (allocation, then copy and free) |
| `Keyboard` | dev/char/kb.c and the shell's loop, for typists who are calm and ones who are not | `kb_handler` is one step (interrupts are off); `kb_get_string` takes a step for each access to a variable that the handler writes |
| `LineEditor` | what the keyboard promises a typist | implemented by `Keyboard` when the typist is calm |
| `Vmm` | mm/vmm.c over `PageAllocator` | a step goes down one level of tables, or writes an entry; `Calls` is what the loops of `vmm_init` ask for |
| `AddressSpace` | what `vmm_map` promises: a map from virtual to physical pages | implemented by `Vmm` while no table is refused |
| `Acpi` | acpi/acpi.c and acpi/madt.c | the root table, then the walk over the MADT, one entry per step, also over what follows it |
| `Ioapic` | dev/ioapic.c and the first half of `irq_register` | the redirection entries of every device, a word per step |
| `FbInit` | `flanterm_fb_init`: limits, scale, geometry, the allocations from its pool | a step is one allocation; the last is what the cursor's first drawing makes of the pointers |
| `Setup` | the part of `_start` that depends on what the boot loader and the firmware have left: `FbInit`, then `Vmm`, then `Acpi`, then `Ioapic` | on triples of a kernel's layout, a machine and a framebuffer |
| `Boot` | `_start` from `idt_init` on, `irq_register`, `irq_handler`, the timer, `pit_sleep`, and what the interrupt controllers do | a program counter for the main thread; delivery to `iretq` is one step |
| `Interrupts` | `Boot` and `Entry` side by side: they share no state, an interrupt being one step of the one and all there is of the other | either's steps |
| `Entry` | sys/idt.asm, the structure `regs`, `isr_handler` | the stack since the interrupt and the registers, one step per macro |
| `EscParser` | flanterm/flanterm.c by bytes: escapes, control sequences, operating system commands, character sets, UTF-8 | a step is one byte; `out` is what it asks of the screen |
| `Terminal` | what flanterm/flanterm.c does to the screen | text, cursor, scroll region, insertion mode, saved cursors; a step is one sequence or character, built from calls of the back end |
| `Paper` | what callers of `printf` expect: a sheet of paper | implemented by `Terminal` for programs that only print, end lines and go back in them |
| `Sgr` | the colours: `sgr`, ESC 7, ESC 8, ESC c | attributes of the front end and the two colours of the back end; a step is one parameter |
| `Format` | lib/printf.c as the kernel configures it: `format_string_loop` and the conversions | a step is one directive or one character of the format string; `buffer` is what the gadget has kept |
| `Flanterm` | the way of a text to the screen: printf and `struct flanterm_context` without what only the back end uses | `Format`, `EscParser`, `Sgr` and `Terminal` share no field but `insert_mode` and the character set, so that a behaviour exercises one of them (`part`) on one of its instances |
| `FbTerm` | flanterm/backends/fb.c | grid, queue, map, framebuffer; loops over cells take a step for each |
| `Screen` | what the back end promises: a grid that is drawn at once and shown by a flush | implemented by `FbTerm` |
| `PmmProofs`, `HeapProofs`, `KeyboardProofs`, `DeviceProofs`, `FlantermProofs`, `SetupProofs` | theorems about the module they are named for; `DeviceProofs` has those about `FbTerm`, `FbInit` and `Boot`, `SetupProofs` those about `Vmm`, `Acpi` and `Ioapic` as parts of `Setup`, and about `Entry` | |
| `FrontProofs`, `FormatProofs` | theorems about the modules without a link to the screen: `EscParser` and `Sgr`, and `Format`; `FlantermProofs` uses them | |
| `MC*` | small instances | |

A definition named `X_Word` just before `X` is a faulty variant of `X`, of the
kind a slip in the source would be; PROJECT.json says which property it breaks.

Abstractions. Addresses are counted in pages (`PmmInit`) or in units of the size
of a block header (`Heap`): every address the code forms is a multiple of them,
except that sizes are rounded up to units. Characters are a few named ones, each
standing for those that `kb_get_string` treats alike. Output to the terminal and
the serial port is left out. In `Vmm` a page table has few entries (`Fanout`), and
HIGHER_HALF, which is added and taken away, cancels out. In `Acpi` a table is the
sequence of its entries with their lengths in bytes, and a checksum, which nothing
tests, has no place. In `Format` types are as wide as `Bits` says, an address is a
long, and characters are strings of length one. `FbInit` takes the sizes of the
structures as gcc lays them out on x86-64. Reading a bit past the end of the bitmap
yields any value, since it belongs to somebody else.

The environment. Limine's memory map has aligned, disjoint usable entries and
page 0 is not among them (`MemmapAssumption`), and the largest entry has room for
the bitmap (`BitmapFitsAssumption`), which the code does not check. The linker
puts the kernel above the higher half's copy of the memory it maps, and within
what the tables reach (`LayoutAssumption`, linker.ld). An MADT's entries have
lengths, lead to I/O APICs that exist, and have no reserved polarities and trigger
modes (`MachinesAssumption`); nothing is assumed of the memory after it. Callers free
what they got, and write only to their own blocks. The local APIC, the I/O APIC
and the keyboard controller (in `Boot`) are modelled from how they are
programmed: edge-triggered lines, an edge is lost while it is masked, an
interrupt in service holds back those of its priority class, and vectors 32 and
33 are of one class. The boot protocol hands over with every redirection entry
masked, and I/O APICs number the entries of one after those of another.

## Runs

| run | instance | what it shows |
|---|---|---|
| `pmm` | 14 pages, two holes, the bitmap in the middle, requests of 1 to 3 pages | accounting, no double allocation, only usable pages, the inductive invariant of the proofs (with the type invariant: the cursor never passes the page count); refusal only when full; every search ends; refinement of `PageAllocator` |
| `pmm_exact` | 8 pages, 8 bits | **violation**: without a spare bit the search hands out pages that do not exist |
| `heap_grow` | 9 pages of 2 units, 3 blocks, sizes 1 and 2, 2 values, no shrinking | ring in both directions (with the type invariant), no leak, contents kept |
| `heap_shrink` | the same, with shrinking | **violation**: `krealloc` to a smaller size destroys its neighbour's header |
| `heap_full` | the same, without shrinking | **violation**: a refused page allocation is not reported |
| `keyboard` | buffer of 3; a typist with every key who waits until each has been taken, and one who presses keys at any moment | line within the buffer and terminated, no stuck modifier, the mailbox always emptied; for the calm typist, refinement of `LineEditor`: each key takes effect once and in order |
| `interrupts` | sleeps of 2 ticks, 3 keys; beside it the first and the last vector of every kind of stub | an interrupt is lost only in `irq_register`'s window; the kernel boots, wakes up and reads its keys otherwise, also if a tick comes between `pit_sleep`'s test and its `hlt`; transparency (with no bad return), frame layout |
| `setup` | the usual layout of the kernel, machine and framebuffer, with one of them replaced by one of 3 other layouts; of 19 other machines (root tables by revision, 6 kinds of memory after the MADT, overrides, two I/O APICs, last entries); of 67 other framebuffers (sizes around the limits and the steps of the font's scale, other colours) | the terminal fits its pool and the framebuffer; the kernel's map is what its sections need; refinement of `AddressSpace`; the lists are the table's; both interrupts routed as the tables say, no other pin unmasked (where the walk has not been misled, `Misled`, and the tables do not send both to one entry, `Shared`); on a supported machine the set-up ends |
| `entry_report` | all 256 vectors | **violation**: an exception's report is shifted by one word |
| `screen` | 2x2 cells, 3 calls between flushes, cursor on and off; 3x2 cells, every region, scrolling both ways; 1 cell, all colours | queue and map agree, so that the queue has room; refinement of `Screen`: a flush shows the screen |
| `flanterm` (parser) | values of 2 places, sequences of 7 bytes; private and cancelled sequences; characters of 1 to 3 bytes, two character sets, OSC | consistent flags and no overrun of `esc_values`; values as the grammar says; private only when asked; characters decoded as encoded |
| `flanterm` (colours) | two colours; one colour with ESC 7 and ESC 8 | reverse video mirrors the colours; bold and blink keep the hue |
| `flanterm` (screen) | 5x6 empty; 3x4; all 3x3 texts of one character; 2x3 and 3x3 of two | bounds of cursor, region and saved cursors; vertical moves and scrolls respect the region; erasing and editing touch exactly their cells; refinement of `Paper` |
| `flanterm` (printf) | every set of flags with every conversion; widths and precisions in the string, up to beyond a `printf_size_t`, and in arguments, down to the least int; every value, also beyond its type; strings; format strings cut short, into buffers of -1 to 8 characters; more output than a `printf_size_t` counts | printed as the C standard says; the buffer is kept and terminated |
| `printf_precision` | `%.*s` with -1, 0 and 1 | **violation**: a negative precision is not what the C standard says |

Why the bounds are enough. The page allocator's decisions depend on the lengths
of free rows against the request, and on where the cursor stands: the map has
rows shorter than, equal to and longer than requests, at both ends of memory and
beside the bitmap, and runs are freed in any order, so that rows merge and
split. In the heap three blocks are enough for a block with two neighbours that
are blocks, sizes 1 and 2 take one and two pages of two units (with the header),
and memory fills up. A buffer of 3 has an empty, a partial and a full line. Two
places for values give sequences with fewer, as many and more values than fit,
and seven bytes a value that wraps around. `Terminal`'s screens are at least as
wide as high (as any real one is), with rows above, in and below the region, and
the row below the screen; `FbTerm` also has one that is higher than wide, and
2x2 cells let an item be queued, drawn, overwritten and scrolled over within the
calls between two flushes. An integer buffer of 6 is shorter than, as long as and longer than
what is printed. Sections that end within a page and at its end, tables that are shared
and tables for which memory runs out occur in the four layouts; in the machines
and the framebuffers each condition of `Supported` fails, and the framebuffers
are smaller, as large and larger than the limits on each side. With
two ticks to sleep `pit_sleep` tests the counter before, between and after them,
and three keys fill the keyboard behind a full output port.

Fairness. `Pmm` assumes that a search in progress goes on: nothing else runs.
So does `Setup`, which runs before any interrupt is unmasked.
`Keyboard` and `Boot` assume that the processor executes and that the timer
ticks (it is programmed for 1000 ticks a second and never stopped), both weakly
fair. Nothing obliges a caller to allocate or free, or anybody to type. `interrupts`,
`keyboard` and `setup` do not check for deadlock: after an interrupt that nobody
acknowledges, an exception, or a key outside the tables, the real system hangs as
well. Nor do the heap's runs (the model stops where a block has been written over
page 0).

What the violations say about the code is under "findings" in PROJECT.json, each
with the line of the source it contradicts. `pmm_exact` is not far-fetched: with
the 4 GiB of memory that the Makefile gives to QEMU, memory ends at a multiple of
the 128 MiB that a page of the bitmap covers.

Behaviours the models contain that no run flags as a violation. Of these, two go
against a comment: printf halts the kernel at the least long, of which printf.c:297-299
says that it is valid and well-defined, and reads past the end of a format string
that ends after a flag or a digit, although printf.c:125-128 wants to be extra-safe
and not to assume that directives are completed (`PrintsAsStandard` names both; the
check at 1041-1045 is missing after `parse_flags` and `atou_`). It also halts at the
least int as a width in an argument, and counts a width or a precision in the string,
and the characters it has printed, in 32 bits. Nothing in the repository speaks
against the others: a key that arrives while another is being
handled replaces or is lost with it (a calm typist does not type so, and
`EditsLines` is about one); an interrupt between the two steps of `irq_register`
is never acknowledged and blocks both interrupts for good (`Stuck` in `Boot`); a
key pressed before the keyboard is unmasked leaves the keyboard silent
(`missed`). A kernel without an RSDT stops, even if there is an XSDT, and the
table that the revision chooses must lead to an MADT; the walk over the MADT
goes 36 bytes past its end, where a zero keeps it for ever and what looks like
an override is taken for one; a 65th entry of either list halts the processor;
the last entry of an I/O APIC is never found (`Supported` and `Foreign` name all
of these). The pool of `flanterm_fb_init` returns whatever address is next: with
an odd number of characters on the screen (1920x1080 has 213x67, 1920x1200 has
213x75) the queue and the map lie at multiples of 4 only, the build's check for
misaligned pointers (lib/mubsan.c:87) reports the first use of the map, while
there is no terminal to print the report on, and the kernel does not start
(`"report"` in `FbInit`). In the terminal: a cursor in the first row below the scroll region that is moved down
moves up into it, and one below the region wraps to a row below the screen (the
exceptions in `VerticalMoves`); on a screen with more rows than columns text
that wraps goes back to the row whose number is the last column's; erasing with
a full row starts in the next one; J stops at the end of the region;
1J erases the cursor's own cell while 1K leaves it (flanterm.c:729-733, which
`EditsExactly` takes for the meaning of 1K); P with more
characters than are left erases some before the cursor; M deletes the first line
of the region wherever the cursor is (`EditsExactly` names what it leaves out).
A private sequence that is cancelled makes the next one private (`dropped`). SGR
1, 5, 22 and 25 on a default colour, and 38 and 48, do not respect reverse video
(`exact`), and ESC c resets the attributes without the colours (`stale`).

Some of the hazards in PROJECT.json happen in the code as it is, and the properties
that name them do not catch but confine them: they say that nothing goes wrong but in
that very case. These are a scan code beyond the tables (kb.c:35), a key before the
keyboard is unmasked (kb.c:18), the last interrupt of an I/O APIC (ioapic.c:27), the
65th entry of a list (madt.c:22), a refused table (vmm.c:60), the colours that
bold and blink repaint from (flanterm.c:141), a machine without an RSDT or an MADT
(acpi.c:54), and an odd number of characters (fb.c:53).

## Proofs

Each theorem is about every value of the constants that the named assumptions of
its module allow; the properties that are proved are those that TLC checks as well,
on the instances above.

**Page allocator** (`PmmProofs`), for every memory map, size of a byte and of a page,
and largest request whose bitmap has a bit to spare (`Padded`; `pmm_exact` shows why
it is needed):

* `Invariance`: the inductive invariant `Inv`, and from it `TypeCorrect`,
  `BitmapAccounts`, `NoDoubleAllocation`, `OnlyUsablePages`;
* `RefusalMeansFull`, an action property;
* `Refinement`: the search loop implements `PageAllocator`.

`Accounting` and `HeldDisjoint` are not inductive by themselves: that the pages
of an allocation were free is known only from the search. `Inv` adds that the
bits of the row being counted are clear and the row lies within memory
(`RowInv`), and that no run of the requested length starts between the page the
search began at and the cursor, nor, in the second search, anywhere at or after
the first one's origin (`ScanInv`). The step that matters is `Skip`: a used bit at
cursor + pages lies in every run that starts at a page that is skipped, and it is
a bit of a page that exists or the first one past the end, which `Padded` puts in
the bitmap, so that its value is known. One lemma per action preserves `Inv`. The
refinement maps the cursor, during a search, to its value at the call; only the
end of a search is a step of the abstract allocator.

**Heap** (`HeapProofs`), for every memory map, size of a page, sizes of blocks and
contents, as long as no caller makes a block smaller (`~ Shrinks`; `heap_shrink`
shows what happens otherwise): `OneRing`, `NoPageLeaks`, `KeptContents`. The
inductive invariant `IInv` has three parts. The runs the page allocator has handed
out are disjoint and within what is used (`AllocInv`). The heap is sound (`Sound`):
the headers form a circle through the list head, given by a successor and a
predecessor that are inverse to each other (`Circle`), each header has its block's
size, each block its contents, and the runs held are those of the blocks, of the
heap structure and of the list head; that every write and every freed run is one
block's own then follows from the disjointness. Between the two steps of
`heap_realloc` the old block is still there and the new one is large enough for it
(`Copying`). The lemmas `Inserted` and `Removed` are about a circle alone; `Grown`,
`Gone` and `Rewritten` take a sound heap to the next. After a refusal that went
unnoticed the ring, and nothing else, is still claimed.

**Boot** (`DeviceProofs`), for every length of the sleep and capacity of the keyboard:
`TypeCorrect` and `AcknowledgedOutsideWindow`. `WindowInv` says how far `_start` is
when an interrupt is unmasked, requested, and has its handler; `PortInv` that the
keyboard's interrupt is requested only with a byte to read.

**Keyboard** (`KeyboardProofs`), for every size of the buffer and keys at any
moment: `AlwaysTerminated` and `ModifiersReleased`. `RoomInv` keeps the outcome of
the test of the position until the store, which is several accesses later, and
which no handler can spoil since handlers do not move the position; `HeldInv` ties
each flag to the keys held down. `EditsAsTyped`, the refinement of `LineEditor` for a
calm typist: by `CalmInv` nothing that such a typist does changes the mailbox while
`kb_get_string` is between two of its accesses, so that the outcome of each test still
holds when it acts on it; `LineIs` then reads the abstract line off the buffer, and
the accesses before the store are stutters.

**Terminal emulator: bytes and colours** (`FrontProofs`), for every byte that may be
written, every size of `esc_values` and every palette:

* `AlwaysOneState`, and `PrivateWhenAsked`, whose invariant `PInv` has `escape_offset`
  count the bytes of the escape, so that the test for 1 means the byte after the
  bracket.
* `ValuesAsGrammar`: the values are the fields between the semicolons. The property is
  a fold over all the bytes so far; `Reading` says what `esc_values`, its index and
  `rrr` are after a prefix of them, `OneByteMore` takes the fold a byte further, and
  `DigitOfRemainder` that the remainder may be taken after each digit. The existence of
  a fold comes from `Induction`, over sets of numbers.
* `Utf8IsDecoded`: in `Utf8Inv` the code point is the worth of the bytes so far in
  their places (`Worth`), whatever other bytes came between.
* `AlwaysMirrored`, whose invariant says the same of what ESC 7 has saved, and
  `BrightnessOnly`, where `HueInv` says what the fields of the front end know about
  the two colours of the back end.
* `FieldsInRange` and `ColoursInRange`: the types, which need the invariants above.

`FlantermProofs` has each of these for the terminal as a whole, and those about printf
below: the composition implements the parser, the colours and printf, since each of its
steps is one of theirs or leaves their variables alone.

**printf** (`FormatProofs`), for every format string, list of arguments, size of buffer,
width of the types and `PRINTF_INTEGER_BUFFER_SIZE`: `AlwaysStandard` and `AlwaysKept`.
The assumptions are that the types have bits, an int two of them, and the integer buffer
room, and `JobOK` of the call: the C standard gives its directives a meaning, its arguments
have the types they name (a width or a precision in an argument is any int, negative or not),
and the format string may end in a directive that is cut off. The invariant `PrintIInv` says that after n directives the
format string is what was written of the rest, the arguments are theirs, and what has
been printed is what the standard says of the first n. Its step has two parts.

* `DirectiveRead`: `Parse` gives back the flags, the width, the precision and the length
  of a directive that was written out, whatever follows it, and `CutRead` that it finds
  the end of a directive that was cut off. A number is read as it was written, modulo
  2^32 (`AtouIs`), since its digits, in order, are its value; `AsRead` is the directive that
  the code makes of what was written, `AsMeant` the one that the standard makes of it.
* `ConversionStandard`: each conversion prints what the standard says. `FinalizedShape`
  is the heart: `print_integer_finalization` works on the digits backwards, and adds zeros, the
  prefix, the sign and spaces to a buffer that may be full; what it leaves is
  sign, prefix, zeros and digits, in the standard's order, if these fit
  (`UnpaddedShape`, `PaddedShape`). Where they do not, or a binary zero has a precision
  and a prefix, the code and the standard part (`FitsBuffer`). They do as well where the
  two readings differ and it shows: a negative precision in an argument
  (`printf_precision`), a number of 2^32 or more. These are the exceptions in `Regular`,
  and the proof needs no other. The kernel halts only at the least long as a value and
  the least int as a width.

Digits, powers and sequences that are joined are recursive functions and folds; the
lemmas about them use `Induction`, as those of `SetupProofs` do.

**Terminal emulator: the screen** (`FlantermProofs`), for screens of any size, and any
characters and values:

* `FieldsInRange`, by the inductive invariant `TerminalInv`: the cursor is on the screen
  or right of its row, the saved ones as well, and the region is within the screen and
  has two rows or is the whole of it. Between the calls of the back end that a command
  is made of only less is true (`Grid`): while blanks are printed the cursor may be
  far right of its row.
* `StaysInTheRegion`, an action property: where each vertical move ends (`EndsUp`,
  `EndsDown`), line feeds, and a text that wraps.
* `EditsTheirCells`, an action property: a command is a loop over single characters,
  and what it leaves is one set of cells erased or one row moved. A loop is a function
  that counts up, and is taken as the sequence of the screens after each round
  (`Iterates`, `Rounds`); each kind of loop has the text after k rounds as its
  invariant (`Blanked` and `Over` for blanks in a row and over the ends of rows,
  `OpenedTo`, `ClosedTo`, `ShiftedTo` for rows that move). `OpenedTo` shows why @ has
  to go from the right, and P from the left.
* `IsASheetOfPaper`, the refinement of `Paper`: as long as it only prints, the region is
  the whole screen, insert mode is off and the rows below the cursor are blank
  (`PaperInv`), so that the row that comes into view is the blank line of the sheet.

Like the properties themselves, the last three leave out what wraps on a screen with more
rows than columns, since fb.c:799 compares a row with the number of columns.

**Framebuffer terminal** (`DeviceProofs`), for screens of any size:
`QueueAndMapAgree`, by an invariant on the loops (`LoopInv`), which stay on the grid,
and on the links between queue and map (`FbInv`); and `DrawsWhatIsAsked`, the
refinement of `Screen`. The text of the screen is mapped to `Outcome`, what the grid
will be when the loop in progress and the queue are done, so that a step of a loop is
a stutter; `Seen` says that the framebuffer shows the grid but in the cell of the
old cursor, from which it follows that a flush shows the text. `TerminalFits`, for
every framebuffer: in `PoolInv` the pointer into the pool is the sum of the requests
so far, at most 213 x 75 characters fit the limits, and 41752 bytes and 52 for each
of these are less than the pool; of an odd number of characters only is 41752 + 44 n
not a multiple of 8.

**Set-up** (`SetupProofs`), for every layout, machine, memory map and number of
entries in a table:

* `VmmInvariant`, and from it `KernelIsMapped` and the refinement
  `VmmImplementsAddressSpace`. In `VmmInv` the tables are a tree (`TreeInv`): each
  page in use has a level, and a page address at which the walk reaches it, so that an
  entry that is written lies on the path of no other page; the call in progress has
  come down that tree (`OnPath`), and the map has the pages of the calls that are over
  and no others (`CalledInv`). A page that the allocator grants is none of the
  tree's, since the tree's are in use. After a page has been refused, nothing is claimed.
* `TableIsListed`: `WalkInv` says that in front of an entry the lists hold what the
  entries before it ask for (`Listing`) and the offset is the sum of their lengths,
  and past the table that they go on from there (`Extends`). Sums and lists are
  recursive functions; the lemmas about them use `Induction`, which is
  derived, for sets of numbers, from the well-foundedness of finite sets.
* `InterruptsAreRouted`: in `RouteInv` an entry is as it must be but for its
  processor while only its low word is written (`HalfRouted`), and no step for the other
  interrupt undoes it, since their pins differ. The proof found two exceptions that
  the property needs: a walk that is misled about one interrupt may overwrite
  the entry of the other, and tables may send both to one entry.
* `EntryIsTransparent` and `HandlersFindTheirFrame`: `EntryInv` gives the stack at each
  stage of the way in and back.

Model-checked only: liveness (`SearchEnds`, `Boots`, `WakesUp`, `KeysRead`,
`MailboxEmptied`, `SetupEnds`), which the proof system does not reach. Every other
property of a run that expects to pass has a theorem.

## Not modelled

* The callback of the terminal, which the kernel never installs, and
  `flanterm_fb_deinit`, `lapic_oneshot`, `irq_unregister`, `vmm_switch_pm`, `memmove`,
  `kb_get_char`, which nothing calls.
* The pixels of a glyph and the conversion of colours to the framebuffer's format.
* Floating point and `%n` in printf: the build has no floating point, and
  nothing in the kernel uses the other.
* A refused page in `heap_create`, which runs when memory is still free, and the sign
  that `set_cursor_pos` (fb.c:619) sees in an argument of 2^31 or more:
  `TerminalAssumption` leaves such arguments out.
* The tick count that `lapic_calibrate_timer` computes, which nothing uses.
* Reports of undefined behaviour from an interrupt handler, which would write to the
  terminal in the middle of a call of `flanterm_write` and then halt: the terminal's
  calls are uninterrupted in the model. The texts of all reports.
* The scheduler, a stub that allocates one task and schedules nothing; the serial port
  (port input and output); the segment table (a constant); the declarations of the
  boot protocol.

What would be next: the terminal with a handler's report in the middle of a call.
