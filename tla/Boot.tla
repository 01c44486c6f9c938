-------------------------------- MODULE Boot --------------------------------
(***************************************************************************)
(* The start of the kernel (_start in src/main.c) and the two interrupts it*)
(* turns on: irq_register and irq_handler of src/sys/idt.c, the timer of   *)
(* src/dev/pit.c, pit_sleep within lapic_calibrate_timer (src/dev/lapic.c),*)
(* and what the I/O APIC, the local APIC and the keyboard controller do    *)
(* with an interrupt.  Both vectors are in one priority class, so that one *)
(* which is in service holds back the other.                               *)
(*                                                                         *)
(* An interrupt's handler runs with interrupts disabled: from delivery to  *)
(* iretq is one step.  The main thread takes a step for each access to what*)
(* an interrupt reads or changes.                                          *)
(*                                                                         *)
(* A definition whose name ends in an underscore and a word is a faulty    *)
(* variant of the definition after it.                                     *)
(***************************************************************************)
EXTENDS Naturals, Sequences

CONSTANTS
  Ms,        \* the argument of pit_sleep (1 in lapic_calibrate_timer)
  MaxKeys    \* bytes the keyboard holds, the one in its output port included

ASSUME BootAssumption == Ms \in Nat /\ MaxKeys \in Nat \ {0}

Timer == 0
Keyboard == 1
Irqs == {Timer, Keyboard}

VARIABLES
  pc,            \* where the main thread is
  irq_handlers,  \* the interrupts whose handler is stored
  interrupts,    \* whether sti has been executed
  masked,        \* I/O APIC: the interrupts that are masked
  requested,     \* local APIC: the interrupts that wait to be delivered
  in_service,    \* local APIC: the interrupts not yet acknowledged
  elapsed,       \* pit_ticks, less start_ticks; Ms stands for Ms or more
  bytes,         \* the keyboard's bytes that have not been read
  missed         \* history: a byte came while its interrupt was masked

apic == <<masked, requested, in_service>>
bootVars == <<pc, irq_handlers, interrupts, apic, elapsed, bytes, missed>>

BootInit ==
  /\ pc = "start"
  /\ irq_handlers = {}
  /\ interrupts = FALSE
  /\ masked = Irqs          \* the boot protocol hands over with all masked
  /\ requested = {} /\ in_service = {}
  /\ elapsed = 0
  /\ bytes = 0
  /\ missed = FALSE
-----------------------------------------------------------------------------
(* Devices. *)

(* An edge on an interrupt's line is lost while the interrupt is masked.   *)
Edge(irq) == requested' = IF irq \in masked THEN requested ELSE requested \cup {irq}

Tick_NoMore ==
  /\ elapsed < Ms
  /\ Timer \notin requested
  /\ Timer \notin masked
  /\ Edge(Timer)
  /\ UNCHANGED <<pc, irq_handlers, interrupts, masked, in_service, elapsed, bytes, missed>>

Tick ==
  /\ Timer \notin requested
  /\ Timer \notin masked
  /\ Edge(Timer)
  /\ UNCHANGED <<pc, irq_handlers, interrupts, masked, in_service, elapsed, bytes, missed>>

(* The keyboard's line rises when its output port gets a byte. *)
Key ==
  /\ bytes < MaxKeys
  /\ bytes' = bytes + 1
  /\ IF bytes = 0 THEN Edge(Keyboard) ELSE UNCHANGED requested
  /\ missed' = (missed \/ Keyboard \in masked)
  /\ UNCHANGED <<pc, irq_handlers, interrupts, masked, in_service, elapsed>>
-----------------------------------------------------------------------------
(* Interrupts. *)

Deliverable(irq) ==
  /\ interrupts
  /\ irq \in requested
  /\ in_service = {}
  /\ \A other \in requested : other <= irq      \* the higher vector first

(* Only a processor that has halted wakes: an interrupt that comes between *)
(* a test and the hlt after it does not keep it from halting.              *)
Wake == pc' = CASE pc = "asleep" -> "sleep" [] pc = "halted" -> "shell" [] OTHER -> pc

(* irq_handler when no handler is stored: it returns, and nothing          *)
(* acknowledges the interrupt.                                             *)
Unhandled(irq) ==
  /\ irq \notin irq_handlers
  /\ requested' = requested \ {irq}
  /\ in_service' = {irq}
  /\ UNCHANGED <<elapsed, bytes>>

pit_handler(irq) ==
  /\ irq = Timer /\ irq \in irq_handlers
  /\ elapsed' = IF elapsed < Ms THEN elapsed + 1 ELSE elapsed
  /\ requested' = requested \ {irq}
  /\ UNCHANGED <<in_service, bytes>>

kb_handler_NoRead(irq) ==
  /\ irq = Keyboard /\ irq \in irq_handlers
  /\ requested' = requested \ {irq}
  /\ UNCHANGED <<in_service, elapsed, bytes>>
kb_handler_NoEoi(irq) ==
  /\ irq = Keyboard /\ irq \in irq_handlers
  /\ bytes' = bytes - 1
  /\ requested' = IF bytes > 1 THEN requested ELSE requested \ {irq}
  /\ in_service' = {irq}
  /\ UNCHANGED elapsed

(* kb_handler reads a byte, and the port gets the next one. *)
kb_handler(irq) ==
  /\ irq = Keyboard /\ irq \in irq_handlers
  /\ bytes' = bytes - 1
  /\ requested' = IF bytes > 1 THEN requested ELSE requested \ {irq}
  /\ UNCHANGED <<in_service, elapsed>>

irq_handler(irq) ==
  /\ Deliverable(irq)
  /\ Unhandled(irq) \/ pit_handler(irq) \/ kb_handler(irq)
  /\ Wake
  /\ UNCHANGED <<irq_handlers, interrupts, masked, missed>>
-----------------------------------------------------------------------------
(* The main thread. *)

Goto(from, to) == pc = from /\ pc' = to

idt_init ==
  /\ Goto("start", "ioapic")
  /\ interrupts' = TRUE
  /\ UNCHANGED <<irq_handlers, apic, elapsed, bytes, missed>>

(* Every interrupt is masked, or none is touched if the I/O APIC does not  *)
(* have the identity that the MADT says.                                   *)
ioapic_init ==
  /\ Goto("ioapic", "pit_unmask")
  /\ masked' \in {Irqs, masked}
  /\ UNCHANGED <<irq_handlers, interrupts, requested, in_service, elapsed, bytes, missed>>

Unmask_Only(irq) ==
  /\ masked' = Irqs \ {irq}
  /\ UNCHANGED <<irq_handlers, interrupts, requested, in_service, elapsed, bytes, missed>>

(* irq_register: the interrupt is redirected, unmasked, and then its       *)
(* handler is stored.                                                      *)
Unmask(irq) ==
  /\ masked' = masked \ {irq}
  /\ UNCHANGED <<irq_handlers, interrupts, requested, in_service, elapsed, bytes, missed>>

StoreHandler(irq) ==
  /\ irq_handlers' = irq_handlers \cup {irq}
  /\ UNCHANGED <<interrupts, apic, elapsed, bytes, missed>>

pit_init ==
  \/ Goto("pit_unmask", "pit_handler") /\ Unmask(Timer)
  \/ Goto("pit_handler", "calibrate") /\ StoreHandler(Timer)

(* pit_sleep(Ms): start_ticks is read; then pit_ticks is tested and the    *)
(* processor halts, two steps, until the test fails.                       *)
lapic_calibrate_timer ==
  /\ \/ Goto("calibrate", "sleep") /\ elapsed' = 0
     \/ Goto("sleep", IF elapsed < Ms THEN "sleep_hlt" ELSE "kb_unmask") /\ UNCHANGED elapsed
     \/ Goto("sleep_hlt", "asleep") /\ UNCHANGED elapsed
  /\ UNCHANGED <<irq_handlers, interrupts, apic, bytes, missed>>

kb_init ==
  \/ Goto("kb_unmask", "kb_handler") /\ Unmask(Keyboard)
  \/ Goto("kb_handler", "shell") /\ StoreHandler(Keyboard)

(* kb_get_string looks at the mailbox, and halts: two steps. *)
shell_launch ==
  /\ Goto("shell", "hlt") \/ Goto("hlt", "halted")
  /\ UNCHANGED <<irq_handlers, interrupts, apic, elapsed, bytes, missed>>

_start == idt_init \/ ioapic_init \/ pit_init \/ lapic_calibrate_timer \/ kb_init \/ shell_launch

BootNext == Tick \/ Key \/ (\E irq \in Irqs : irq_handler(irq)) \/ _start

(* The processor executes and delivers what can be delivered, and the timer*)
(* ticks.                                                                  *)
Fairness ==
  /\ WF_bootVars(_start)
  /\ WF_bootVars(Tick)
  /\ \A irq \in Irqs : WF_bootVars(irq_handler(irq))

BootSpec == BootInit /\ [][BootNext]_bootVars /\ Fairness
-----------------------------------------------------------------------------
BootTypeOK ==
  /\ pc \in {"start", "ioapic", "pit_unmask", "pit_handler", "calibrate", "sleep",
             "sleep_hlt", "asleep", "kb_unmask", "kb_handler", "shell", "hlt", "halted"}
  /\ irq_handlers \subseteq Irqs
  /\ interrupts \in BOOLEAN
  /\ masked \subseteq Irqs /\ requested \subseteq Irqs /\ in_service \subseteq Irqs
  /\ elapsed \in 0..Ms
  /\ bytes \in 0..MaxKeys
  /\ missed \in BOOLEAN

(* An interrupt that nobody acknowledges can only have come between the two*)
(* steps of its own irq_register; it stays in service for good.            *)
Stuck == in_service # {}

OnlyInWindow ==
  [][in_service' # in_service =>
       \/ in_service' = {Timer} /\ pc = "pit_handler"
       \/ in_service' = {Keyboard} /\ pc = "kb_handler"]_bootVars

(* The kernel reaches the shell unless an interrupt comes between the two  *)
(* steps of irq_register: the tick that ends the sleep may come between    *)
(* pit_sleep's test of pit_ticks and its hlt, and then the next tick wakes *)
(* the processor (pit.c:25-32, idt.c:73-77).                               *)
Boots == <>(pc = "shell" \/ Stuck)

(* The processor never halts for good, although what it waits for may have *)
(* come between its last test and the hlt (kb.c:71, pit.c:29-30).          *)
WakesUp == (pc \in {"asleep", "halted"}) ~> (pc \notin {"asleep", "halted"} \/ Stuck)

(* Every byte of the keyboard is read, unless one came before the keyboard *)
(* was unmasked: its edge is lost, the port stays full, and no edge follows*)
(* (kb.c:18, idt.c:73-77).                                                 *)
KeysRead == (bytes = MaxKeys) ~> (bytes < MaxKeys \/ missed \/ Stuck)
=============================================================================
