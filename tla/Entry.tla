-------------------------------- MODULE Entry --------------------------------
(***************************************************************************)
(* How an interrupt enters and leaves the kernel: what the processor pushes*)
(* and the stubs of src/sys/idt.asm push, the frame that isr_handler and   *)
(* irq_handler (src/sys/idt.c) find on the stack, and the way back.  The   *)
(* value of a register is written as its name.                             *)
(*                                                                         *)
(* A definition whose name ends in an underscore and a word is a faulty    *)
(* variant of the definition after it.                                     *)
(***************************************************************************)
EXTENDS Naturals, Sequences, SequencesExt

CONSTANT Vectors   \* the interrupts that come

ASSUME EntryAssumption == Vectors \subseteq 0..255

VARIABLES
  stage,       \* "program", or the part of the stub that comes next
  vector,   \* the interrupt being handled
  stack,    \* the stack, its top first
  reg,      \* the general registers
  console   \* what isr_handler printed as RIP, CS and SS

entryVars == <<stage, vector, stack, reg, console>>

pushed_Swapped == <<"rax", "rcx", "rbx", "rdx", "rbp", "rsi", "rdi", "r8", "r9", "r10",
                    "r11", "r12", "r13", "r14", "r15">>
popped_Swapped == <<"r15", "r14", "r13", "r12", "r11", "r10", "r9", "r8", "rdi", "rsi",
                    "rbp", "rdx", "rbx", "rcx", "rax">>

(* The order of the pushes of irq_pusha, and that of the pops of irq_popa. *)
pushed == <<"rax", "rcx", "rdx", "rbx", "rbp", "rsi", "rdi", "r8", "r9", "r10",
            "r11", "r12", "r13", "r14", "r15">>
popped == <<"r15", "r14", "r13", "r12", "r11", "r10", "r9", "r8", "rdi", "rsi",
            "rbp", "rbx", "rdx", "rcx", "rax">>

Registers == Range(pushed)

(* The fields of the structure regs, from the lowest address up (idt.h).   *)
regs == <<"r15", "r14", "r13", "r12", "r11", "r10", "r9", "r8", "rdi", "rsi", "rbp",
          "rbx", "rdx", "rcx", "rax", "int_no", "rip", "cs", "rflags", "rsp", "ss">>

(* What the processor pushes, and the vectors with an error code. *)
iret_frame == <<"rip", "cs", "rflags", "rsp", "ss">>
cpu_error_code == {8, 10, 11, 12, 13, 14, 17, 21, 29, 30}

(* idt_int_table: the vectors of each kind of stub. *)
isr_err_stub == {8, 10, 11, 12, 13, 14, 17, 30}
irq_stub == 32..255

(* Registers that a C function need not preserve. *)
scratch == {"rax", "rcx", "rdx", "rsi", "rdi", "r8", "r9", "r10", "r11"}

Untouched == [r \in Registers |-> r]

(* What the interrupted program has on its stack. *)
Own == <<"own">>

(* r->field, for a handler that was given the address of the stack's top.  *)
Field(field) == stack[CHOOSE i \in DOMAIN regs : regs[i] = field]

EntryInit ==
  /\ stage = "program"
  /\ vector = 0
  /\ stack = Own
  /\ reg = Untouched
  /\ console = <<>>

Interrupt(v) ==
  /\ stage = "program"
  /\ vector' = v
  /\ stack' = (IF v \in cpu_error_code THEN <<"error">> ELSE <<>>) \o iret_frame \o stack
  /\ stage' = "stub"
  /\ UNCHANGED <<reg, console>>

(* An error code of 0 for the stubs that expect none, and the number. *)
Stub ==
  /\ stage = "stub"
  /\ stack' = (IF vector \in isr_err_stub THEN <<vector>> ELSE <<vector, "0">>) \o stack
  /\ stage' = "pusha"
  /\ UNCHANGED <<vector, reg, console>>

irq_pusha ==
  /\ stage = "pusha"
  /\ stack' = Reverse([i \in DOMAIN pushed |-> reg[pushed[i]]]) \o stack
  /\ stage' = IF vector \in irq_stub THEN "irq_handler" ELSE "isr_handler"
  /\ UNCHANGED <<vector, reg, console>>

(* It may change the registers that a function need not preserve. *)
CallIrqHandler ==
  /\ stage = "irq_handler"
  /\ reg' = [r \in Registers |-> IF r \in scratch THEN "any" ELSE reg[r]]
  /\ stage' = "popa"
  /\ UNCHANGED <<vector, stack, console>>

(* It reports an exception and halts; 0xff would return. *)
isr_handler ==
  /\ stage = "isr_handler"
  /\ Field("int_no") # 255
  /\ console' = <<Field("rip"), Field("cs"), Field("ss")>>
  /\ stage' = "halt"
  /\ UNCHANGED <<vector, stack, reg>>

irq_popa ==
  /\ stage = "popa"
  /\ reg' = [r \in Registers |-> stack[CHOOSE i \in DOMAIN popped : popped[i] = r]]
  /\ stack' = SubSeq(stack, Len(popped) + 1, Len(stack))
  /\ stage' = "iretq"
  /\ UNCHANGED <<vector, console>>

(* add rsp, 16 drops two words; iretq needs what the processor pushed.     *)
iretq ==
  /\ stage = "iretq"
  /\ stage' = IF SubSeq(stack, 3, 7) = iret_frame THEN "program" ELSE "fault"
  /\ stack' = SubSeq(stack, 8, Len(stack))
  /\ UNCHANGED <<vector, reg, console>>

EntryNext ==
  \/ \E v \in Vectors : Interrupt(v)
  \/ Stub \/ irq_pusha \/ CallIrqHandler \/ isr_handler \/ irq_popa \/ iretq

EntrySpec == EntryInit /\ [][EntryNext]_entryVars
-----------------------------------------------------------------------------
(* A program that is interrupted finds every register and its stack as they*)
(* were, although the stubs for vectors with and without an error code     *)
(* push different numbers of words, and there is no return to a frame that *)
(* the processor did not push (idt.asm:5-83).                              *)
Transparent ==
  /\ stage # "fault"
  /\ stage = "program" => reg = Untouched /\ stack = Own

(* The frame that a handler is given holds the vector, which irq_handler   *)
(* uses as an index, and the registers of the interrupted program, each in *)
(* the field of its name (idt.h:20-42, idt.c:84, 94).                      *)
FrameMatches ==
  stage \in {"irq_handler", "isr_handler"} =>
    /\ Field("int_no") = vector
    /\ \A r \in Registers : Field(r) = r

(* What isr_handler prints as RIP, CS and SS of an exception is those      *)
(* registers of the program that caused it (idt.c:88).                     *)
ReportsException == stage = "halt" => console = <<"rip", "cs", "ss">>
=============================================================================
