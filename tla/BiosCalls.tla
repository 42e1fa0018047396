----------------------------- MODULE BiosCalls ------------------------------
(***************************************************************************)
(* The services a kernel calls after qboot handed over: the real mode      *)
(* interrupts and the BIOS32 and PCIBIOS entry points (entry.S), with the  *)
(* C handlers they reach (code16.c, code32seg.c).  Assembly and C share a  *)
(* frame on the caller's stack: SAVE_BIOSREGS pushes it, struct biosregs   *)
(* and struct bios32regs (bios.h) name its fields.  The handlers reach it  *)
(* through DS: callers have one segment for data and stack, as Linux does. *)
(***************************************************************************)
EXTENDS Integers, Sequences

CONSTANTS
  Requests,  \* calls a kernel makes: [entry, eax, ebx, ecx, edi, eflags]
  Top,       \* the kernel's stack is the bytes below this address
  Config,    \* PCI configuration space at the start: bytes of each function
  MAX_BUS,   \* pci.c: max_bus, after setup_pci
  NrMap,     \* entries of the e820 map
  Deltas,    \* where a kernel maps physical address 0
  MaxCalls   \* bound on the number of calls

ASSUME BiosCallsAssumption ==
  /\ {Top, MAX_BUS, NrMap, MaxCalls} \subseteq Nat /\ Deltas \subseteq Nat
  /\ Top >= 68
  /\ \A r \in Requests :
       /\ r.entry \in {"irq", "intfake", "int10", "int15", "bios32", "pcibios"}
       /\ {r.eax, r.ebx, r.ecx, r.edi, r.eflags} \subseteq Nat

VARIABLES
  regs,    \* the CPU's registers
  stack,   \* address -> the item stored there
  config,  \* PCI configuration space
  serial,  \* characters sent to port 3f8
  delta,   \* the caller's mapping of physical address 0
  bios_pc, \* "caller", "entry", "save", "handler", "restore" or "return"
  last,    \* history: [entry, regs, stack, config, serial] at the last call
  calls    \* history: number of calls

biosVars == <<regs, stack, config, serial, delta, bios_pc, last, calls>>

\* The frame, in the order of SAVE_BIOSREGS, and the pops of RESTORE_BIOSREGS.
SAVE == <<"fs", "es", "ds", "edi", "esi", "ebp", "esp", "edx", "ecx", "ebx", "eax">>
RESTORE == <<"eax", "ebx", "ecx", "edx", "esp", "ebp", "esi", "edi", "ds", "es", "fs">>

\* Offsets of the fields of struct biosregs ...
biosregs ==
  [eax |-> 0, ebx |-> 4, ecx |-> 8, edx |-> 12, esp |-> 16, ebp |-> 20, esi |-> 24,
   edi |-> 28, ds |-> 32, es |-> 36, fs |-> 40, ip |-> 44, cs |-> 46, eflags |-> 48]

\* Fault: the frame of a far call is taken for one of an interrupt.
bios32regsAsInt == biosregs

\* ... and of struct bios32regs, whose eflags lies below CS:EIP.
bios32regs ==
  [eax |-> 0, ebx |-> 4, ecx |-> 8, edx |-> 12, esp |-> 16, ebp |-> 20, esi |-> 24,
   edi |-> 28, ds |-> 32, es |-> 36, fs |-> 40, eflags |-> 44]

Layout == IF last.entry = "pcibios" THEN bios32regs ELSE biosregs

\* A handler's view of its argument, the frame at ESP ...
Arg(f) == stack[regs.esp + Layout[f]]

\* ... and what its stores make of the frame.
Stored(fields) ==
  [a \in DOMAIN stack |->
     IF \E f \in DOMAIN fields : a = regs.esp + Layout[f]
     THEN fields[CHOOSE f \in DOMAIN fields : a = regs.esp + Layout[f]]
     ELSE stack[a]]

ClearCF(f) == f - (f % 2)
SetCF(f)   == ClearCF(f) + 1
Al(x) == x % 256
Ah(x) == (x \div 256) % 256
WithAl(x, v) == x - Al(x) + v
WithAh(x, v) == x - 256 * Ah(x) + 256 * v

-----------------------------------------------------------------------------

Real == {"irq", "intfake", "int10", "int15"}
WithFrame == {"int10", "int15", "pcibios"}

\* The kernel's INT pushes FLAGS, CS and IP of 16 bits, its far call CS and EIP.
Call(r, d) ==
  /\ bios_pc = "caller" /\ calls < MaxCalls
  /\ delta' = d
  /\ LET asked == [regs EXCEPT !.eax = r.eax, !.ebx = r.ebx, !.ecx = r.ecx,
                               !.edi = r.edi, !.eflags = r.eflags]
     IN  /\ last' = [entry |-> r.entry, regs |-> asked, stack |-> stack,
                     config |-> config, serial |-> serial]
         /\ IF r.entry \in Real
            THEN /\ stack' = [stack EXCEPT ![regs.esp - 2] = r.eflags,
                                           ![regs.esp - 4] = regs.cs, ![regs.esp - 6] = regs.ip]
                 /\ regs' = [asked EXCEPT !.esp = @ - 6]
            ELSE /\ stack' = [stack EXCEPT ![regs.esp - 4] = regs.cs, ![regs.esp - 8] = regs.ip]
                 /\ regs' = [asked EXCEPT !.esp = @ - 8]
  /\ calls' = calls + 1
  /\ bios_pc' = "entry"
  /\ UNCHANGED <<config, serial>>

\* bios_irq: AX is saved around the EOI for the first PIC.
bios_irq ==
  /\ bios_pc = "entry" /\ last.entry = "irq"
  /\ bios_pc' = "return"
  /\ UNCHANGED <<regs, stack, config, serial, delta, last, calls>>

\* Where bios_intfake, bios_int10 and bios_int15 find FLAGS from ESP: 0x4(%esp).
FlagsAt == 4

bios_intfake ==
  /\ bios_pc = "entry" /\ last.entry = "intfake"
  /\ stack' = [stack EXCEPT ![regs.esp + FlagsAt] = SetCF(@)]
  /\ bios_pc' = "return"
  /\ UNCHANGED <<regs, config, serial, delta, last, calls>>

\* bios_int10 and bios_int15 up to SAVE_BIOSREGS.
bios_int ==
  /\ bios_pc = "entry" /\ last.entry \in {"int10", "int15"}
  /\ stack' = [stack EXCEPT ![regs.esp + FlagsAt] = ClearCF(@)]
  /\ bios_pc' = "save"
  /\ UNCHANGED <<regs, config, serial, delta, last, calls>>

\* pcibios_entry up to SAVE_BIOSREGS: clc, pushfl.
pcibios_entry ==
  /\ bios_pc = "entry" /\ last.entry = "pcibios"
  /\ stack' = [stack EXCEPT ![regs.esp - 4] = ClearCF(regs.eflags)]
  /\ regs' = [regs EXCEPT !.esp = @ - 4, !.eflags = ClearCF(@)]
  /\ bios_pc' = "save"
  /\ UNCHANGED <<config, serial, delta, last, calls>>

PCI_SIGNATURE == 1229148196  \* "$PCI"
PCIBIOS_ENTRY == 983040      \* physical address of pcibios_entry, say

\* bios32_entry: flags are pushed and popped around it.
bios32_entry ==
  /\ bios_pc = "entry" /\ last.entry = "bios32"
  /\ regs' = IF regs.ebx # 0 THEN [regs EXCEPT !.eax = WithAl(@, 129)]
             ELSE IF regs.eax # PCI_SIGNATURE THEN [regs EXCEPT !.eax = WithAl(@, 128)]
             ELSE [regs EXCEPT !.eax = WithAl(@, 0), !.ebx = 0, !.ecx = 1048576,
                               !.edx = PCIBIOS_ENTRY]
  /\ bios_pc' = "return"
  /\ UNCHANGED <<stack, config, serial, delta, last, calls>>

\* SAVE_BIOSREGS; pushl %esp stores ESP as it was before.
SAVE_BIOSREGS ==
  /\ bios_pc = "save"
  /\ LET pushed(k) == IF SAVE[k] = "esp" THEN regs.esp - 4 * (k - 1) ELSE regs[SAVE[k]]
     IN  stack' = [a \in DOMAIN stack |->
                     IF \E k \in DOMAIN SAVE : a = regs.esp - 4 * k
                     THEN pushed((regs.esp - a) \div 4) ELSE stack[a]]
  /\ regs' = [regs EXCEPT !.esp = @ - 4 * Len(SAVE)]
  /\ bios_pc' = "handler"
  /\ UNCHANGED <<config, serial, delta, last, calls>>

-----------------------------------------------------------------------------

\* What compiled C leaves in the registers a function need not keep.
Junk == 77
Clobbered(r) == [r EXCEPT !.eax = Junk, !.ecx = Junk, !.edx = Junk, !.eflags = 3]

\* int10_handler: a character for the serial line, or VBE_STATUS_FAIL.
int10_handler ==
  /\ bios_pc = "handler" /\ last.entry = "int10"
  /\ serial' = IF Ah(Arg("eax")) = 14 THEN Append(serial, Al(Arg("eax"))) ELSE serial
  /\ stack' = IF Ah(Arg("eax")) = 79 THEN Stored([eax |-> 335]) ELSE stack
  /\ regs' = Clobbered(regs)
  /\ bios_pc' = "restore"
  /\ UNCHANGED <<config, delta, last, calls>>

SMAP == 1397571920

\* int15_handler; the entry e820_query_map copies is E820's business.
int15_handler ==
  /\ bios_pc = "handler" /\ last.entry = "int15"
  /\ IF Arg("eax") = 59424
     THEN /\ stack' = Stored([eax |-> SMAP, ecx |-> 20,
                              ebx |-> IF Arg("ebx") + 1 >= NrMap THEN 0 ELSE Arg("ebx") + 1])
          /\ regs' = [Clobbered(regs) EXCEPT !.fs = Junk]
     ELSE /\ stack' = Stored([eflags |-> SetCF(Arg("eflags"))])
          /\ regs' = Clobbered(regs)
  /\ bios_pc' = "restore"
  /\ UNCHANGED <<config, serial, delta, last, calls>>

\* Configuration mechanism 1 (pci.h): CF8 takes the function and the doubleword,
\* the ports from CFC on are its bytes.
Doubleword(addr) == ((addr % 256) \div 4) * 4

\* Fault: the byte within the doubleword is lost.
LaneFirst(addr, n) == 0

\* The port, from CFC on, that an access of n bytes uses.
Lane(addr, n) == IF n = 4 THEN 0 ELSE IF n = 2 THEN (addr % 4) - (addr % 2) ELSE addr % 4

Bdf(ebx) == ebx % 65536

ByteOf(x, j) == CASE j = 0 -> x % 256 [] j = 1 -> (x \div 256) % 256
                  [] j = 2 -> (x \div 65536) % 256 [] j = 3 -> (x \div 16777216) % 256

Little(bytes, from, n) ==
  LET b(j) == IF j < n THEN bytes[from + j] ELSE 0
  IN  b(0) + 256 * b(1) + 65536 * b(2) + 16777216 * b(3)

\* pci_config_readb, readw and readl; the functions asked are there.
pci_config_read(bdf, addr, n) == Little(config[bdf], Doubleword(addr) + Lane(addr, n), n)

\* pci_config_writeb, writew and writel.
pci_config_write(bdf, addr, n, val) ==
  LET from == Doubleword(addr) + Lane(addr, n)
  IN  [config EXCEPT ![bdf] = [a \in DOMAIN @ |-> IF a \in from .. from + n - 1
                                                  THEN ByteOf(val, a - from) ELSE @[a]]]

\* The functions of PCIBIOS: AX = B100h + f.
PCI(f) == 45312 + f
Size(eax) == CASE eax \in {PCI(8), PCI(11)} -> 1 [] eax \in {PCI(9), PCI(12)} -> 2
               [] eax \in {PCI(10), PCI(13)} -> 4
Reads  == {PCI(8), PCI(9), PCI(10)}
Writes == {PCI(11), PCI(12), PCI(13)}

\* A kernel asks for registers there are; pci.h keeps 8 bits of the number.
ASSUME RegisterAssumption ==
  \A r \in Requests : r.entry = "pcibios" /\ r.eax \in Reads \cup Writes => r.edi < 256

\* pic_base: where it runs less where it was linked; FLAT_VAR adds that to an
\* address, and the kernel's mapping takes it off again.
LABEL == 1000
pic_base == (delta + LABEL) - LABEL
FLAT_VAR(addr, memory) == memory[addr + pic_base - delta]
MAX_BUS_AT == 5
Memory == [a \in {MAX_BUS_AT} |-> MAX_BUS]

PCI_NAME == 541672272  \* "PCI "

\* pcibios_handler's way out without success.
Failed(status) ==
  Stored([eax |-> WithAh(Arg("eax"), status), eflags |-> SetCF(Arg("eflags"))])

pcibios_handler ==
  /\ bios_pc = "handler" /\ last.entry = "pcibios"
  /\ LET eax == Arg("eax")
     IN  /\ stack' =
              CASE eax = PCI(1) -> Stored([eax |-> 1, ebx |-> 528, edx |-> PCI_NAME,
                                           ecx |-> FLAT_VAR(MAX_BUS_AT, Memory)])
                [] eax \in Reads -> Stored([eax |-> WithAh(eax, 0),
                                            ecx |-> pci_config_read(Bdf(Arg("ebx")), Arg("edi"), Size(eax))])
                [] eax \in Writes -> Stored([eax |-> WithAh(eax, 0)])
                [] eax \in {PCI(2), PCI(3)} -> Failed(134)
                [] OTHER -> Failed(129)
         /\ config' = IF eax \in Writes
                      THEN pci_config_write(Bdf(Arg("ebx")), Arg("edi"), Size(eax), Arg("ecx"))
                      ELSE config
  /\ regs' = Clobbered(regs)
  /\ bios_pc' = "restore"
  /\ UNCHANGED <<serial, delta, last, calls>>

-----------------------------------------------------------------------------

\* RESTORE_BIOSREGS; popl %esp moves the rest of the pops to where it says.
\* pcibios_entry then pops the flags.
RESTORE_BIOSREGS ==
  /\ bios_pc = "restore"
  /\ LET esp   == stack[regs.esp + 16]
         at(k) == IF k <= 5 THEN regs.esp + 4 * (k - 1) ELSE esp + 4 * (k - 6)
         value(r) == stack[at(CHOOSE k \in DOMAIN RESTORE : RESTORE[k] = r)]
         end   == esp + 4 * (Len(RESTORE) - 5)
         flags == last.entry = "pcibios"
     IN  regs' = [r \in DOMAIN regs |->
                    CASE r = "esp" -> IF flags THEN end + 4 ELSE end
                      [] r = "eflags" -> IF flags THEN stack[end] ELSE regs[r]
                      [] r \in {"ip", "cs"} -> regs[r]
                      [] OTHER -> value(r)]
  /\ bios_pc' = "return"
  /\ UNCHANGED <<stack, config, serial, delta, last, calls>>

\* IRET, or LRETL.
return ==
  /\ bios_pc = "return"
  /\ regs' = IF last.entry \in Real
             THEN [regs EXCEPT !.ip = stack[regs.esp], !.cs = stack[regs.esp + 2],
                               !.eflags = stack[regs.esp + 4], !.esp = @ + 6]
             ELSE [regs EXCEPT !.ip = stack[regs.esp], !.cs = stack[regs.esp + 4], !.esp = @ + 8]
  /\ bios_pc' = "caller"
  /\ UNCHANGED <<stack, config, serial, delta, last, calls>>

Registers == {"eax", "ebx", "ecx", "edx", "esp", "ebp", "esi", "edi", "ds", "es", "fs",
              "ip", "cs", "eflags"}

\* The kernel's values are apart from each other and from what qboot leaves.
BiosInit ==
  /\ regs = [eax |-> 0, ebx |-> 0, ecx |-> 0, edx |-> 104, esp |-> Top - 8, ebp |-> 105, esi |-> 106,
             edi |-> 0, ds |-> 108, es |-> 109, fs |-> 110, ip |-> 111, cs |-> 112, eflags |-> 2]
  /\ stack = [a \in 0 .. Top - 1 |-> 200 + a]
  /\ config = Config
  /\ serial = <<>> /\ delta = 0 /\ bios_pc = "caller" /\ calls = 0
  /\ last = [entry |-> "none", regs |-> regs, stack |-> stack, config |-> config, serial |-> <<>>]

\* The kernel has made its calls.
BiosFinished == bios_pc = "caller" /\ calls = MaxCalls /\ UNCHANGED biosVars

BiosNext ==
  \/ \E r \in Requests, d \in Deltas : Call(r, d)
  \/ bios_irq \/ bios_intfake \/ bios_int \/ pcibios_entry \/ bios32_entry
  \/ SAVE_BIOSREGS \/ int10_handler \/ int15_handler \/ pcibios_handler
  \/ RESTORE_BIOSREGS \/ return \/ BiosFinished

BiosSpec == BiosInit /\ [][BiosNext]_biosVars

-----------------------------------------------------------------------------

Returned == bios_pc = "caller" /\ last.entry # "none"

\* Registers in which a call has a result.
Results(c) ==
  LET eax == c.regs.eax
  IN  CASE c.entry = "int10" -> IF Ah(eax) = 79 THEN {"eax"} ELSE {}
        [] c.entry = "int15" -> IF eax = 59424 THEN {"eax", "ebx", "ecx"} ELSE {}
        [] c.entry = "bios32" ->
             IF c.regs.ebx = 0 /\ eax = PCI_SIGNATURE THEN {"eax", "ebx", "ecx", "edx"} ELSE {"eax"}
        [] c.entry = "pcibios" ->
             IF eax = PCI(1) THEN {"eax", "ebx", "ecx", "edx"}
             ELSE IF eax \in Reads THEN {"eax", "ecx"} ELSE {"eax"}
        [] OTHER -> {}

\* Calls that have to come back with CF set.
Fails(c) ==
  \/ c.entry = "intfake"
  \/ c.entry = "int15" /\ c.regs.eax # 59424
  \/ c.entry = "pcibios" /\ c.regs.eax \notin {PCI(1)} \cup Reads \cup Writes

\* A kernel gets back control where it called, with its stack as it was, and
\* with every register it had except those of the result, through frames whose
\* layout is written down three times; CF is set exactly if the call failed.
CallerSees ==
  Returned =>
    /\ \A r \in Registers \ (Results(last) \cup {"eflags"}) : regs[r] = last.regs[r]
    /\ \A a \in last.regs.esp .. Top - 1 : stack[a] = last.stack[a]
    /\ regs.eflags = CASE last.entry \in {"irq", "bios32"} -> last.regs.eflags
                       [] Fails(last) -> SetCF(last.regs.eflags)
                       [] OTHER -> ClearCF(last.regs.eflags)

\* A call does what was asked and nothing else: a PCIBIOS access of a register
\* aligned to its size reads, or changes, the bytes of that register of that
\* function; the bus count is the one of setup_pci wherever the kernel has mapped
\* the firmware; a character goes to the serial line once.
EffectsTrue ==
  Returned =>
    LET eax == last.regs.eax
        bdf == Bdf(last.regs.ebx)
        at  == last.regs.edi .. last.regs.edi + Size(eax) - 1
        access == last.entry = "pcibios" /\ eax \in Reads \cup Writes
    IN  /\ access /\ last.regs.edi % Size(eax) = 0 =>
             IF eax \in Reads
             THEN regs.ecx = Little(config[bdf], last.regs.edi, Size(eax)) /\ config = last.config
             ELSE \A f \in DOMAIN config : \A b \in DOMAIN config[f] :
                    config[f][b] = IF f = bdf /\ b \in at
                                   THEN ByteOf(last.regs.ecx, b - last.regs.edi)
                                   ELSE last.config[f][b]
        /\ ~access => config = last.config
        /\ last.entry = "pcibios" /\ eax = PCI(1) => regs.ecx = MAX_BUS
        /\ serial = last.serial \o IF last.entry = "int10" /\ Ah(eax) = 14 THEN <<Al(eax)>> ELSE <<>>
=============================================================================
