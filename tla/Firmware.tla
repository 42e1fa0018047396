------------------------------ MODULE Firmware ------------------------------
(***************************************************************************)
(* From reset to the kernel: the reset code (cstart.S), setup_hw and       *)
(* setup_mmconfig (hwsetup.c), and main.  The machine may be reset at any  *)
(* point and any number of times; it keeps its RAM then, and perhaps its   *)
(* chipset registers, so qboot starts over what a kernel, or its own       *)
(* unfinished boot, left behind.  main's other calls have modules of their *)
(* own; here they use the statics and may panic.                           *)
(***************************************************************************)
EXTENDS Integers, Sequences

CONSTANTS
  Bytes,     \* bytes the memory may hold where rom_check is
  KernelPam, \* what a kernel may leave in the seven PAM registers, each on its own
  MaxResets  \* bound on the resets after power on

RW == {"read", "write"}

ASSUME FirmwareAssumption ==
  /\ Bytes \subseteq 0 .. 255 /\ 0 \in Bytes
  /\ KernelPam \subseteq [0 .. 6 -> SUBSET RW]
  /\ MaxResets \in Nat

VARIABLES
  chipset,   \* what setup_hw finds at 0:0.0: "i440fx", "q35" or "other"
  pc,        \* the next step
  i,         \* the loop of setup_pam, the progress of the shadowing
  ram,       \* the F segment's RAM: what it holds of each part of the image
  rom_check, \* the byte of that RAM which belongs to the static rom_check
  pam,       \* register pambase + r: whether reads and writes go to RAM (its two
             \* 16 KB halves, from register 1 on, taken as one)
  left,      \* history: pam as a kernel left it, or all off after a reset of it
  pirq,      \* interrupt each PIRQ is routed to
  pic,       \* vectors of the two PICs, ELCR's IRQs and those not masked
  idt,       \* the real mode interrupt table
  pciexbar,  \* Q35's mmconfig window
  resets

vars == <<chipset, pc, i, ram, rom_check, pam, left, pirq, pic, idt, pciexbar, resets>>

\* [stext, edata) is the code and the statics, .bss included; [sinit, einit) is
\* the reset code.  Both are at 4G as well, in ROM, and run there until the jump.
Parts == <<"text", "statics", "init">>
PamOff == [r \in 0 .. 6 |-> {}]
Links == 0 .. 7
Window == [upper |-> 0, lower |-> "PCIE_MMCONFIG_BASE", en |-> TRUE]
WindowOff == [upper |-> 0, lower |-> "0", en |-> FALSE]

\* Where an access to the F segment goes.  Without a host bridge that qboot knows
\* (microvm) the image is in RAM there from the start.
ReadsRam  == chipset = "other" \/ "read" \in pam[0]
WritesRam == chipset = "other" \/ "write" \in pam[0]
Seen(part) == IF ReadsRam THEN ram[part] ELSE "image"

-----------------------------------------------------------------------------

\* pm_entry: protected mode with flat segments, then main, at 4G - 64K.
pm_entry ==
  /\ pc = "reset"
  /\ pc' = "setup_hw"
  /\ UNCHANGED <<chipset, i, ram, rom_check, pam, left, pirq, pic, idt, pciexbar, resets>>

\* Fault: ICH9's second four are forgotten.
RoutedFour == [l \in Links |-> IF l \in 4 .. 7 THEN pirq[l] ELSE IF l % 4 < 2 THEN 10 ELSE 11]

\* setup_piix, setup_ich9: PIRQA, B -> 10 and PIRQC, D -> 11; on ICH9 E - H alike.
Routed ==
  [l \in Links |-> IF l \in 4 .. 7 /\ chipset = "i440fx" THEN pirq[l]
                   ELSE IF l % 4 < 2 THEN 10 ELSE 11]

\* setup_hw as far as it depends on the chipset; the power management registers
\* get constants.
setup_hw ==
  /\ pc = "setup_hw"
  /\ IF chipset = "other"
     THEN pc' = "jump" /\ UNCHANGED pirq
     ELSE pc' = "rom_check" /\ pirq' = Routed
  /\ UNCHANGED <<chipset, i, ram, rom_check, pam, left, pic, idt, pciexbar, resets>>

\* Fault: shadowed in the boot that switched to RAM, and not again.
AfterProbeOnce(equal) == IF equal THEN "setup_pam" ELSE "setup_pic"

\* A byte that does not keep what is written is still ROM.
AfterProbe(equal) == IF equal THEN "setup_pam" ELSE "shadow"

\* setup_hw's probe: is the F segment RAM already?  The ROM has 0 there.
probe_rom_check ==
  /\ pc = "rom_check"
  /\ LET seen(b) == IF ReadsRam THEN b ELSE 0
         value   == seen(rom_check)
     IN  /\ rom_check' = IF WritesRam THEN (value + 1) % 256 ELSE rom_check
         /\ pc' = AfterProbe(seen(rom_check') = value)
  /\ i' = 0
  /\ UNCHANGED <<chipset, ram, pam, left, pirq, pic, idt, pciexbar, resets>>

\* Fault: in the order of the registers.
PamRegisterAscending(n) == n

\* The registers in the order of setup_pam: C0000 to EFFFF, then the F segment.
PamRegister(n) == IF n < 6 THEN n + 1 ELSE 0

\* setup_pam, a register at a time.
setup_pam ==
  /\ pc = "setup_pam"
  /\ pam' = [pam EXCEPT ![PamRegister(i)] = RW]
  /\ IF i < 6 THEN i' = i + 1 /\ pc' = pc ELSE i' = 0 /\ pc' = "shadow"
  /\ UNCHANGED <<chipset, ram, rom_check, left, pirq, pic, idt, pciexbar, resets>>

\* The two memcpys of setup_hw, from the ROM below 4G.
shadow ==
  /\ pc = "shadow"
  /\ IF WritesRam
     THEN /\ ram' = [ram EXCEPT ![Parts[i + 1]] = "image"]
          /\ rom_check' = IF Parts[i + 1] = "statics" THEN 0 ELSE rom_check
     ELSE UNCHANGED <<ram, rom_check>>
  /\ IF i + 1 < Len(Parts) THEN i' = i + 1 /\ pc' = pc ELSE i' = 0 /\ pc' = "setup_pic"
  /\ UNCHANGED <<chipset, pam, left, pirq, pic, idt, pciexbar, resets>>

\* setup_pic.
setup_pic ==
  /\ pc = "setup_pic"
  /\ pic' = [base |-> <<8, 112>>, level |-> {10, 11}, unmasked |-> {2}]
  /\ pc' = "jump"
  /\ UNCHANGED <<chipset, i, ram, rom_check, pam, left, pirq, idt, pciexbar, resets>>

-----------------------------------------------------------------------------

\* main's ljmp.  "From this point we can modify global variables."
jump ==
  /\ pc = "jump"
  /\ pc' = "setup_mmconfig"
  /\ UNCHANGED <<chipset, i, ram, rom_check, pam, left, pirq, pic, idt, pciexbar, resets>>

\* A step of main that stores to a static.
UseStatics == ram' = IF WritesRam THEN [ram EXCEPT !["statics"] = "used"] ELSE ram

\* Fault: the window is left open while it moves.
PciexbarWriteOpen(n) ==
  CASE n = 0 -> pciexbar
    [] n = 1 -> [pciexbar EXCEPT !.upper = Window.upper]
    [] n = 2 -> Window

\* setup_q35_mmconfig: the register after each of its three writes.
PciexbarWrite(n) ==
  CASE n = 0 -> [pciexbar EXCEPT !.lower = "0", !.en = FALSE]
    [] n = 1 -> [pciexbar EXCEPT !.upper = Window.upper]
    [] n = 2 -> [pciexbar EXCEPT !.lower = Window.lower, !.en = TRUE]

\* setup_mmconfig; have_mmconfig is stored when it returns.
setup_mmconfig ==
  /\ pc = "setup_mmconfig"
  /\ pciexbar' = IF chipset = "q35" THEN PciexbarWrite(i) ELSE pciexbar
  /\ IF chipset = "q35" /\ i < 2
     THEN i' = i + 1 /\ UNCHANGED <<pc, ram>>
     ELSE /\ i' = 0 /\ UseStatics
          /\ pc' = IF chipset = "other" THEN "setup_idt" ELSE "setup_pci"
  /\ UNCHANGED <<chipset, rom_check, pam, left, pirq, pic, idt, resets>>

\* setup_pci: PciBus.  Its panic() on a host bridge it
\* does not know cannot happen here: setup_hw returned true.
setup_pci ==
  /\ pc = "setup_pci"
  /\ UseStatics
  /\ pc' = "setup_idt"
  /\ UNCHANGED <<chipset, i, rom_check, pam, left, pirq, pic, idt, pciexbar, resets>>

\* setup_idt: the last store to a vector counts.
setup_idt ==
  /\ pc = "setup_idt"
  /\ idt' = [v \in 0 .. 255 |-> CASE v = 16 -> "bios_int10"
                                  [] v = 21 -> "bios_int15"
                                  [] v \in 8 .. 15 \cup 112 .. 119 -> "bios_irq"
                                  [] OTHER -> "bios_intfake"]
  /\ pc' = "fw_cfg_setup"
  /\ UNCHANGED <<chipset, i, ram, rom_check, pam, left, pirq, pic, pciexbar, resets>>

\* The rest of main's calls: FwCfg, AcpiLoader, E820, MpTable, Smbios and Boot.
\* extract_acpi and extract_e820 end in panic() when QEMU's files are not as
\* expected, and main does when boot_from_fwcfg finds no kernel and returns.
After ==
  [fw_cfg_setup |-> {"extract_acpi"}, extract_acpi |-> {"extract_e820", "panic"},
   extract_e820 |-> {"setup_mptable", "panic"}, setup_mptable |-> {"extract_smbios"},
   extract_smbios |-> {"boot_from_fwcfg"}, boot_from_fwcfg |-> {"kernel", "panic"}]

call ==
  /\ pc \in DOMAIN After
  /\ UseStatics
  /\ pc' \in After[pc]
  /\ UNCHANGED <<chipset, i, rom_check, pam, left, pirq, pic, idt, pciexbar, resets>>

-----------------------------------------------------------------------------

\* The kernel uses the machine as it likes: it may overwrite the firmware, protect
\* some of the segments and not others, take over the interrupts and move mmconfig
\* above 4G.  Routes, PIC and IDT have one value of the kernel's for all, as qboot
\* does not read them and stores them again before it runs another kernel.
kernel ==
  /\ pc = "kernel"
  /\ pc' = "os"
  /\ ram' \in [{Parts[n] : n \in DOMAIN Parts} -> {"image", "old"}]
  /\ rom_check' \in Bytes
  /\ pam' \in KernelPam /\ left' = pam'
  /\ pirq' = [l \in Links |-> 0]
  /\ pic' = [base |-> <<48, 56>>, level |-> {}, unmasked |-> 0 .. 15]
  /\ idt' = [v \in 0 .. 255 |-> "old"]
  /\ pciexbar' \in {pciexbar, [upper |-> 1, lower |-> "kernel", en |-> TRUE]}
  /\ UNCHANGED <<chipset, i, resets>>

\* A reset.  RAM stays; machines differ in what of the chipset does.  A microvm
\* loads its firmware again.
reset ==
  /\ resets < MaxResets
  /\ resets' = resets + 1
  /\ pc' = "reset" /\ i' = 0
  /\ \/ UNCHANGED <<pam, left>>
     \/ pam' = PamOff /\ left' = PamOff
  /\ pciexbar' \in {pciexbar, WindowOff}
  /\ ram' = [p \in DOMAIN ram |->
               IF chipset = "other" THEN "image" ELSE IF ram[p] = "used" THEN "old" ELSE ram[p]]
  /\ rom_check' = IF chipset = "other" THEN 0 ELSE rom_check
  /\ UNCHANGED <<chipset, pirq, pic, idt>>

Init ==
  /\ chipset \in {"i440fx", "q35", "other"}
  /\ pc = "reset" /\ i = 0 /\ resets = 0
  /\ ram = [n \in {Parts[n] : n \in DOMAIN Parts} |-> IF chipset = "other" THEN "image" ELSE "old"]
  /\ rom_check \in IF chipset = "other" THEN {0} ELSE Bytes
  /\ pam = PamOff /\ left = PamOff /\ pciexbar = WindowOff
  /\ pirq = [l \in Links |-> 0]
  /\ pic = [base |-> <<0, 0>>, level |-> {}, unmasked |-> {}]
  /\ idt = [v \in 0 .. 255 |-> "old"]

\* The kernel runs, or qboot has panicked.
Finished == pc \in {"os", "panic"} /\ UNCHANGED vars

Next ==
  \/ pm_entry \/ setup_hw \/ probe_rom_check \/ setup_pam \/ shadow \/ setup_pic
  \/ jump \/ setup_mmconfig \/ setup_pci \/ setup_idt \/ call
  \/ kernel \/ reset \/ Finished

Spec == Init /\ [][Next]_vars

-----------------------------------------------------------------------------

\* main runs in the F segment.
InFseg == pc \in {"setup_mmconfig", "setup_pci", "setup_idt", "panic", "kernel"} \cup DOMAIN After

\* Whatever boots, kernels and resets came before, what main executes and its
\* statics' first values are the image's once it has jumped to the F segment,
\* and what it stores in a static stays there.
RunsImage ==
  InFseg =>
    /\ Seen("text") = "image" /\ Seen("init") = "image"
    /\ Seen("statics") \in {"image", "used"}
    /\ WritesRam
    /\ pc = "setup_mmconfig" => Seen("statics") = "image"

\* setup_hw looks at one byte of the F segment and concludes from it whether the
\* memory below, which malloc hands out, was switched to RAM too.  Wherever resets
\* have cut setup_pam short, main has either all of it, or what a kernel has left
\* that had the F segment as RAM: never a setup_pam done by half.
ShadowRam ==
  InFseg /\ chipset # "other" =>
    \A r \in 0 .. 6 : pam[r] = IF left[0] = RW THEN left[r] ELSE RW

\* The line pci.c stores in a device depends on its link alone.
IntLine(lnk) == IF lnk >= 2 THEN 11 ELSE 10

\* The PIRQ of a link: pci.c adds the pin, which counts from 1, so that LNKA, the
\* link of INTA on "Q35 devices 25-31" (pci.c:55), is 1, and PIRQA is register 0.
Pirq(lnk) == (lnk + 3) % 4

Vector(irq) == IF irq < 8 THEN pic.base[1] + irq ELSE pic.base[2] + irq - 8

\* When the kernel starts, pieces of code written apart agree, also after a kernel
\* had changed what they store: the PIRQs are routed to the interrupts that pci.c
\* gives to devices and to no others, these are level triggered and masked, every
\* interrupt's vector in the PIC is one setup_idt gave to bios_irq, and none is
\* int 10h or 15h.
InterruptsAgree ==
  pc = "kernel" /\ chipset # "other" =>
    /\ LET routed == {pirq[l] : l \in IF chipset = "q35" THEN Links ELSE 0 .. 3}
       IN  routed = {IntLine(lnk) : lnk \in 0 .. 3} /\ routed \subseteq pic.level \ pic.unmasked
    /\ \A irq \in 0 .. 15 : idt[Vector(irq)] = "bios_irq"
    /\ idt[16] = "bios_int10" /\ idt[21] = "bios_int15"

\* The line that pci.c stores for LNKA to LNKD is the interrupt that setup_piix and
\* setup_ich9 route PIRQA to PIRQD (E to H on ICH9) to, in the order of the
\* registers PIIX_ISA_PIRQA_ROUT, ICH9_LPC_PIRQA_ROUT and ICH9_LPC_PIRQE_ROUT.
LinesMatchRoutes ==
  pc = "kernel" /\ chipset # "other" =>
    \A lnk \in 0 .. 3 : /\ pirq[Pirq(lnk)] = IntLine(lnk)
                        /\ chipset = "q35" => pirq[Pirq(lnk) + 4] = IntLine(lnk)

\* Qboot never opens the mmconfig window, whose address it writes in two halves,
\* anywhere but where the memory map says it is, not even for a moment on the
\* way from where a kernel had moved it.
WindowMovesClosed ==
  [][pc # "kernel" /\ pciexbar' # pciexbar /\ pciexbar'.en => pciexbar' = Window]_vars
=============================================================================
