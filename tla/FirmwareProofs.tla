--------------------------- MODULE FirmwareProofs ---------------------------
(***************************************************************************)
(* Theorems about Firmware, for any number of resets and any content of    *)
(* the probed byte, and about BiosCalls, for every request, every number   *)
(* of calls, every stack with room for the frame and every mapping of the  *)
(* firmware.  The runs `firmware` and `bios_calls` check small instances.  *)
(***************************************************************************)
EXTENDS Firmware, BiosCalls, TLAPS

PartNames == {"text", "statics", "init"}

BeforeProbe == {"reset", "setup_hw", "rom_check"}
AfterCopy == {"setup_pic", "jump"}
Loaders == {"fw_cfg_setup", "extract_acpi", "extract_e820", "setup_mptable",
            "extract_smbios", "boot_from_fwcfg"}
Main == {"setup_mmconfig", "setup_pci", "setup_idt", "kernel", "panic"} \cup Loaders
Steps == BeforeProbe \cup {"setup_pam", "shadow"} \cup AfterCopy \cup Main \cup {"os"}

-----------------------------------------------------------------------------
(* What the memory holds.                                                  *)

TypeInv ==
  /\ chipset \in {"i440fx", "q35", "other"}
  /\ pc \in Steps
  /\ i \in Nat
  /\ ram \in [PartNames -> {"image", "used", "old"}]
  /\ rom_check \in 0 .. 255
  /\ pam \in [0 .. 6 -> SUBSET RW] /\ left \in [0 .. 6 -> SUBSET RW]

\* While the F segment, which is probed, is RAM as a kernel has left it, nothing
\* switches the rest; once it is RAM by setup_pam, so is all the memory below it.
ProbeInv == IF left[0] = RW THEN pam = left
            ELSE pam[0] = RW => \A r \in 0 .. 6 : pam[r] = RW

\* setup_pam runs where the F segment is not RAM, and has done registers 1 to i.
PamInv == pc = "setup_pam" => left[0] # RW /\ i <= 6 /\ \A r \in 1 .. i : pam[r] = RW

\* From the copy on, the F segment is RAM.
ShadowInv == pc \in {"shadow"} \cup AfterCopy \cup Main => chipset = "other" \/ pam[0] = RW

\* The copy has done i parts.
CopyInv == pc = "shadow" =>
             /\ chipset # "other" /\ i <= 2
             /\ i >= 1 => ram["text"] = "image"
             /\ i >= 2 => ram["statics"] = "image"

\* The image is whole until main uses its statics, and but for them afterwards.
ImageInv ==
  /\ pc \in AfterCopy \cup {"setup_mmconfig"} => \A p \in PartNames : ram[p] = "image"
  /\ pc \in Main => /\ ram["text"] = "image" /\ ram["init"] = "image"
                    /\ ram["statics"] \in {"image", "used"}

\* A microvm has the image in RAM whenever it is reset, and never copies it.
MicrovmInv ==
  chipset = "other" =>
    /\ pc \in {"reset", "setup_hw", "jump"} => \A p \in PartNames : ram[p] = "image"
    /\ pc \notin {"rom_check", "setup_pam", "shadow"}

MemoryIInv ==
  TypeInv /\ ProbeInv /\ PamInv /\ ShadowInv /\ CopyInv /\ ImageInv /\ MicrovmInv

\* The linker script's parts, by name.
LEMMA PartsNamed == {Parts[n] : n \in DOMAIN Parts} = PartNames
  BY DEF Parts, PartNames

\* The byte that is probed changes whenever it can be written and read back.
LEMMA ProbeTells ==
  ASSUME MemoryIInv, probe_rom_check, pc' = "shadow"
  PROVE  pam[0] = RW
  BY DEF MemoryIInv, TypeInv, MicrovmInv, probe_rom_check, AfterProbe, ReadsRam, WritesRam, RW

\* So setup_pam does not run over a kernel's RAM.
LEMMA ProbeSeesRam ==
  ASSUME MemoryIInv, probe_rom_check, pc' = "setup_pam"
  PROVE  left[0] # RW
<1> SUFFICES ASSUME left[0] = RW PROVE FALSE
  OBVIOUS
<1>1. pam[0] = RW
  BY DEF MemoryIInv, ProbeInv
<1>2. ReadsRam /\ WritesRam
  BY <1>1 DEF ReadsRam, WritesRam, RW
<1>3. rom_check' = (rom_check + 1) % 256 /\ AfterProbe(rom_check' = rom_check) = "setup_pam"
  BY <1>2 DEF probe_rom_check
<1>4. (rom_check + 1) % 256 # rom_check
  BY DEF MemoryIInv, TypeInv
<1> QED BY <1>3, <1>4 DEF AfterProbe

\* Power on: ROM in the F segment, or on a microvm the image in RAM.
LEMMA MemoryInit == Init => MemoryIInv
<1> SUFFICES ASSUME Init
             PROVE  MemoryIInv
  OBVIOUS
<1>1. rom_check \in 0 .. 255
  BY FirmwareAssumption DEF Init
<1>2. ram = [p \in PartNames |-> IF chipset = "other" THEN "image" ELSE "old"]
  BY PartsNamed DEF Init
<1>3. pam \in [0 .. 6 -> SUBSET RW] /\ pam[0] # RW /\ left = pam
  BY DEF Init, PamOff, RW
<1>4. QED
  BY <1>1, <1>2, <1>3
  DEF Init, BeforeProbe, AfterCopy, Loaders, Main, Steps, PartNames, MemoryIInv, TypeInv,
      ProbeInv, PamInv, ShadowInv, CopyInv, ImageInv, MicrovmInv

\* Each step keeps what is known of the memory.
LEMMA MemoryStep == MemoryIInv /\ [Next]_vars => MemoryIInv'
<1> SUFFICES ASSUME MemoryIInv, [Next]_vars
             PROVE  MemoryIInv'
  OBVIOUS
<1> USE DEF RW, PartNames, BeforeProbe, AfterCopy, Loaders, Main, Steps, MemoryIInv,
            TypeInv, ProbeInv, PamInv, ShadowInv, CopyInv, ImageInv, MicrovmInv
<1>1. CASE pm_entry
  BY <1>1 DEF pm_entry
<1>2. CASE setup_hw
  BY <1>2 DEF setup_hw
<1>3. CASE probe_rom_check
  <2>1. pc' \in {"setup_pam", "shadow"}
    BY <1>3 DEF probe_rom_check, AfterProbe
  <2>2. rom_check' \in 0 .. 255
    BY <1>3 DEF probe_rom_check, ReadsRam, WritesRam
  <2>3. pc' = "shadow" => pam[0] = RW
    BY <1>3, ProbeTells
  <2>4. pc' = "setup_pam" => left[0] # RW
    BY <1>3, ProbeSeesRam
  <2>5. QED
    BY <1>3, <2>1, <2>2, <2>3, <2>4 DEF probe_rom_check
<1>4. CASE setup_pam
  BY <1>4 DEF setup_pam, PamRegister
<1>5. CASE shadow
  BY <1>5 DEF shadow, WritesRam, Parts
<1>6. CASE setup_pic
  BY <1>6 DEF setup_pic
<1>7. CASE jump
  BY <1>7 DEF jump
<1>8. CASE setup_mmconfig
  BY <1>8 DEF setup_mmconfig, UseStatics, WritesRam
<1>9. CASE setup_pci
  BY <1>9 DEF setup_pci, UseStatics, WritesRam
<1>10. CASE setup_idt
  BY <1>10 DEF setup_idt
<1>11. CASE call
  BY <1>11 DEF call, UseStatics, WritesRam, After
<1>12. CASE kernel
  <2>1. ram' \in [PartNames -> {"image", "old"}]
    BY <1>12, PartsNamed DEF kernel
  <2>2. pam' \in [0 .. 6 -> SUBSET RW] /\ left' = pam'
    BY <1>12, FirmwareAssumption DEF kernel
  <2>3. rom_check' \in 0 .. 255
    BY <1>12, FirmwareAssumption DEF kernel
  <2>4. ram' \in [PartNames -> {"image", "used", "old"}]
    BY <2>1
  <2>5. ProbeInv'
    <3>1. (left[0])' = RW => pam' = left'
      BY <2>2
    <3>2. (left[0])' # RW => (pam[0])' # RW
      BY <2>2
    <3> QED BY <3>1, <3>2
  <2>6. QED
    BY <1>12, <2>2, <2>3, <2>4, <2>5 DEF kernel
<1>13. CASE reset
  BY <1>13 DEF reset, PamOff
<1>14. CASE UNCHANGED vars
  BY <1>14 DEF vars
<1>15. QED
  BY <1>1, <1>2, <1>3, <1>4, <1>5, <1>6, <1>7, <1>8, <1>9, <1>10, <1>11, <1>12, <1>13, <1>14
  DEF Next, Finished

\* The memory invariant holds for any number of resets.
THEOREM MemoryInvariant == Spec => []MemoryIInv
  BY MemoryInit, MemoryStep, PTL DEF Spec

\* However often and wherever the machine was reset, main runs on an intact
\* image whose statics it can store to.
THEOREM FirmwareRunsImage == Spec => []RunsImage
<1>1. MemoryIInv => RunsImage
  BY DEF MemoryIInv, TypeInv, ShadowInv, ImageInv, RunsImage, InFseg, After, Seen, ReadsRam,
         WritesRam, RW, PartNames, AfterCopy, Loaders, Main
<1>2. QED
  BY <1>1, MemoryInvariant, PTL

\* One probed byte of the F segment tells setup_pam's work, done or cut short, from
\* a kernel's: the memory below is all RAM, or all as a kernel with RAM there left it.
THEOREM FirmwareShadowRam == Spec => []ShadowRam
<1>1. MemoryIInv => ShadowRam
  BY DEF MemoryIInv, TypeInv, ProbeInv, ShadowInv, ShadowRam, InFseg, After, Loaders, Main
<1>2. QED
  BY <1>1, MemoryInvariant, PTL

-----------------------------------------------------------------------------
(* What the chipset is set to.                                             *)

AfterRouting == {"rom_check", "setup_pam", "shadow"} \cup AfterCopy \cup Main

Bar(upper, lower, en) == [upper |-> upper, lower |-> lower, en |-> en]

\* The register has its three fields.
WindowTypeInv == \E upper, lower : \E en \in BOOLEAN : pciexbar = Bar(upper, lower, en)

\* i is 0 outside its loops; in setup_mmconfig's, the window is closed after the
\* first write, and has its upper half after the second.
WindowInv ==
  /\ pc \notin {"setup_pam", "shadow", "setup_mmconfig"} => i = 0
  /\ pc = "setup_mmconfig" =>
       /\ i <= 2
       /\ i >= 1 => ~pciexbar.en
       /\ i = 2 => pciexbar.upper = Window.upper

\* The routes setup_piix and setup_ich9 store, on ICH9 also those of PIRQE to H.
RoutesAgree ==
  \A l \in 0 .. 3 : /\ pirq[l] = IF l < 2 THEN 10 ELSE 11
                    /\ chipset = "q35" => pirq[l + 4] = pirq[l]

\* What setup_hw, setup_pic and setup_idt store stays until the handover.
InterruptInv ==
  /\ pc \in AfterRouting /\ chipset # "other" => RoutesAgree
  /\ pc \in {"jump"} \cup Main /\ chipset # "other" =>
       pic = [base |-> <<8, 112>>, level |-> {10, 11}, unmasked |-> {2}]
  /\ pc \in Loaders \cup {"kernel"} =>
       idt = [v \in 0 .. 255 |-> CASE v = 16 -> "bios_int10"
                                   [] v = 21 -> "bios_int15"
                                   [] v \in 8 .. 15 \cup 112 .. 119 -> "bios_irq"
                                   [] OTHER -> "bios_intfake"]

ChipsetIInv == MemoryIInv /\ WindowTypeInv /\ WindowInv /\ InterruptInv

\* setup_hw stores them, whatever was there.
LEMMA RoutedAgrees ==
  ASSUME MemoryIInv, setup_hw, chipset # "other"
  PROVE  RoutesAgree'
  BY DEF MemoryIInv, TypeInv, setup_hw, Routed, RoutesAgree, Links

\* The register after each write, field by field.
LEMMA PciexbarWrites ==
  ASSUME WindowTypeInv
  PROVE  /\ PciexbarWrite(0) = Bar(pciexbar.upper, "0", FALSE)
         /\ PciexbarWrite(1) = Bar(0, pciexbar.lower, pciexbar.en)
         /\ PciexbarWrite(2) = Bar(pciexbar.upper, "PCIE_MMCONFIG_BASE", TRUE)
         /\ pciexbar.en \in BOOLEAN
<1>1. pciexbar = [upper |-> pciexbar.upper, lower |-> pciexbar.lower, en |-> pciexbar.en]
  BY DEF WindowTypeInv, Bar
<1>2. PciexbarWrite(0) = [[pciexbar EXCEPT !.lower = "0"] EXCEPT !.en = FALSE]
  BY DEF PciexbarWrite
<1>3. PciexbarWrite(1) = [pciexbar EXCEPT !.upper = 0]
  BY DEF PciexbarWrite, Window
<1>4. PciexbarWrite(2) = [[pciexbar EXCEPT !.lower = "PCIE_MMCONFIG_BASE"] EXCEPT !.en = TRUE]
  BY DEF PciexbarWrite, Window
<1>5. pciexbar.en \in BOOLEAN
  BY DEF WindowTypeInv, Bar
<1>6. QED
  BY <1>1, <1>2, <1>3, <1>4, <1>5 DEF Bar

\* Power on: nothing is set up yet.
LEMMA ChipsetInit == Init => ChipsetIInv
  BY MemoryInit
  DEF Init, WindowOff, Bar, ChipsetIInv, WindowTypeInv, WindowInv, InterruptInv, AfterRouting,
      AfterCopy, Loaders, Main

\* Each step keeps what is known of the chipset.
LEMMA ChipsetStep == ChipsetIInv /\ [Next]_vars => ChipsetIInv'
<1> SUFFICES ASSUME ChipsetIInv, [Next]_vars
             PROVE  ChipsetIInv'
  OBVIOUS
<1>0. MemoryIInv /\ MemoryIInv'
  BY MemoryStep DEF ChipsetIInv
<1> USE DEF ChipsetIInv, WindowTypeInv, WindowInv, InterruptInv, AfterRouting, AfterCopy,
            Loaders, Main
<1>1. CASE pm_entry
  BY <1>0, <1>1 DEF pm_entry, MemoryIInv, TypeInv, Steps
<1>2. CASE setup_hw
  BY <1>0, <1>2, RoutedAgrees DEF setup_hw, MemoryIInv, MicrovmInv
<1>3. CASE probe_rom_check
  BY <1>0, <1>3 DEF probe_rom_check, AfterProbe, MemoryIInv, TypeInv, Steps, RoutesAgree
<1>4. CASE setup_pam
  BY <1>0, <1>4 DEF setup_pam, MemoryIInv, TypeInv, Steps, RoutesAgree
<1>5. CASE shadow
  BY <1>0, <1>5 DEF shadow, MemoryIInv, TypeInv, Steps, RoutesAgree
<1>6. CASE setup_pic
  BY <1>0, <1>6 DEF setup_pic, MemoryIInv, TypeInv, Steps, RoutesAgree
<1>7. CASE jump
  BY <1>0, <1>7 DEF jump, MemoryIInv, TypeInv, Steps, RoutesAgree
<1>8. CASE setup_mmconfig
  <2>1. WindowTypeInv'
    <3>1. i \in {0, 1, 2}
      BY <1>0, <1>8 DEF setup_mmconfig, MemoryIInv, TypeInv
    <3>2. \E upper, lower : \E en \in BOOLEAN : PciexbarWrite(i) = Bar(upper, lower, en)
      <4>1. CASE i = 0
        BY <4>1, PciexbarWrites
      <4>2. CASE i = 1
        <5>1. PciexbarWrite(i) = Bar(0, pciexbar.lower, pciexbar.en)
          BY <4>2, PciexbarWrites
        <5>2. pciexbar.en \in BOOLEAN
          BY PciexbarWrites
        <5>3. QED
          BY <5>1, <5>2
      <4>3. CASE i = 2
        BY <4>3, PciexbarWrites
      <4>4. QED
        BY <3>1, <4>1, <4>2, <4>3
    <3>3. pciexbar' = pciexbar \/ pciexbar' = PciexbarWrite(i)
      BY <1>8 DEF setup_mmconfig
    <3>4. QED
      BY <3>2, <3>3
  <2>2. WindowInv'
    <3>1. CASE chipset = "q35" /\ i < 2
      <4>1. i = 0 \/ i = 1
        BY <1>0, <3>1 DEF MemoryIInv, TypeInv
      <4>2. pc' = "setup_mmconfig" /\ i' = i + 1 /\ pciexbar' = PciexbarWrite(i)
        BY <1>8, <3>1 DEF setup_mmconfig
      <4>3. QED
        BY <1>8, <4>1, <4>2 DEF setup_mmconfig, PciexbarWrite, Window
    <3>2. CASE ~(chipset = "q35" /\ i < 2)
      BY <1>8, <3>2 DEF setup_mmconfig
    <3>3. QED
      BY <3>1, <3>2
  <2>3. InterruptInv'
    BY <1>8 DEF setup_mmconfig, RoutesAgree
  <2>4. QED
    BY <1>0, <2>1, <2>2, <2>3
<1>9. CASE setup_pci
  BY <1>0, <1>9 DEF setup_pci, MemoryIInv, TypeInv, Steps, RoutesAgree
<1>10. CASE setup_idt
  BY <1>0, <1>10 DEF setup_idt, MemoryIInv, TypeInv, Steps, RoutesAgree
<1>11. CASE call
  BY <1>0, <1>11 DEF call, After, MemoryIInv, TypeInv, Steps, RoutesAgree
<1>12. CASE kernel
  <2>1. WindowTypeInv'
    <3>1. \/ pciexbar' = pciexbar
          \/ pciexbar' = Bar(1, "kernel", TRUE)
      BY <1>12 DEF kernel, Bar
    <3>2. QED
      BY <3>1
  <2>2. pc' = "os" /\ i' = 0
    BY <1>12 DEF kernel
  <2>3. QED
    BY <1>0, <2>1, <2>2
<1>13. CASE reset
  <2>1. WindowTypeInv'
    <3>1. \/ pciexbar' = pciexbar
          \/ pciexbar' = Bar(0, "0", FALSE)
      BY <1>13 DEF reset, WindowOff, Bar
    <3>2. QED
      BY <3>1
  <2>2. pc' = "reset" /\ i' = 0
    BY <1>13 DEF reset
  <2>3. QED
    BY <1>0, <2>1, <2>2
<1>14. CASE UNCHANGED vars
  BY <1>0, <1>14 DEF vars, RoutesAgree
<1>15. QED
  BY <1>1, <1>2, <1>3, <1>4, <1>5, <1>6, <1>7, <1>8, <1>9, <1>10, <1>11, <1>12, <1>13, <1>14
  DEF Next, Finished

\* The chipset invariant holds for any number of resets.
THEOREM ChipsetInvariant == Spec => []ChipsetIInv
  BY ChipsetInit, ChipsetStep, PTL DEF Spec

\* For any number of resets and whatever the kernels before did, a kernel finds
\* PIRQs that are routed to the interrupts pci.c hands out and no others, level
\* triggered and masked, and vectors in the PIC that are in the IDT.
THEOREM FirmwareInterruptsAgree == Spec => []InterruptsAgree
<1>1. ASSUME ChipsetIInv, pc = "kernel", chipset # "other"
      PROVE  InterruptsAgree
  <2>1. /\ RoutesAgree
        /\ pic = [base |-> <<8, 112>>, level |-> {10, 11}, unmasked |-> {2}]
        /\ idt = [v \in 0 .. 255 |-> CASE v = 16 -> "bios_int10"
                                        [] v = 21 -> "bios_int15"
                                        [] v \in 8 .. 15 \cup 112 .. 119 -> "bios_irq"
                                        [] OTHER -> "bios_intfake"]
    BY <1>1 DEF ChipsetIInv, InterruptInv, AfterRouting, Main
  <2>2. pic.level = {10, 11} /\ pic.unmasked = {2} /\ pic.base = <<8, 112>>
    BY <2>1
  <2> DEFINE known == IF chipset = "q35" THEN Links ELSE 0 .. 3
  <2>3. {pirq[l] : l \in known} = {10, 11} /\ {IntLine(lnk) : lnk \in 0 .. 3} = {10, 11}
    <3>1. \A l \in known : pirq[l] \in {10, 11}
      <4>1. \A l \in 0 .. 3 : pirq[l] \in {10, 11}
        BY <2>1 DEF RoutesAgree
      <4>2. chipset = "q35" => \A l \in 4 .. 7 : pirq[l] \in {10, 11}
        <5>1. \A l \in 4 .. 7 : l - 4 \in 0 .. 3 /\ (l - 4) + 4 = l
          OBVIOUS
        <5> QED BY <2>1, <4>1, <5>1 DEF RoutesAgree
      <4> QED BY <4>1, <4>2 DEF Links
    <3>2. 0 \in known /\ 2 \in known /\ pirq[0] = 10 /\ pirq[2] = 11
      BY <2>1 DEF RoutesAgree, Links
    <3>3. \A lnk \in 0 .. 3 : IntLine(lnk) \in {10, 11}
      BY DEF IntLine
    <3>4. IntLine(0) = 10 /\ IntLine(2) = 11
      BY DEF IntLine
    <3> HIDE DEF known
    <3> QED BY <3>1, <3>2, <3>3, <3>4
  <2>4. ASSUME NEW irq \in 0 .. 15
        PROVE  Vector(irq) \in 8 .. 15 \cup 112 .. 119
    BY <2>2 DEF Vector
  <2>5. ASSUME NEW v \in 8 .. 15 \cup 112 .. 119
        PROVE  idt[v] = "bios_irq"
    <3>1. v \in 0 .. 255 /\ v # 16 /\ v # 21
      OBVIOUS
    <3>2. QED
      BY <2>1, <3>1
  <2>6. idt[16] = "bios_int10" /\ idt[21] = "bios_int15"
    BY <2>1
  <2>7. \A irq \in 0 .. 15 : idt[Vector(irq)] = "bios_irq"
    BY <2>4, <2>5
  <2>8. QED
    BY <2>2, <2>3, <2>6, <2>7 DEF InterruptsAgree
<1>2. ChipsetIInv => InterruptsAgree
  BY <1>1 DEF InterruptsAgree
<1>3. QED
  BY <1>2, ChipsetInvariant, PTL

\* Wherever the machine was reset, mmconfig is opened at its address only.
THEOREM FirmwareWindowMovesClosed == Spec => WindowMovesClosed
<1>1. ASSUME ChipsetIInv, [Next]_vars
      PROVE  [pc # "kernel" /\ pciexbar' # pciexbar /\ pciexbar'.en => pciexbar' = Window]_vars
  <2>1. CASE setup_mmconfig
    <3>1. i \in {0, 1, 2}
      BY <1>1, <2>1 DEF ChipsetIInv, MemoryIInv, TypeInv, WindowInv, setup_mmconfig
    <3>2. pciexbar' # pciexbar => pciexbar' = PciexbarWrite(i)
      BY <2>1 DEF setup_mmconfig
    <3>3. i = 2 => PciexbarWrite(i) = Window
      BY <1>1, <2>1, PciexbarWrites DEF ChipsetIInv, WindowInv, setup_mmconfig, Window, Bar
    <3>4. i # 2 => ~PciexbarWrite(i).en
      BY <1>1, <2>1, <3>1 DEF ChipsetIInv, WindowTypeInv, WindowInv, setup_mmconfig, PciexbarWrite
    <3>5. QED
      BY <3>2, <3>3, <3>4
  <2>2. CASE kernel
    BY <2>2 DEF kernel
  <2>3. CASE reset
    BY <2>3 DEF reset, WindowOff
  <2>4. ASSUME ~setup_mmconfig, ~kernel, ~reset
        PROVE  pciexbar' = pciexbar
    BY <1>1, <2>4
    DEF Next, vars, pm_entry, setup_hw, probe_rom_check, setup_pam, shadow, setup_pic, jump,
        setup_pci, setup_idt, call, Finished
  <2>5. QED
    BY <2>1, <2>2, <2>3, <2>4
<1>2. QED
  BY <1>1, ChipsetInvariant, PTL DEF Spec, WindowMovesClosed

-----------------------------------------------------------------------------
(* The services, for every request: a call runs on what is below the       *)
(* caller's stack, in a frame whose fields assembly and C agree on.        *)

General == {"eax", "ebx", "ecx", "edx", "ebp", "esi", "edi", "ds", "es", "fs"}

\* Where the call pushed its return address, where the frame ends and starts,
\* and where the flags are that the handlers change.
ReturnAt == IF last.entry \in Real THEN Top - 14 ELSE Top - 16
FrameEnd == IF last.entry = "pcibios" THEN Top - 20 ELSE Top - 14
FrameAt == FrameEnd - 44
FlagsSlot == IF last.entry = "pcibios" THEN Top - 20 ELSE Top - 10

\* The flags the caller is to find.
FlagsWanted ==
  CASE last.entry \in {"irq", "bios32"} -> last.regs.eflags
    [] Fails(last) -> SetCF(last.regs.eflags)
    [] OTHER -> ClearCF(last.regs.eflags)

\* What EffectsTrue says of a call that is to return ecx.
Effects(ecx) ==
  LET eax == last.regs.eax
      bdf == Bdf(last.regs.ebx)
      at  == last.regs.edi .. last.regs.edi + Size(eax) - 1
      access == last.entry = "pcibios" /\ eax \in Reads \cup Writes
  IN  /\ access /\ last.regs.edi % Size(eax) = 0 =>
           IF eax \in Reads
           THEN ecx = Little(config[bdf], last.regs.edi, Size(eax)) /\ config = last.config
           ELSE \A f \in DOMAIN config : \A b \in DOMAIN config[f] :
                  config[f][b] = IF f = bdf /\ b \in at
                                 THEN ByteOf(last.regs.ecx, b - last.regs.edi)
                                 ELSE last.config[f][b]
      /\ ~access => config = last.config
      /\ last.entry = "pcibios" /\ eax = PCI(1) => ecx = MAX_BUS
      /\ serial = last.serial \o IF last.entry = "int10" /\ Ah(eax) = 14 THEN <<Al(eax)>> ELSE <<>>

ServiceTypeOK ==
  /\ bios_pc \in {"caller", "entry", "save", "handler", "restore", "return"}
  /\ DOMAIN regs = Registers /\ DOMAIN stack = 0 .. Top - 1
  /\ serial \in Seq(Nat) /\ delta \in Nat

\* The request that is served.
RequestInv ==
  /\ last.entry \in Real \cup {"bios32", "pcibios"}
  /\ DOMAIN last.regs = Registers /\ last.regs.esp = Top - 8
  /\ {last.regs.eax, last.regs.ebx, last.regs.ecx, last.regs.edi, last.regs.eflags} \subseteq Nat
  /\ last.entry = "pcibios" /\ last.regs.eax \in Reads \cup Writes => last.regs.edi < 256
  /\ last.serial \in Seq(Nat)

\* The caller's part of the stack and its address stay as the call left them.
ReturnInv ==
  /\ \A a \in Top - 8 .. Top - 1 : stack[a] = last.stack[a]
  /\ stack[ReturnAt] = last.regs.ip
  /\ stack[IF last.entry \in Real THEN ReturnAt + 2 ELSE ReturnAt + 4] = last.regs.cs

\* The frame has the caller's registers, other than those in S, and in the place
\* of ESP the address that popl %esp goes on from.
FrameInv(S) ==
  /\ last.entry \in WithFrame /\ regs.esp = FrameAt
  /\ \A r \in General \ S : stack[FrameAt + biosregs[r]] = last.regs[r]
  /\ stack[FrameAt + 16] = FrameAt + 20

Unserved == config = last.config /\ serial = last.serial

EntryInv ==
  /\ regs.esp = ReturnAt /\ \A r \in Registers \ {"esp"} : regs[r] = last.regs[r]
  /\ last.entry \in Real => stack[Top - 10] = last.regs.eflags
  /\ Unserved

SaveInv ==
  /\ last.entry \in WithFrame /\ regs.esp = FrameEnd
  /\ \A r \in General : regs[r] = last.regs[r]
  /\ stack[FlagsSlot] = ClearCF(last.regs.eflags)
  /\ Unserved

HandlerInv == FrameInv({}) /\ stack[FlagsSlot] = ClearCF(last.regs.eflags) /\ Unserved

RestoreInv ==
  /\ FrameInv(Results(last)) /\ stack[FlagsSlot] = FlagsWanted
  /\ Effects(stack[FrameAt + 8])

LeaveInv ==
  /\ regs.esp = ReturnAt /\ \A r \in General \ Results(last) : regs[r] = last.regs[r]
  /\ FlagsWanted = IF last.entry \in Real THEN stack[Top - 10] ELSE regs.eflags
  /\ Effects(regs.ecx)

ServiceIInv ==
  /\ ServiceTypeOK
  /\ bios_pc = "caller" => regs.esp = Top - 8 /\ CallerSees /\ EffectsTrue
  /\ bios_pc # "caller" => RequestInv /\ ReturnInv
  /\ bios_pc = "entry" => EntryInv
  /\ bios_pc = "save" => SaveInv
  /\ bios_pc = "handler" => HandlerInv
  /\ bios_pc = "restore" => RestoreInv
  /\ bios_pc = "return" => LeaveInv

\* The room there is on the caller's stack.
LEMMA StackRoom == Top \in Nat /\ Top >= 68
  BY BiosCallsAssumption

\* Assembly and C agree on where a register is in the frame, whichever of the
\* two structures the handler takes it for, and on where the flags are.
LEMMA FieldsAgree ==
  /\ \A r \in General \cup {"esp"} : /\ Layout[r] = biosregs[r]
                                     /\ biosregs[r] \in 0 .. 40
  /\ last.entry = "pcibios" => Layout["eflags"] = 44
  /\ last.entry # "pcibios" => Layout["eflags"] = 48
  /\ \A f, g \in General \cup {"eflags"} : Layout[f] = Layout[g] => f = g
  /\ \A r \in General : biosregs[r] # 16
<1>1. CASE last.entry = "pcibios"
  BY <1>1 DEF Layout, biosregs, bios32regs, General
<1>2. CASE last.entry # "pcibios"
  BY <1>2 DEF Layout, biosregs, General
<1> QED BY <1>1, <1>2

\* The flags' field is the slot that the entry code changed, or pushed.
LEMMA FlagsField ==
  ASSUME last.entry \in WithFrame
  PROVE  FrameAt + Layout["eflags"] = FlagsSlot
  BY FieldsAgree, StackRoom DEF FrameAt, FrameEnd, FlagsSlot, WithFrame

\* Stores to fields of the frame: they are there, and nothing else has changed.
LEMMA Stores ==
  ASSUME regs.esp = FrameAt, NEW STATE fields,
         DOMAIN fields \subseteq General \cup {"eflags"}
  PROVE  /\ DOMAIN Stored(fields) = DOMAIN stack
         /\ \A f \in DOMAIN fields :
              FrameAt + Layout[f] \in DOMAIN stack =>
                Stored(fields)[FrameAt + Layout[f]] = fields[f]
         /\ \A a \in DOMAIN stack :
              (\A f \in DOMAIN fields : a # FrameAt + Layout[f]) => Stored(fields)[a] = stack[a]
<1>1. \A f, g \in DOMAIN fields : FrameAt + Layout[f] = FrameAt + Layout[g] => f = g
  <2>1. \A f \in General \cup {"eflags"} : Layout[f] \in Int
    BY FieldsAgree
  <2>2. FrameAt \in Int
    BY StackRoom DEF FrameAt, FrameEnd
  <2> QED BY <2>1, <2>2, FieldsAgree
<1>2. ASSUME NEW f \in DOMAIN fields, FrameAt + Layout[f] \in DOMAIN stack
      PROVE  Stored(fields)[FrameAt + Layout[f]] = fields[f]
  <2> DEFINE g == CHOOSE g \in DOMAIN fields : FrameAt + Layout[f] = FrameAt + Layout[g]
  <2>1. g \in DOMAIN fields /\ FrameAt + Layout[f] = FrameAt + Layout[g]
    OBVIOUS
  <2>2. g = f
    BY <2>1, <1>1
  <2>3. Stored(fields)[FrameAt + Layout[f]] = fields[g]
    BY <1>2 DEF Stored
  <2> QED BY <2>2, <2>3
<1>3. ASSUME NEW a \in DOMAIN stack, \A f \in DOMAIN fields : a # FrameAt + Layout[f]
      PROVE  Stored(fields)[a] = stack[a]
  BY <1>3 DEF Stored
<1>4. DOMAIN Stored(fields) = DOMAIN stack
  BY DEF Stored
<1> QED BY <1>2, <1>3, <1>4

\* pops: the place of a register among them.
LEMMA PopOrder ==
  \A k \in 1 .. 11 : (CHOOSE j \in DOMAIN RESTORE : RESTORE[j] = RESTORE[k]) = k
<1>1. DOMAIN RESTORE = 1 .. 11
  BY DEF RESTORE
<1>2. \A j, k \in 1 .. 11 : RESTORE[j] = RESTORE[k] => j = k
  BY DEF RESTORE
<1> QED BY <1>1, <1>2

\* The flags: CF is the lowest bit.
LEMMA CarryFlag ==
  ASSUME NEW f \in Nat
  PROVE  /\ ClearCF(f) \in Nat /\ SetCF(ClearCF(f)) = SetCF(f)
         /\ ClearCF(ClearCF(f)) = ClearCF(f)
  BY DEF ClearCF, SetCF

\* An aligned register is where mechanism 1 looks for it.
LEMMA AlignedRegister ==
  ASSUME NEW addr \in 0 .. 255, NEW n \in {1, 2, 4}, addr % n = 0
  PROVE  Doubleword(addr) + Lane(addr, n) = addr
<1>1. addr % 256 = addr
  OBVIOUS
<1>2. addr = 4 * (addr \div 4) + (addr % 4) /\ addr \div 4 \in Nat /\ addr % 4 \in 0 .. 3
  OBVIOUS
<1>3. CASE n = 1
  BY <1>1, <1>2, <1>3 DEF Doubleword, Lane
<1>4. CASE n = 2
  BY <1>1, <1>2, <1>4 DEF Doubleword, Lane
<1>5. CASE n = 4
  BY <1>1, <1>2, <1>5 DEF Doubleword, Lane
<1> QED BY <1>3, <1>4, <1>5

\* The sizes of the accesses.
LEMMA AccessSize ==
  \A eax \in Reads \cup Writes : Size(eax) \in {1, 2, 4}
  BY DEF Reads, Writes, Size, PCI

-----------------------------------------------------------------------------
(* The steps of a service.                                                 *)

\* A kernel's call: its registers are there for the service, the return address
\* and the flags on the stack, and its own part of the stack is as it was.
LEMMA ServiceCall ==
  ASSUME ServiceIInv, NEW r \in Requests, NEW d \in Deltas, Call(r, d)
  PROVE  ServiceIInv'
<1> USE StackRoom
<1>1. /\ regs.esp = Top - 8 /\ DOMAIN regs = Registers /\ DOMAIN stack = 0 .. Top - 1
      /\ serial \in Seq(Nat) /\ bios_pc' = "entry" /\ delta' = d
  BY DEF Call, ServiceIInv, ServiceTypeOK
<1> DEFINE asked == [regs EXCEPT !.eax = r.eax, !.ebx = r.ebx, !.ecx = r.ecx,
                                 !.edi = r.edi, !.eflags = r.eflags]
<1>2. /\ last'.entry = r.entry /\ last'.regs = asked /\ last'.stack = stack
      /\ last'.config = config /\ last'.serial = serial
      /\ config' = config /\ serial' = serial
  BY DEF Call
<1>3. DOMAIN asked = Registers /\ asked.esp = Top - 8
  BY <1>1 DEF Registers
<1>4. /\ asked.eax = r.eax /\ asked.ebx = r.ebx /\ asked.ecx = r.ecx /\ asked.edi = r.edi
      /\ asked.eflags = r.eflags /\ asked.ip = regs.ip /\ asked.cs = regs.cs
  BY <1>1 DEF Registers
<1>0. /\ Top - 8 - 2 = Top - 10 /\ Top - 8 - 4 = Top - 12 /\ Top - 8 - 6 = Top - 14
      /\ Top - 8 - 8 = Top - 16
  OBVIOUS
<1>5. RequestInv'
  <2>1. r.entry \in Real \cup {"bios32", "pcibios"}
    BY BiosCallsAssumption DEF Real
  <2>2. {r.eax, r.ebx, r.ecx, r.edi, r.eflags} \subseteq Nat
    BY BiosCallsAssumption
  <2>3. r.entry = "pcibios" /\ r.eax \in Reads \cup Writes => r.edi < 256
    BY RegisterAssumption
  <2> QED BY <1>1, <1>2, <1>3, <1>4, <2>1, <2>2, <2>3 DEF RequestInv
<1>6. /\ ReturnInv' /\ EntryInv' /\ DOMAIN stack' = 0 .. Top - 1 /\ DOMAIN regs' = Registers
  <2>1. CASE r.entry \in Real
    <3>0. /\ stack' = [stack EXCEPT ![regs.esp - 2] = r.eflags,
                                    ![regs.esp - 4] = regs.cs, ![regs.esp - 6] = regs.ip]
          /\ regs' = [asked EXCEPT !.esp = @ - 6]
      BY <2>1, Zenon DEF Call
    <3>1. /\ stack' = [stack EXCEPT ![Top - 10] = r.eflags,
                                    ![Top - 12] = regs.cs, ![Top - 14] = regs.ip]
          /\ DOMAIN regs' = Registers /\ regs'.esp = Top - 14
          /\ \A q \in Registers \ {"esp"} : regs'[q] = asked[q]
      <4> HIDE DEF asked
      <4> QED BY <1>0, <1>1, <1>3, <3>0 DEF Registers
    <3>2. /\ DOMAIN stack' = 0 .. Top - 1
          /\ \A a \in Top - 8 .. Top - 1 : stack'[a] = stack[a]
          /\ stack'[Top - 10] = r.eflags /\ stack'[Top - 12] = regs.cs
          /\ stack'[Top - 14] = regs.ip
      BY <1>1, <3>1
    <3>3. ReturnInv'
      BY <1>2, <1>4, <2>1, <3>2 DEF ReturnInv, ReturnAt
    <3>4. EntryInv'
      <4> HIDE DEF asked
      <4> QED BY <1>2, <1>3, <1>4, <2>1, <3>1, <3>2 DEF EntryInv, ReturnAt, Unserved
    <3> QED BY <1>3, <3>1, <3>2, <3>3, <3>4
  <2>2. CASE r.entry \notin Real
    <3>0. /\ stack' = [stack EXCEPT ![regs.esp - 4] = regs.cs, ![regs.esp - 8] = regs.ip]
          /\ regs' = [asked EXCEPT !.esp = @ - 8]
      BY <2>2, Zenon DEF Call
    <3>1. /\ stack' = [stack EXCEPT ![Top - 12] = regs.cs, ![Top - 16] = regs.ip]
          /\ DOMAIN regs' = Registers /\ regs'.esp = Top - 16
          /\ \A q \in Registers \ {"esp"} : regs'[q] = asked[q]
      <4> HIDE DEF asked
      <4> QED BY <1>0, <1>1, <1>3, <3>0 DEF Registers
    <3>2. /\ DOMAIN stack' = 0 .. Top - 1
          /\ \A a \in Top - 8 .. Top - 1 : stack'[a] = stack[a]
          /\ stack'[Top - 12] = regs.cs /\ stack'[Top - 16] = regs.ip
      BY <1>1, <3>1
    <3>3. ReturnInv'
      BY <1>2, <1>4, <2>2, <3>2 DEF ReturnInv, ReturnAt
    <3>4. EntryInv'
      <4> HIDE DEF asked
      <4> QED BY <1>2, <1>3, <1>4, <2>2, <3>1, <3>2 DEF EntryInv, ReturnAt, Unserved
    <3> QED BY <1>3, <3>1, <3>2, <3>3, <3>4
  <2> QED BY <2>1, <2>2
<1>7. d \in Nat
  BY BiosCallsAssumption
<1> QED BY <1>1, <1>2, <1>5, <1>6, <1>7 DEF ServiceIInv, ServiceTypeOK

\* bios_irq, bios_intfake and bios32_entry, which need no frame.
LEMMA ServiceShort ==
  ASSUME ServiceIInv, bios_irq \/ bios_intfake \/ bios32_entry
  PROVE  ServiceIInv'
<1> USE StackRoom
<1>1. /\ bios_pc = "entry" /\ bios_pc' = "return" /\ ServiceTypeOK
      /\ RequestInv /\ ReturnInv /\ EntryInv
      /\ last' = last /\ config' = config /\ serial' = serial /\ delta' = delta
  BY DEF ServiceIInv, bios_irq, bios_intfake, bios32_entry
<1>2. \A ecx : last.entry \in {"irq", "intfake", "bios32"} => Effects(ecx)
  <2>1. last.serial \o <<>> = last.serial
    BY <1>1 DEF RequestInv
  <2> QED BY <1>1, <2>1 DEF Effects, EntryInv, Unserved
<1>3. CASE bios_irq
  <2>1. last.entry = "irq" /\ regs' = regs /\ stack' = stack
    BY <1>3 DEF bios_irq
  <2>2. LeaveInv'
    <3>1. FlagsWanted = last.regs.eflags
      BY <2>1 DEF FlagsWanted, Fails
    <3>2. \A r \in General : regs[r] = last.regs[r]
      BY <1>1 DEF EntryInv, General, Registers
    <3>3. stack[Top - 10] = last.regs.eflags
      BY <1>1, <2>1 DEF EntryInv, Real
    <3> QED BY <1>1, <1>2, <2>1, <3>1, <3>2, <3>3
            DEF LeaveInv, EntryInv, FlagsWanted, ReturnAt, Effects, Real, Fails
  <2> QED BY <1>1, <2>1, <2>2 DEF ServiceIInv, ServiceTypeOK, RequestInv, ReturnInv, ReturnAt
<1>4. CASE bios_intfake
  <2>1. /\ last.entry = "intfake" /\ regs' = regs
        /\ stack' = [stack EXCEPT ![Top - 10] = SetCF(stack[Top - 10])]
    <3>1. last.entry = "intfake"
      BY <1>4 DEF bios_intfake
    <3>2. regs.esp + 4 = Top - 10
      BY <1>1, <3>1 DEF EntryInv, ReturnAt, Real
    <3> QED BY <1>4, <3>1, <3>2 DEF bios_intfake, FlagsAt
  <2>2. stack'[Top - 10] = SetCF(last.regs.eflags)
    BY <1>1, <2>1 DEF EntryInv, Real, ServiceTypeOK
  <2>3. \A r \in General : regs[r] = last.regs[r]
    BY <1>1 DEF EntryInv, General, Registers
  <2>4. LeaveInv'
    BY <1>1, <1>2, <2>1, <2>2, <2>3
       DEF LeaveInv, EntryInv, FlagsWanted, ReturnAt, Effects, Real, Fails
  <2>5. ReturnInv'
    BY <1>1, <2>1 DEF ReturnInv, ReturnAt, Real
  <2> QED BY <1>1, <2>1, <2>4, <2>5 DEF ServiceIInv, ServiceTypeOK, RequestInv
<1>5. CASE bios32_entry
  <2>1. /\ last.entry = "bios32" /\ stack' = stack /\ DOMAIN regs' = Registers
        /\ \A r \in Registers \ {"eax", "ebx", "ecx", "edx"} : regs'[r] = regs[r]
    BY <1>1, <1>5 DEF bios32_entry, ServiceTypeOK, Registers
  <2>2. \/ regs'.ebx = regs.ebx /\ regs'.ecx = regs.ecx /\ regs'.edx = regs.edx
        \/ regs.ebx = 0 /\ regs.eax = PCI_SIGNATURE
    BY <1>1, <1>5 DEF bios32_entry, ServiceTypeOK, Registers
  <2>3. \A r \in Registers \ {"esp"} : regs[r] = last.regs[r]
    BY <1>1 DEF EntryInv
  <2>4. \A r \in General \ Results(last) : regs'[r] = last.regs[r]
    BY <2>1, <2>2, <2>3 DEF Results, General, Registers
  <2>5. FlagsWanted = last.regs.eflags /\ regs'.eflags = last.regs.eflags
    BY <2>1, <2>3 DEF FlagsWanted, Fails, Registers
  <2>6. LeaveInv'
    <3>1. regs'.esp = ReturnAt
      BY <1>1, <2>1 DEF EntryInv, Registers
    <3>2. last.entry \notin Real
      BY <2>1 DEF Real
    <3> QED BY <1>1, <1>2, <2>1, <2>4, <2>5, <3>1, <3>2
            DEF LeaveInv, FlagsWanted, ReturnAt, Effects
  <2> QED BY <1>1, <2>1, <2>6 DEF ServiceIInv, ServiceTypeOK, RequestInv, ReturnInv, ReturnAt
<1> QED BY <1>3, <1>4, <1>5

\* The entries of the services with a handler, up to SAVE_BIOSREGS.
LEMMA ServiceEntry ==
  ASSUME ServiceIInv, bios_int \/ pcibios_entry
  PROVE  ServiceIInv'
<1> USE StackRoom
<1>1. /\ bios_pc = "entry" /\ bios_pc' = "save" /\ ServiceTypeOK
      /\ RequestInv /\ ReturnInv /\ EntryInv
      /\ last' = last /\ config' = config /\ serial' = serial /\ delta' = delta
  BY DEF ServiceIInv, bios_int, pcibios_entry
<1>2. \A r \in General : regs[r] = last.regs[r]
  BY <1>1 DEF EntryInv, General, Registers
<1>3. CASE bios_int
  <2>1. /\ last.entry \in {"int10", "int15"} /\ regs' = regs
        /\ stack' = [stack EXCEPT ![Top - 10] = ClearCF(stack[Top - 10])]
    <3>1. last.entry \in {"int10", "int15"}
      BY <1>3 DEF bios_int
    <3>2. regs.esp + 4 = Top - 10
      BY <1>1, <3>1 DEF EntryInv, ReturnAt, Real
    <3> QED BY <1>3, <3>1, <3>2 DEF bios_int, FlagsAt
  <2>2. stack'[Top - 10] = ClearCF(last.regs.eflags)
    BY <1>1, <2>1 DEF EntryInv, Real, ServiceTypeOK
  <2>3. SaveInv'
    BY <1>1, <1>2, <2>1, <2>2
       DEF SaveInv, EntryInv, WithFrame, FrameEnd, ReturnAt, FlagsSlot, Real, Unserved
  <2>4. ReturnInv'
    BY <1>1, <2>1 DEF ReturnInv, ReturnAt, Real
  <2> QED BY <1>1, <2>1, <2>3, <2>4 DEF ServiceIInv, ServiceTypeOK, RequestInv
<1>4. CASE pcibios_entry
  <2>1. /\ last.entry = "pcibios"
        /\ regs' = [regs EXCEPT !.esp = Top - 20, !.eflags = ClearCF(regs.eflags)]
        /\ stack' = [stack EXCEPT ![Top - 20] = ClearCF(regs.eflags)]
    <3>1. last.entry = "pcibios"
      BY <1>4 DEF pcibios_entry
    <3>2. regs.esp - 4 = Top - 20
      BY <1>1, <3>1 DEF EntryInv, ReturnAt, Real
    <3> QED BY <1>4, <3>1, <3>2 DEF pcibios_entry
  <2>2. regs.eflags = last.regs.eflags
    BY <1>1 DEF EntryInv, Registers
  <2>3. /\ stack'[Top - 20] = ClearCF(last.regs.eflags) /\ regs'.esp = Top - 20
        /\ \A r \in General : regs'[r] = regs[r]
        /\ DOMAIN regs' = Registers
    BY <1>1, <2>1, <2>2 DEF ServiceTypeOK, Registers, General
  <2>4. SaveInv'
    BY <1>1, <1>2, <2>1, <2>3
       DEF SaveInv, EntryInv, WithFrame, FrameEnd, FlagsSlot, Unserved
  <2>5. ReturnInv'
    BY <1>1, <2>1 DEF ReturnInv, ReturnAt, Real
  <2> QED BY <1>1, <2>1, <2>3, <2>4, <2>5 DEF ServiceIInv, ServiceTypeOK, RequestInv
<1> QED BY <1>3, <1>4

\* SAVE_BIOSREGS: the pushes make the frame that the structures describe.
LEMMA ServiceSave ==
  ASSUME ServiceIInv, SAVE_BIOSREGS
  PROVE  ServiceIInv'
<1> USE StackRoom
<1>1. /\ bios_pc = "save" /\ bios_pc' = "handler" /\ ServiceTypeOK
      /\ RequestInv /\ ReturnInv /\ SaveInv
      /\ last' = last /\ config' = config /\ serial' = serial /\ delta' = delta
  BY DEF ServiceIInv, SAVE_BIOSREGS
<1>2. /\ regs.esp = FrameEnd /\ FrameEnd \in Int /\ FrameEnd - 44 >= 4 /\ FrameEnd <= Top - 14
  BY <1>1 DEF SaveInv, FrameEnd
<1> DEFINE pushed(k) == IF SAVE[k] = "esp" THEN FrameEnd - 4 * (k - 1) ELSE regs[SAVE[k]]
<1>3. DOMAIN SAVE = 1 .. 11 /\ Len(SAVE) = 11
  BY DEF SAVE
<1>4. /\ DOMAIN stack' = 0 .. Top - 1
      /\ \A a \in 0 .. Top - 1 :
           stack'[a] = IF \E k \in 1 .. 11 : a = FrameEnd - 4 * k
                       THEN pushed((FrameEnd - a) \div 4) ELSE stack[a]
  BY <1>1, <1>2, <1>3 DEF SAVE_BIOSREGS, ServiceTypeOK
<1>5. \A k \in 1 .. 11 : stack'[FrameEnd - 4 * k] = pushed(k)
  <2> TAKE k \in 1 .. 11
  <2>1. (FrameEnd - (FrameEnd - 4 * k)) \div 4 = k /\ FrameEnd - 4 * k \in 0 .. Top - 1
    BY <1>2
  <2> QED BY <1>4, <2>1
<1>6. \A a \in FrameEnd .. Top - 1 : stack'[a] = stack[a]
  <2> TAKE a \in FrameEnd .. Top - 1
  <2>1. ~ \E k \in 1 .. 11 : a = FrameEnd - 4 * k
    BY <1>2
  <2>2. a \in 0 .. Top - 1
    BY <1>2
  <2> QED BY <1>4, <2>1, <2>2
<1>7. DOMAIN regs' = Registers /\ regs'.esp = FrameAt
  BY <1>1, <1>2, <1>3 DEF SAVE_BIOSREGS, ServiceTypeOK, Registers, FrameAt
<1>8. \A r \in General : stack'[FrameAt + biosregs[r]] = last.regs[r]
  <2>1. \A k \in 1 .. 11 \ {7} : /\ FrameAt + biosregs[SAVE[k]] = FrameEnd - 4 * k
                                 /\ pushed(k) = regs[SAVE[k]] /\ SAVE[k] \in General
    BY <1>2 DEF FrameAt, biosregs, SAVE, General
  <2>2. \A r \in General : \E k \in 1 .. 11 \ {7} : r = SAVE[k]
    <3>1. /\ SAVE[1] = "fs" /\ SAVE[2] = "es" /\ SAVE[3] = "ds" /\ SAVE[4] = "edi"
          /\ SAVE[5] = "esi" /\ SAVE[6] = "ebp" /\ SAVE[8] = "edx" /\ SAVE[9] = "ecx"
          /\ SAVE[10] = "ebx" /\ SAVE[11] = "eax"
      BY DEF SAVE
    <3> QED BY <3>1 DEF General
  <2>3. \A r \in General : regs[r] = last.regs[r]
    BY <1>1 DEF SaveInv
  <2> QED BY <1>5, <2>1, <2>2, <2>3
<1>9. stack'[FrameAt + 16] = FrameAt + 20
  <2>1. FrameAt + 16 = FrameEnd - 4 * 7 /\ pushed(7) = FrameAt + 20
    BY <1>2 DEF FrameAt, SAVE
  <2> QED BY <1>5, <2>1
<1>10. stack'[FlagsSlot] = ClearCF(last.regs.eflags)
  <2>1. FlagsSlot \in FrameEnd .. Top - 1
    BY DEF FlagsSlot, FrameEnd
  <2> QED BY <1>1, <1>6, <2>1 DEF SaveInv
<1>11. HandlerInv'
  BY <1>1, <1>7, <1>8, <1>9, <1>10
     DEF HandlerInv, FrameInv, SaveInv, FrameAt, FrameEnd, FlagsSlot, Unserved
<1>12. ReturnInv'
  BY <1>1, <1>6 DEF ReturnInv, ReturnAt, FrameEnd, Real, SaveInv, WithFrame
<1> QED BY <1>1, <1>4, <1>7, <1>11, <1>12 DEF ServiceIInv, ServiceTypeOK, RequestInv

\* A handler's results are registers of the frame.
LEMMA ResultFields == Results(last) \subseteq General
  BY DEF Results, General

\* A handler finds the caller's registers in its argument, with CF clear.
LEMMA Arguments ==
  ASSUME HandlerInv
  PROVE  /\ \A f \in General : Arg(f) = last.regs[f]
         /\ Arg("eflags") = ClearCF(last.regs.eflags)
<1>1. \A f \in General : Layout[f] = biosregs[f]
  BY FieldsAgree
<1>2. \A f \in General : Arg(f) = last.regs[f]
  BY <1>1 DEF HandlerInv, FrameInv, Arg
<1>3. Arg("eflags") = ClearCF(last.regs.eflags)
  BY FlagsField DEF HandlerInv, FrameInv, Arg
<1> QED BY <1>2, <1>3

\* Where the frame is: below the way back, with the flags apart from the rest.
LEMMA FrameRoom ==
  /\ FrameEnd \in Int /\ FrameAt \in 0 .. Top - 1 /\ FrameAt + 40 < FrameEnd
  /\ FrameEnd <= Top - 14 /\ FlagsSlot \in FrameEnd .. Top - 9
  /\ \A f \in General : /\ FrameAt + Layout[f] \in FrameAt .. FrameEnd - 1
                        /\ FrameAt + Layout[f] # FrameAt + 16
                        /\ Layout[f] = biosregs[f]
<1>1. /\ FrameEnd \in Int /\ FrameAt \in 0 .. Top - 1 /\ FrameAt + 40 < FrameEnd
      /\ FrameEnd <= Top - 14 /\ FlagsSlot \in FrameEnd .. Top - 9
  BY StackRoom DEF FrameAt, FrameEnd, FlagsSlot
<1>2. ASSUME NEW x \in 0 .. 40
      PROVE  FrameAt + x \in FrameAt .. FrameEnd - 1 /\ (x # 16 => FrameAt + x # FrameAt + 16)
  BY <1>1, StackRoom
<1>3. \A f \in General : Layout[f] = biosregs[f] /\ Layout[f] \in 0 .. 40 /\ Layout[f] # 16
  BY FieldsAgree
<1> QED BY <1>1, <1>2, <1>3

\* A handler that stores only results, and the flags if CF has to be set, leaves
\* the frame to RESTORE_BIOSREGS and the way back to the caller.
LEMMA Handled ==
  ASSUME ServiceTypeOK, HandlerInv, RequestInv, ReturnInv, NEW STATE fields,
         DOMAIN fields \subseteq Results(last) \cup {"eflags"},
         FlagsWanted = IF "eflags" \in DOMAIN fields THEN fields["eflags"]
                       ELSE ClearCF(last.regs.eflags),
         stack' = Stored(fields) \/ (stack' = stack /\ DOMAIN fields = {}),
         DOMAIN regs' = Registers, regs'.esp = regs.esp, last' = last
  PROVE  /\ DOMAIN stack' = 0 .. Top - 1
         /\ ReturnInv' /\ RequestInv'
         /\ FrameInv(Results(last))'
         /\ stack'[FlagsSlot] = FlagsWanted
         /\ "ecx" \in DOMAIN fields => stack'[FrameAt + 8] = fields["ecx"]
<1>1. regs.esp = FrameAt /\ last.entry \in WithFrame /\ DOMAIN stack = 0 .. Top - 1
  BY DEF HandlerInv, FrameInv, ServiceTypeOK
<1>2. DOMAIN fields \subseteq General \cup {"eflags"}
  BY ResultFields
<1>3. FrameAt + Layout["eflags"] = FlagsSlot
  BY <1>1, FlagsField
<1>4. /\ DOMAIN stack' = 0 .. Top - 1
      /\ \A f \in DOMAIN fields : stack'[FrameAt + Layout[f]] = fields[f]
      /\ \A a \in 0 .. Top - 1 :
           (\A f \in DOMAIN fields : a # FrameAt + Layout[f]) => stack'[a] = stack[a]
  <2>1. CASE stack' = Stored(fields)
    <3>1. \A f \in DOMAIN fields : FrameAt + Layout[f] \in DOMAIN stack
      BY <1>1, <1>2, <1>3, FrameRoom, StackRoom
    <3> QED BY <1>1, <1>2, <2>1, <3>1, Stores
  <2>2. CASE stack' = stack /\ DOMAIN fields = {}
    BY <1>1, <2>2
  <2> QED BY <2>1, <2>2
<1>5. \A f \in General \ Results(last) :
        stack'[FrameAt + biosregs[f]] = stack[FrameAt + biosregs[f]]
  <2> TAKE f \in General \ Results(last)
  <2>1. ASSUME NEW g \in DOMAIN fields
        PROVE  FrameAt + Layout[f] # FrameAt + Layout[g]
    <3>1. f # g /\ f \in General /\ g \in General \cup {"eflags"}
      BY <1>2 DEF General
    <3>2. Layout[f] # Layout[g] /\ Layout[f] \in Int /\ Layout[g] \in Int
      BY <3>1, FieldsAgree
    <3>3. FrameAt \in Int
      BY FrameRoom
    <3> QED BY <3>2, <3>3
  <2>2. FrameAt + Layout[f] \in 0 .. Top - 1 /\ Layout[f] = biosregs[f]
    BY FrameRoom, StackRoom
  <2> QED BY <1>4, <2>1, <2>2
<1>6. stack'[FrameAt + 16] = stack[FrameAt + 16]
  <2>1. ASSUME NEW g \in DOMAIN fields
        PROVE  FrameAt + 16 # FrameAt + Layout[g]
    BY <1>2, <1>3, FrameRoom
  <2>2. FrameAt + 16 \in 0 .. Top - 1
    BY FrameRoom, StackRoom
  <2> QED BY <1>4, <2>1, <2>2
<1>7. \A a \in FrameEnd .. Top - 1 : a # FlagsSlot => stack'[a] = stack[a]
  <2> TAKE a \in FrameEnd .. Top - 1
  <2> HAVE a # FlagsSlot
  <2>1. ASSUME NEW g \in DOMAIN fields
        PROVE  a # FrameAt + Layout[g]
    BY <1>2, <1>3, FrameRoom
  <2>2. a \in 0 .. Top - 1
    BY FrameRoom, StackRoom
  <2> QED BY <1>4, <2>1, <2>2
<1>8. stack'[FlagsSlot] = FlagsWanted
  <2>1. CASE "eflags" \in DOMAIN fields
    BY <1>3, <1>4, <2>1
  <2>2. CASE "eflags" \notin DOMAIN fields
    <3>1. ASSUME NEW g \in DOMAIN fields
          PROVE  FlagsSlot # FrameAt + Layout[g]
      BY <1>2, <2>2, FrameRoom
    <3>2. FlagsSlot \in 0 .. Top - 1
      BY FrameRoom, StackRoom
    <3> QED BY <1>4, <2>2, <3>1, <3>2 DEF HandlerInv
  <2> QED BY <2>1, <2>2
<1>9. ReturnInv'
  <2>1. CASE last.entry = "pcibios"
    <3>1. FrameEnd = Top - 20 /\ FlagsSlot = Top - 20 /\ last.entry \notin Real
      BY <2>1 DEF FrameEnd, FlagsSlot, Real
    <3>2. \A a \in Top - 19 .. Top - 1 : stack'[a] = stack[a]
      BY <1>7, <3>1, StackRoom
    <3> QED BY <3>1, <3>2, StackRoom DEF ReturnInv, ReturnAt
  <2>2. CASE last.entry \in {"int10", "int15"}
    <3>1. FrameEnd = Top - 14 /\ FlagsSlot = Top - 10 /\ last.entry \in Real
      BY <2>2 DEF FrameEnd, FlagsSlot, Real
    <3>2. \A a \in (Top - 8 .. Top - 1) \cup {Top - 14, Top - 12} : stack'[a] = stack[a]
      BY <1>7, <3>1, StackRoom
    <3> QED BY <3>1, <3>2, StackRoom DEF ReturnInv, ReturnAt
  <2> QED BY <1>1, <2>1, <2>2 DEF WithFrame
<1>10. FrameInv(Results(last))'
  BY <1>1, <1>5, <1>6 DEF HandlerInv, FrameInv, FrameAt, FrameEnd
<1>11. ASSUME "ecx" \in DOMAIN fields
       PROVE  stack'[FrameAt + 8] = fields["ecx"]
  <2>1. Layout["ecx"] = 8
    BY FrameRoom DEF General, biosregs
  <2> QED BY <1>4, <1>11, <2>1
<1> QED BY <1>4, <1>8, <1>9, <1>10, <1>11 DEF RequestInv

\* What depends on the request alone.
LEMMA SameRequest ==
  ASSUME last' = last
  PROVE  /\ FlagsWanted' = FlagsWanted /\ FlagsSlot' = FlagsSlot /\ FrameAt' = FrameAt
         /\ FrameEnd' = FrameEnd /\ ReturnAt' = ReturnAt /\ Results(last)' = Results(last)
<1>1. FlagsWanted' = FlagsWanted
  BY Zenon DEF FlagsWanted
<1> QED BY <1>1 DEF FlagsSlot, FrameAt, FrameEnd, ReturnAt

\* What compiled C leaves in the registers.
LEMMA RegistersAfter ==
  ASSUME ServiceTypeOK,
         regs' = Clobbered(regs) \/ regs' = [Clobbered(regs) EXCEPT !.fs = Junk]
  PROVE  DOMAIN regs' = Registers /\ regs'.esp = regs.esp
  BY DEF Clobbered, ServiceTypeOK, Registers

\* int10_handler.
LEMMA ServiceInt10 ==
  ASSUME ServiceIInv, int10_handler
  PROVE  ServiceIInv'
<1>1. /\ bios_pc' = "restore" /\ ServiceTypeOK /\ RequestInv /\ ReturnInv /\ HandlerInv
      /\ last.entry = "int10" /\ last' = last /\ config' = config /\ delta' = delta
  BY DEF ServiceIInv, int10_handler
<1>2. Arg("eax") = last.regs.eax /\ last.regs.eax \in Nat
  BY <1>1, Arguments DEF General, RequestInv
<1> DEFINE eax == last.regs.eax
           fields == IF Ah(eax) = 79 THEN [eax |-> 335] ELSE [f \in {} |-> 0]
<1>3. stack' = Stored(fields) \/ (stack' = stack /\ DOMAIN fields = {})
  <2>1. stack' = IF Ah(eax) = 79 THEN Stored([eax |-> 335]) ELSE stack
    BY <1>2 DEF int10_handler
  <2>2. CASE Ah(eax) = 79
    <3>1. fields = [eax |-> 335]
      BY <2>2
    <3> QED BY <2>1, <2>2, <3>1
  <2>3. CASE Ah(eax) # 79
    BY <2>1, <2>3
  <2> QED BY <2>2, <2>3
<1>4. DOMAIN regs' = Registers /\ regs'.esp = regs.esp
  BY <1>1, RegistersAfter DEF int10_handler
<1>5. DOMAIN fields \subseteq Results(last) \cup {"eflags"} /\ "eflags" \notin DOMAIN fields
  BY <1>1 DEF Results
<1>6. FlagsWanted = ClearCF(last.regs.eflags)
  BY <1>1 DEF FlagsWanted, Fails
<1>7. /\ DOMAIN regs' = Registers /\ DOMAIN stack' = 0 .. Top - 1
      /\ ReturnInv' /\ RequestInv' /\ FrameInv(Results(last))' /\ stack'[FlagsSlot] = FlagsWanted
  <2> HIDE DEF fields
  <2> QED BY <1>1, <1>3, <1>4, <1>5, <1>6, Handled
<1>8. /\ serial' = last.serial \o (IF Ah(eax) = 14 THEN <<Al(eax)>> ELSE <<>>)
      /\ serial' \in Seq(Nat)
  <2>1. serial = last.serial /\ serial \in Seq(Nat)
    BY <1>1 DEF HandlerInv, Unserved, ServiceTypeOK
  <2>2. Al(eax) \in Nat
    BY <1>2 DEF Al
  <2>3. serial' = IF Ah(eax) = 14 THEN Append(serial, Al(eax)) ELSE serial
    BY <1>2 DEF int10_handler
  <2>4. CASE Ah(eax) = 14
    BY <2>1, <2>2, <2>3, <2>4
  <2>5. CASE Ah(eax) # 14
    BY <2>1, <2>3, <2>5
  <2> QED BY <2>4, <2>5
<1>9. RestoreInv'
  <2>1. last.entry # "pcibios" /\ config = last.config
    BY <1>1 DEF HandlerInv, Unserved
  <2> QED BY <1>1, <1>7, <1>8, <2>1, SameRequest
          DEF RestoreInv, Effects
<1> QED BY <1>1, <1>7, <1>8, <1>9 DEF ServiceIInv, ServiceTypeOK

\* int15_handler.
LEMMA ServiceInt15 ==
  ASSUME ServiceIInv, int15_handler
  PROVE  ServiceIInv'
<1>1. /\ bios_pc' = "restore" /\ ServiceTypeOK /\ RequestInv /\ ReturnInv /\ HandlerInv
      /\ last.entry = "int15" /\ last' = last /\ config' = config /\ serial' = serial
      /\ delta' = delta
  BY DEF ServiceIInv, int15_handler
<1>2. /\ Arg("eax") = last.regs.eax /\ last.regs.eflags \in Nat
      /\ Arg("eflags") = ClearCF(last.regs.eflags)
  BY <1>1, Arguments DEF General, RequestInv
<1>3. DOMAIN regs' = Registers /\ regs'.esp = regs.esp
  BY <1>1, RegistersAfter DEF int15_handler
<1>4. ASSUME last.regs.eax = 59424
      PROVE  /\ DOMAIN regs' = Registers /\ DOMAIN stack' = 0 .. Top - 1
             /\ ReturnInv' /\ RequestInv' /\ FrameInv(Results(last))'
             /\ stack'[FlagsSlot] = FlagsWanted
  <2> DEFINE F == [eax |-> SMAP, ecx |-> 20,
                   ebx |-> IF Arg("ebx") + 1 >= NrMap THEN 0 ELSE Arg("ebx") + 1]
  <2>1. stack' = Stored(F)
    BY <1>2, <1>4 DEF int15_handler
  <2>2. DOMAIN F = {"eax", "ebx", "ecx"} /\ "eflags" \notin DOMAIN F
    OBVIOUS
  <2>3. Results(last) = {"eax", "ebx", "ecx"}
    BY <1>1, <1>4 DEF Results
  <2>4. FlagsWanted = ClearCF(last.regs.eflags)
    BY <1>1, <1>4 DEF FlagsWanted, Fails
  <2> HIDE DEF F
  <2>5. DOMAIN F \subseteq Results(last) \cup {"eflags"}
    BY <2>2, <2>3
  <2> QED BY <1>1, <1>3, <2>1, <2>2, <2>4, <2>5, Handled
<1>5. ASSUME last.regs.eax # 59424
      PROVE  /\ DOMAIN regs' = Registers /\ DOMAIN stack' = 0 .. Top - 1
             /\ ReturnInv' /\ RequestInv' /\ FrameInv(Results(last))'
             /\ stack'[FlagsSlot] = FlagsWanted
  <2> DEFINE F == [eflags |-> SetCF(Arg("eflags"))]
  <2>1. stack' = Stored(F)
    BY <1>2, <1>5 DEF int15_handler
  <2>2. DOMAIN F = {"eflags"} /\ F["eflags"] = SetCF(last.regs.eflags)
    BY <1>2, CarryFlag
  <2>3. FlagsWanted = SetCF(last.regs.eflags)
    BY <1>1, <1>5 DEF FlagsWanted, Fails
  <2> HIDE DEF F
  <2> QED BY <1>1, <1>3, <2>1, <2>2, <2>3, Handled
<1>6. RestoreInv'
  <2>1. last.entry # "pcibios" /\ config = last.config /\ serial = last.serial
    BY <1>1 DEF HandlerInv, Unserved
  <2>2. serial = last.serial \o <<>>
    BY <1>1, <2>1 DEF ServiceTypeOK
  <2>3. config' = last'.config /\ serial' = last'.serial \o <<>> /\ last'.entry = "int15"
    BY <1>1, <2>1, <2>2
  <2>4. Effects(stack[FrameAt + 8])'
    BY <2>3 DEF Effects
  <2> QED BY <1>1, <1>4, <1>5, <2>4, SameRequest DEF RestoreInv
<1> QED BY <1>1, <1>4, <1>5, <1>6 DEF ServiceIInv, ServiceTypeOK

\* pcibios_handler: what it stores, request by request.
LEMMA PciHandler ==
  ASSUME pcibios_handler, Arg("eax") = last.regs.eax
  PROVE  LET eax == last.regs.eax
         IN  /\ eax = PCI(1) =>
                  stack' = Stored([eax |-> 1, ebx |-> 528, edx |-> PCI_NAME,
                                   ecx |-> FLAT_VAR(MAX_BUS_AT, Memory)])
             /\ eax \in Reads =>
                  stack' = Stored([eax |-> WithAh(eax, 0),
                                   ecx |-> pci_config_read(Bdf(Arg("ebx")), Arg("edi"), Size(eax))])
             /\ eax \in Writes =>
                  /\ stack' = Stored([eax |-> WithAh(eax, 0)])
                  /\ config' = pci_config_write(Bdf(Arg("ebx")), Arg("edi"), Size(eax), Arg("ecx"))
             /\ eax \notin Writes => config' = config
             /\ eax \notin {PCI(1)} \cup Reads \cup Writes =>
                  \E status : stack' = Failed(status)
<1> DEFINE eax == last.regs.eax
<1>1. stack' =
        CASE eax = PCI(1) -> Stored([eax |-> 1, ebx |-> 528, edx |-> PCI_NAME,
                                     ecx |-> FLAT_VAR(MAX_BUS_AT, Memory)])
          [] eax \in Reads -> Stored([eax |-> WithAh(eax, 0),
                                      ecx |-> pci_config_read(Bdf(Arg("ebx")), Arg("edi"), Size(eax))])
          [] eax \in Writes -> Stored([eax |-> WithAh(eax, 0)])
          [] eax \in {PCI(2), PCI(3)} -> Failed(134)
          [] OTHER -> Failed(129)
  BY Zenon DEF pcibios_handler
<1>2. config' = IF eax \in Writes
                THEN pci_config_write(Bdf(Arg("ebx")), Arg("edi"), Size(eax), Arg("ecx"))
                ELSE config
  BY Zenon DEF pcibios_handler
<1>3. /\ PCI(1) = 45313 /\ Reads = {45320, 45321, 45322} /\ Writes = {45323, 45324, 45325}
      /\ PCI(2) = 45314 /\ PCI(3) = 45315
  BY DEF PCI, Reads, Writes
<1> HIDE DEF eax
<1>4. CASE eax = PCI(1)
  BY <1>1, <1>2, <1>3, <1>4 DEF eax
<1>5. CASE eax \in Reads
  BY <1>1, <1>2, <1>3, <1>5 DEF eax
<1>6. CASE eax \in Writes
  BY <1>1, <1>2, <1>3, <1>6 DEF eax
<1>7. CASE eax \in {PCI(2), PCI(3)}
  BY <1>1, <1>2, <1>3, <1>7 DEF eax
<1>8. CASE eax \notin {PCI(1), PCI(2), PCI(3)} \cup Reads \cup Writes
  BY <1>1, <1>2, <1>3, <1>8 DEF eax
<1> QED BY <1>4, <1>5, <1>6, <1>7, <1>8

\* pic_base is where physical address 0 is mapped, so FLAT_VAR is the variable.
LEMMA FlatVariable ==
  ASSUME delta \in Nat
  PROVE  FLAT_VAR(MAX_BUS_AT, Memory) = MAX_BUS
<1>1. MAX_BUS_AT + pic_base - delta = MAX_BUS_AT
  BY DEF pic_base, LABEL, MAX_BUS_AT
<1> QED BY <1>1 DEF FLAT_VAR, Memory

\* A read of an aligned register is one of its bytes.
LEMMA AlignedRead ==
  ASSUME NEW eax \in Reads \cup Writes, NEW addr \in 0 .. 255, addr % Size(eax) = 0, NEW bdf
  PROVE  pci_config_read(bdf, addr, Size(eax)) = Little(config[bdf], addr, Size(eax))
<1>1. Doubleword(addr) + Lane(addr, Size(eax)) = addr
  BY AccessSize, AlignedRegister
<1> QED BY <1>1 DEF pci_config_read

\* A write of an aligned register changes its bytes.
LEMMA AlignedWrite ==
  ASSUME NEW eax \in Reads \cup Writes, NEW addr \in 0 .. 255, addr % Size(eax) = 0, NEW STATE bdf,
         NEW STATE val
  PROVE  LET written == pci_config_write(bdf, addr, Size(eax), val)
         IN  \A f \in DOMAIN written : \A b \in DOMAIN written[f] :
               written[f][b] = IF f = bdf /\ b \in addr .. addr + Size(eax) - 1
                               THEN ByteOf(val, b - addr) ELSE config[f][b]
<1>1. Doubleword(addr) + Lane(addr, Size(eax)) = addr
  BY AccessSize, AlignedRegister
<1> DEFINE w == pci_config_write(bdf, addr, Size(eax), val)
           bytes == [a \in DOMAIN config[bdf] |->
                       IF a \in addr .. addr + Size(eax) - 1
                       THEN ByteOf(val, a - addr) ELSE config[bdf][a]]
<1>2. w = [config EXCEPT ![bdf] = bytes]
  BY <1>1 DEF pci_config_write
<1> HIDE DEF w, bytes
<1>3. \A f \in DOMAIN w : w[f] = IF f = bdf THEN bytes ELSE config[f]
  BY <1>2
<1>4. \A b \in DOMAIN bytes :
        bytes[b] = IF b \in addr .. addr + Size(eax) - 1
                   THEN ByteOf(val, b - addr) ELSE config[bdf][b]
  BY DEF bytes
<1>5. ASSUME NEW f \in DOMAIN w, NEW b \in DOMAIN w[f]
      PROVE  w[f][b] = IF f = bdf /\ b \in addr .. addr + Size(eax) - 1
                       THEN ByteOf(val, b - addr) ELSE config[f][b]
  <2>1. CASE f = bdf
    BY <1>3, <1>4, <2>1
  <2>2. CASE f # bdf
    BY <1>3, <2>2
  <2> QED BY <2>1, <2>2
<1> QED BY <1>5 DEF w

\* pcibios_handler.
LEMMA ServicePci ==
  ASSUME ServiceIInv, pcibios_handler
  PROVE  ServiceIInv'
<1>1. /\ bios_pc' = "restore" /\ ServiceTypeOK /\ RequestInv /\ ReturnInv /\ HandlerInv
      /\ last.entry = "pcibios" /\ last' = last /\ serial' = serial /\ delta' = delta
  BY DEF ServiceIInv, pcibios_handler
<1> DEFINE eax == last.regs.eax
           bdf == Bdf(last.regs.ebx)
           edi == last.regs.edi
<1>2. /\ Arg("eax") = eax /\ Arg("ebx") = last.regs.ebx /\ Arg("ecx") = last.regs.ecx
      /\ Arg("edi") = edi /\ Arg("eflags") = ClearCF(last.regs.eflags)
      /\ last.regs.eflags \in Nat /\ edi \in Nat
  BY <1>1, Arguments DEF General, RequestInv
<1>3. DOMAIN regs' = Registers /\ regs'.esp = regs.esp
  BY <1>1, RegistersAfter DEF pcibios_handler
<1>4. config = last.config /\ serial = last.serial /\ serial = last.serial \o <<>>
  BY <1>1 DEF HandlerInv, Unserved, ServiceTypeOK
<1>5. /\ PCI(1) = 45313 /\ Reads = {45320, 45321, 45322} /\ Writes = {45323, 45324, 45325}
  BY DEF PCI, Reads, Writes
<1>6. eax \in Reads \cup Writes => edi \in 0 .. 255
  <2> SUFFICES ASSUME last.regs.eax \in Reads \cup Writes PROVE last.regs.edi < 256
    BY <1>2
  <2> QED BY <1>1 DEF RequestInv
<1>7. Fails(last) <=> eax \notin {PCI(1)} \cup Reads \cup Writes
  BY <1>1 DEF Fails
<1>8. FlagsWanted = IF Fails(last) THEN SetCF(last.regs.eflags) ELSE ClearCF(last.regs.eflags)
  BY <1>1 DEF FlagsWanted
<1>9. Results(last) = IF eax = PCI(1) THEN {"eax", "ebx", "ecx", "edx"}
                      ELSE IF eax \in Reads THEN {"eax", "ecx"} ELSE {"eax"}
  BY <1>1 DEF Results
<1> DEFINE Left == /\ DOMAIN stack' = 0 .. Top - 1 /\ ReturnInv' /\ RequestInv'
                   /\ FrameInv(Results(last))' /\ stack'[FlagsSlot] = FlagsWanted
<1>10. CASE eax = PCI(1)
  <2> DEFINE F == [eax |-> 1, ebx |-> 528, edx |-> PCI_NAME,
                   ecx |-> FLAT_VAR(MAX_BUS_AT, Memory)]
  <2>1. stack' = Stored(F) /\ config' = config
    BY <1>2, <1>5, <1>10, PciHandler
  <2>2. DOMAIN F = {"eax", "ebx", "ecx", "edx"} /\ F["ecx"] = MAX_BUS
    BY <1>1, FlatVariable DEF ServiceTypeOK
  <2>3. FlagsWanted = ClearCF(last.regs.eflags)
    BY <1>7, <1>8, <1>10
  <2> HIDE DEF F
  <2>4. DOMAIN F \subseteq Results(last) \cup {"eflags"} /\ "eflags" \notin DOMAIN F
    BY <1>9, <1>10, <2>2
  <2>5. Left /\ stack'[FrameAt + 8] = MAX_BUS
    BY <1>1, <1>3, <2>1, <2>2, <2>3, <2>4, Handled
  <2>6. Effects(MAX_BUS)'
    <3>1. /\ last'.entry = "pcibios" /\ last'.regs.eax = PCI(1) /\ config' = last'.config
          /\ serial' = last'.serial \o <<>>
      BY <1>1, <1>4, <1>10, <2>1
    <3>2. PCI(1) \notin Reads \cup Writes
      BY <1>5
    <3> QED BY <3>1, <3>2 DEF Effects
  <2> QED BY <1>1, <1>3, <2>5, <2>6, SameRequest DEF ServiceIInv, ServiceTypeOK, RestoreInv
<1>11. CASE eax \in Reads
  <2> DEFINE F == [eax |-> WithAh(eax, 0), ecx |-> pci_config_read(bdf, edi, Size(eax))]
  <2>1. stack' = Stored(F) /\ config' = config
    BY <1>2, <1>5, <1>11, PciHandler
  <2>2. DOMAIN F = {"eax", "ecx"} /\ F["ecx"] = pci_config_read(bdf, edi, Size(eax))
    OBVIOUS
  <2>3. FlagsWanted = ClearCF(last.regs.eflags)
    BY <1>7, <1>8, <1>11
  <2> HIDE DEF F
  <2>4. DOMAIN F \subseteq Results(last) \cup {"eflags"} /\ "eflags" \notin DOMAIN F
    BY <1>5, <1>9, <1>11, <2>2
  <2>5. Left /\ stack'[FrameAt + 8] = pci_config_read(bdf, edi, Size(eax))
    BY <1>1, <1>3, <2>1, <2>2, <2>3, <2>4, Handled
  <2>6. edi % Size(eax) = 0 =>
          pci_config_read(bdf, edi, Size(eax)) = Little(config[bdf], edi, Size(eax))
    BY <1>6, <1>11, AlignedRead
  <2>7. Effects(stack[FrameAt + 8])'
    <3>1. /\ last'.entry = "pcibios" /\ last'.regs = last.regs /\ config' = last'.config
          /\ serial' = last'.serial \o <<>> /\ config' = config
      BY <1>1, <1>4, <2>1
    <3>2. last.regs.eax \in Reads /\ last.regs.eax # PCI(1)
      BY <1>5, <1>11
    <3>3. last.regs.edi % Size(last.regs.eax) = 0 =>
            stack'[FrameAt' + 8]
              = Little(config[Bdf(last.regs.ebx)], last.regs.edi, Size(last.regs.eax))
      BY <1>1, <2>5, <2>6, SameRequest
    <3> QED BY <3>1, <3>2, <3>3 DEF Effects
  <2> QED BY <1>1, <1>3, <2>5, <2>7, SameRequest DEF ServiceIInv, ServiceTypeOK, RestoreInv
<1>12. CASE eax \in Writes
  <2> DEFINE F == [eax |-> WithAh(eax, 0)]
  <2>1. stack' = Stored(F) /\ config' = pci_config_write(bdf, edi, Size(eax), last.regs.ecx)
    BY <1>2, <1>5, <1>12, PciHandler
  <2>2. DOMAIN F = {"eax"}
    OBVIOUS
  <2>3. FlagsWanted = ClearCF(last.regs.eflags)
    BY <1>7, <1>8, <1>12
  <2> HIDE DEF F
  <2>4. DOMAIN F \subseteq Results(last) \cup {"eflags"} /\ "eflags" \notin DOMAIN F
    BY <1>5, <1>9, <1>12, <2>2
  <2>5. Left
    BY <1>1, <1>3, <2>1, <2>2, <2>3, <2>4, Handled
  <2>6. edi % Size(eax) = 0 =>
          \A f \in DOMAIN config' : \A b \in DOMAIN config'[f] :
            config'[f][b] = IF f = bdf /\ b \in edi .. edi + Size(eax) - 1
                            THEN ByteOf(last.regs.ecx, b - edi) ELSE config[f][b]
    <3> SUFFICES ASSUME edi % Size(eax) = 0
                 PROVE  \A f \in DOMAIN config' : \A b \in DOMAIN config'[f] :
                          config'[f][b] = IF f = bdf /\ b \in edi .. edi + Size(eax) - 1
                                          THEN ByteOf(last.regs.ecx, b - edi) ELSE config[f][b]
      OBVIOUS
    <3>1. eax \in Reads \cup Writes /\ edi \in 0 .. 255
      BY <1>6, <1>12
    <3> HIDE DEF eax, edi, bdf
    <3> DEFINE w == pci_config_write(bdf, edi, Size(eax), last.regs.ecx)
    <3>2. \A f \in DOMAIN w : \A b \in DOMAIN w[f] :
            w[f][b] = IF f = bdf /\ b \in edi .. edi + Size(eax) - 1
                      THEN ByteOf(last.regs.ecx, b - edi) ELSE config[f][b]
      BY <3>1, AlignedWrite
    <3>3. config' = w
      BY <2>1
    <3> HIDE DEF w
    <3> QED BY <3>2, <3>3
  <2>7. Effects(stack[FrameAt + 8])'
    <3>1. /\ last'.entry = "pcibios" /\ last'.regs = last.regs
          /\ serial' = last'.serial \o <<>> /\ last'.config = config
      BY <1>1, <1>4
    <3>2. last.regs.eax \in Writes /\ last.regs.eax \notin Reads /\ last.regs.eax # PCI(1)
      BY <1>5, <1>12
    <3> QED BY <2>6, <3>1, <3>2 DEF Effects
  <2> QED BY <1>1, <1>3, <2>5, <2>7, SameRequest DEF ServiceIInv, ServiceTypeOK, RestoreInv
<1>13. CASE eax \notin {PCI(1)} \cup Reads \cup Writes
  <2>1. PICK status : stack' = Failed(status) /\ config' = config
    BY <1>2, <1>13, PciHandler
  <2> DEFINE F == [eax |-> WithAh(Arg("eax"), status), eflags |-> SetCF(Arg("eflags"))]
  <2>2. stack' = Stored(F)
    BY <2>1 DEF Failed
  <2>3. DOMAIN F = {"eax", "eflags"} /\ F["eflags"] = SetCF(last.regs.eflags)
    BY <1>2, CarryFlag
  <2>4. FlagsWanted = SetCF(last.regs.eflags)
    BY <1>7, <1>8, <1>13
  <2> HIDE DEF F
  <2>5. DOMAIN F \subseteq Results(last) \cup {"eflags"} /\ "eflags" \in DOMAIN F
    BY <1>9, <1>13, <2>3
  <2>6. Left
    BY <1>1, <1>3, <2>2, <2>3, <2>4, <2>5, Handled
  <2>7. Effects(stack[FrameAt + 8])'
    BY <1>1, <1>4, <1>13, <2>1 DEF Effects
  <2> QED BY <1>1, <1>3, <2>6, <2>7, SameRequest DEF ServiceIInv, ServiceTypeOK, RestoreInv
<1> QED BY <1>10, <1>11, <1>12, <1>13

\* RESTORE_BIOSREGS: although popl %esp moves the stack pointer between two pops,
\* it moves it to the next one.
LEMMA ServiceRestore ==
  ASSUME ServiceIInv, RESTORE_BIOSREGS
  PROVE  ServiceIInv'
<1>1. /\ bios_pc' = "return" /\ ServiceTypeOK /\ RequestInv /\ ReturnInv /\ RestoreInv
      /\ last' = last /\ serial' = serial /\ delta' = delta /\ stack' = stack
      /\ config' = config
  BY DEF ServiceIInv, RESTORE_BIOSREGS
<1>2. regs.esp = FrameAt /\ stack[FrameAt + 16] = FrameAt + 20 /\ last.entry \in WithFrame
  BY <1>1 DEF RestoreInv, FrameInv
<1>3. Len(RESTORE) = 11 /\ DOMAIN RESTORE = 1 .. 11
  BY DEF RESTORE
<1> DEFINE at(k) == IF k <= 5 THEN FrameAt + 4 * (k - 1) ELSE FrameAt + 20 + 4 * (k - 6)
           place(r) == CHOOSE k \in DOMAIN RESTORE : RESTORE[k] = r
           end == FrameAt + 20 + 4 * (11 - 5)
           flags == last.entry = "pcibios"
<1>4. regs' = [r \in Registers |->
                 CASE r = "esp" -> IF flags THEN end + 4 ELSE end
                   [] r = "eflags" -> IF flags THEN stack[end] ELSE regs[r]
                   [] r \in {"ip", "cs"} -> regs[r]
                   [] OTHER -> stack[at(place(r))]]
  BY <1>1, <1>2, <1>3 DEF RESTORE_BIOSREGS, ServiceTypeOK
<1>5. end = FrameEnd /\ FrameAt \in Int /\ end \in Int
  BY StackRoom DEF FrameAt, FrameEnd
<1>6. \A r \in General : at(place(r)) = FrameAt + biosregs[r]
  <2>1. \A k \in 1 .. 11 : at(k) = FrameAt + 4 * (k - 1)
    BY <1>5
  <2>2. \A k \in 1 .. 11 : place(RESTORE[k]) = k
    BY PopOrder
  <2>3. \A k \in 1 .. 11 : biosregs[RESTORE[k]] = 4 * (k - 1)
    BY DEF RESTORE, biosregs
  <2>4. \A r \in General : \E k \in 1 .. 11 : r = RESTORE[k]
    <3>1. /\ RESTORE[1] = "eax" /\ RESTORE[2] = "ebx" /\ RESTORE[3] = "ecx"
          /\ RESTORE[4] = "edx" /\ RESTORE[6] = "ebp" /\ RESTORE[7] = "esi"
          /\ RESTORE[8] = "edi" /\ RESTORE[9] = "ds" /\ RESTORE[10] = "es"
          /\ RESTORE[11] = "fs"
      BY DEF RESTORE
    <3> QED BY <3>1 DEF General
  <2> HIDE DEF at, place
  <2> QED BY <2>1, <2>2, <2>3, <2>4
<1> HIDE DEF at, place, end
<1>7. \A r \in General : regs'[r] = stack[FrameAt + biosregs[r]]
  <2> TAKE r \in General
  <2>1. r \in Registers /\ r \notin {"esp", "eflags", "ip", "cs"}
    BY DEF General, Registers
  <2> QED BY <1>4, <1>6, <2>1
<1>8. /\ DOMAIN regs' = Registers
      /\ regs'.esp = IF flags THEN end + 4 ELSE end
      /\ flags => regs'.eflags = stack[end]
  BY <1>4 DEF Registers
<1>9. regs'.esp = ReturnAt /\ (flags => end = FlagsSlot) /\ (~flags => Top - 10 = FlagsSlot)
  BY <1>2, <1>5, <1>8, StackRoom DEF ReturnAt, FrameEnd, FlagsSlot, Real, WithFrame
<1>10. last.entry \in Real <=> ~flags
  BY <1>2 DEF Real, WithFrame
<1>11. LeaveInv'
  <2>1. \A r \in General \ Results(last) : regs'[r] = last.regs[r]
    BY <1>1, <1>7 DEF RestoreInv, FrameInv
  <2>2. regs'.ecx = stack[FrameAt + 8]
    BY <1>7 DEF General, biosregs
  <2>3. FlagsWanted = IF last.entry \in Real THEN stack[Top - 10] ELSE regs'.eflags
    BY <1>1, <1>8, <1>9, <1>10 DEF RestoreInv
  <2>4. Effects(regs.ecx)'
    BY <1>1, <2>2 DEF RestoreInv, Effects
  <2> HIDE DEF flags
  <2> QED BY <1>1, <1>9, <2>1, <2>3, <2>4, SameRequest DEF LeaveInv
<1>12. ReturnInv' /\ RequestInv'
  BY <1>1, SameRequest DEF ReturnInv, RequestInv
<1> QED BY <1>1, <1>8, <1>11, <1>12 DEF ServiceIInv, ServiceTypeOK

\* The return to the kernel.
LEMMA ServiceReturn ==
  ASSUME ServiceIInv, return
  PROVE  ServiceIInv'
<1>1. /\ bios_pc' = "caller" /\ ServiceTypeOK /\ RequestInv /\ ReturnInv /\ LeaveInv
      /\ last' = last /\ serial' = serial /\ delta' = delta /\ stack' = stack
      /\ config' = config
  BY DEF ServiceIInv, return
<1>2. /\ DOMAIN regs' = Registers /\ regs'.esp = Top - 8
      /\ regs'.ip = last.regs.ip /\ regs'.cs = last.regs.cs
      /\ \A r \in General : regs'[r] = regs[r]
      /\ regs'.eflags = FlagsWanted
  <2>1. CASE last.entry \in Real
    <3>1. regs.esp = Top - 14 /\ ReturnAt = Top - 14
      BY <1>1, <2>1 DEF LeaveInv, ReturnAt
    <3>2. regs' = [regs EXCEPT !.ip = stack[Top - 14], !.cs = stack[Top - 12],
                               !.eflags = stack[Top - 10], !.esp = Top - 8]
      <4>1. regs' = [regs EXCEPT !.ip = stack[regs.esp], !.cs = stack[regs.esp + 2],
                                 !.eflags = stack[regs.esp + 4], !.esp = @ + 6]
        BY <2>1 DEF return
      <4>2. /\ regs.esp + 2 = Top - 12 /\ regs.esp + 4 = Top - 10 /\ regs.esp + 6 = Top - 8
        BY <3>1, StackRoom
      <4> QED BY <3>1, <4>1, <4>2
    <3>3. /\ stack[Top - 14] = last.regs.ip /\ stack[Top - 12] = last.regs.cs
          /\ stack[Top - 10] = FlagsWanted
      <4>1. ReturnAt + 2 = Top - 12
        BY <3>1, StackRoom
      <4> QED BY <1>1, <2>1, <3>1, <4>1 DEF ReturnInv, LeaveInv
    <3> QED BY <1>1, <3>2, <3>3 DEF ServiceTypeOK, Registers, General
  <2>2. CASE last.entry \notin Real
    <3>1. regs.esp = Top - 16 /\ ReturnAt = Top - 16
      BY <1>1, <2>2 DEF LeaveInv, ReturnAt
    <3>2. regs' = [regs EXCEPT !.ip = stack[Top - 16], !.cs = stack[Top - 12], !.esp = Top - 8]
      <4>1. regs' = [regs EXCEPT !.ip = stack[regs.esp], !.cs = stack[regs.esp + 4], !.esp = @ + 8]
        BY <2>2 DEF return
      <4>2. regs.esp + 4 = Top - 12 /\ regs.esp + 8 = Top - 8
        BY <3>1, StackRoom
      <4> QED BY <3>1, <4>1, <4>2
    <3>3. /\ stack[Top - 16] = last.regs.ip /\ stack[Top - 12] = last.regs.cs
          /\ regs.eflags = FlagsWanted
      <4>1. ReturnAt + 4 = Top - 12
        BY <3>1, StackRoom
      <4> QED BY <1>1, <2>2, <3>1, <4>1 DEF ReturnInv, LeaveInv
    <3> QED BY <1>1, <3>2, <3>3 DEF ServiceTypeOK, Registers, General
  <2> QED BY <2>1, <2>2
<1>3. CallerSees'
  <2>1. \A r \in Registers \ (Results(last) \cup {"eflags"}) : regs'[r] = last.regs[r]
    <3> TAKE r \in Registers \ (Results(last) \cup {"eflags"})
    <3>1. r \in General \/ r = "esp" \/ r = "ip" \/ r = "cs"
      BY DEF Registers, General
    <3>2. CASE r \in General
      BY <1>1, <1>2, <3>2 DEF LeaveInv
    <3>3. CASE r \notin General
      BY <1>1, <1>2, <3>1, <3>3 DEF RequestInv
    <3> QED BY <3>2, <3>3
  <2>2. \A a \in last.regs.esp .. Top - 1 : stack[a] = last.stack[a]
    BY <1>1 DEF ReturnInv, RequestInv
  <2>3. FlagsWanted = CASE last.entry \in {"irq", "bios32"} -> last.regs.eflags
                        [] Fails(last) -> SetCF(last.regs.eflags)
                        [] OTHER -> ClearCF(last.regs.eflags)
    BY Zenon DEF FlagsWanted
  <2>4. /\ (\A r \in Registers \ (Results(last) \cup {"eflags"}) : regs[r] = last.regs[r])'
        /\ (\A a \in last.regs.esp .. Top - 1 : stack[a] = last.stack[a])'
    BY <1>1, <2>1, <2>2
  <2>5. (regs.eflags = CASE last.entry \in {"irq", "bios32"} -> last.regs.eflags
                         [] Fails(last) -> SetCF(last.regs.eflags)
                         [] OTHER -> ClearCF(last.regs.eflags))'
    BY <1>1, <1>2, <2>3, Zenon
  <2> QED BY <2>4, <2>5 DEF CallerSees
<1>4. EffectsTrue'
  <2>1. regs'.ecx = regs.ecx
    BY <1>2 DEF General
  <2>2. Effects(regs.ecx)'
    BY <1>1, <2>1 DEF LeaveInv, Effects
  <2> QED BY <2>2, Zenon DEF EffectsTrue, Effects
<1> QED BY <1>1, <1>2, <1>3, <1>4 DEF ServiceIInv, ServiceTypeOK

\* Nothing has been asked at the start.
LEMMA ServiceInit == BiosInit => ServiceIInv
<1> SUFFICES ASSUME BiosInit PROVE ServiceIInv
  OBVIOUS
<1>1. /\ DOMAIN regs = Registers /\ DOMAIN stack = 0 .. Top - 1 /\ regs.esp = Top - 8
      /\ serial = <<>> /\ delta = 0 /\ bios_pc = "caller" /\ last.entry = "none"
  BY DEF BiosInit, Registers
<1> QED BY <1>1 DEF ServiceIInv, ServiceTypeOK, CallerSees, EffectsTrue, Returned

\* Every step of a kernel and its services keeps the invariant.
LEMMA ServiceStep == ServiceIInv /\ [BiosNext]_biosVars => ServiceIInv'
<1> SUFFICES ASSUME ServiceIInv, [BiosNext]_biosVars PROVE ServiceIInv'
  OBVIOUS
<1>1. CASE UNCHANGED biosVars
  <2> USE DEF biosVars
  <2>1. ServiceTypeOK' = ServiceTypeOK /\ Unserved' = Unserved /\ RequestInv' = RequestInv
    BY <1>1 DEF ServiceTypeOK, Unserved, RequestInv
  <2>2. EffectsTrue' = EffectsTrue
    BY <1>1 DEF EffectsTrue, Returned
  <2>3. CallerSees' = CallerSees
    BY <1>1 DEF CallerSees, Returned
  <2>4. /\ ReturnInv' = ReturnInv /\ FrameInv({})' = FrameInv({})
        /\ FrameInv(Results(last))' = FrameInv(Results(last))
    BY <1>1, SameRequest DEF ReturnInv, FrameInv
  <2>5. EntryInv' = EntryInv /\ SaveInv' = SaveInv /\ HandlerInv' = HandlerInv
    BY <1>1, <2>1, <2>4, SameRequest DEF EntryInv, SaveInv, HandlerInv
  <2>6. /\ Effects(regs.ecx)' = Effects(regs.ecx)
        /\ Effects(stack[FrameAt + 8])' = Effects(stack[FrameAt + 8])
    BY <1>1, SameRequest DEF Effects
  <2>7. RestoreInv' = RestoreInv /\ LeaveInv' = LeaveInv
    BY <1>1, <2>4, <2>6, SameRequest DEF RestoreInv, LeaveInv
  <2> QED BY <1>1, <2>1, <2>2, <2>3, <2>4, <2>5, <2>7 DEF ServiceIInv
<1>2. CASE BiosNext
  BY <1>1, <1>2, ServiceCall, ServiceShort, ServiceEntry, ServiceSave, ServiceInt10,
     ServiceInt15, ServicePci, ServiceRestore, ServiceReturn DEF BiosNext, BiosFinished
<1> QED BY <1>1, <1>2

\* A service runs below the caller's stack, in a frame that assembly and C agree
\* on, whatever is asked, in whatever order.
THEOREM ServiceInvariant == BiosSpec => []ServiceIInv
<1> QED BY ServiceInit, ServiceStep, PTL DEF BiosSpec

\* For every request and any number of calls, a kernel gets back its registers
\* but for the results, its stack, and CF set exactly if the call failed.
THEOREM KernelSeesResults == BiosSpec => []CallerSees
<1>1. ServiceIInv => CallerSees
  BY DEF ServiceIInv, CallerSees, Returned
<1> QED BY <1>1, ServiceInvariant, PTL

\* For every request and any number of calls, a call does what was asked, to the
\* configuration space and the serial line, and nothing else.
THEOREM ServiceDoesWhatIsAsked == BiosSpec => []EffectsTrue
<1>1. ServiceIInv => EffectsTrue
  BY DEF ServiceIInv, EffectsTrue, Returned
<1> QED BY <1>1, ServiceInvariant, PTL
=============================================================================
