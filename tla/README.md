# TLA+ models of qboot

qboot is a minimal x86 firmware for QEMU. On reset it copies itself to RAM, numbers
the PCI buses, takes tables and a kernel from QEMU's fw_cfg device, and jumps to the
kernel, for which it keeps a few services. It runs on one processor with interrupts
off, from the start again after every reset. It has no heap that can run out, hardly any
error handling and no second chance: what can be wrong is how
state is shared between steps (a cursor in a device, a linked list in hardware
registers, statics changed by recursion), how addresses are worked out without a
check, and what it tells the kernel. The one thing that runs beside it is fw_cfg's
DMA engine.

## The system

`main` (main.c) calls, in this order, `setup_hw`, `setup_mmconfig`, `setup_pci`,
`setup_idt`, `fw_cfg_setup`, `extract_acpi`, `extract_e820`, `setup_mptable`,
`extract_smbios`, `boot_from_fwcfg`. Only a reset goes back. The parts meet in five
places: the two allocators, the fw_cfg cursor, the memory map, `start_info`, and the
tables and registers that deal with interrupts. After the handover a kernel calls
INT 10h, INT 15h and PCIBIOS.

| Part | State | Operations | What makes it correct |
|---|---|---|---|
| allocators (malloc.c) | `malloc_top`, `fseg_base` | `malloc_align`, `malloc_fseg_align` | blocks lie in their zone, apart, aligned |
| PCI enumeration (pci.c) | registers of all functions; `addend`, `bus`, `bridge_head`, `bridge_count`, `max_bus` | `setup_pci`, the scan of a bus, the recursion over bridges, `setup_bios32` | one route to each bus at every moment; each access reaches the function meant; lines follow the swizzle; it ends |
| fw_cfg driver (fw_cfg.c, fw_cfg.h) | `version`, `filecnt`, `files`; the device's cursor and DMA engine | `fw_cfg_setup`, select and port reads, `fw_cfg_read`, `fw_cfg_read_entry`, `fw_cfg_file_id/_size`, `fw_cfg_read_file` | calls act as one step on a cursor, and return; no DMA outlives its call |
| ACPI table loader (tables.c) | `file_address`, memory, `start_info.rsdp_paddr` | `do_alloc`, `do_ptr`, `do_checksum`, `extract_acpi` | pointers, checksums and all other bytes right in the end |
| memory map (main.c, code16.c, fw_cfg.c) | `e820`, `lowmem` | `extract_e820`, INT 15h E820h, the PVH and multiboot copies | RAM overlaps nothing; all protocols hand out the same map |
| kernel loader (fw_cfg.c, linuxboot.c) | `linuxboot_args`, `start_info`, setup header | `boot_from_fwcfg`, `parse_bzimage`, `boot_bzimage`, PVH, multiboot | parts whole and apart; header and `start_info` describe them |
| MP table (mptable.c) | the EBDA | `setup_mptable` | sums, entries, stays in the EBDA |
| SMBIOS (smbios.c) | anchor and structures in the F segment | `extract_smbios` | exactly one type 0, table whole, anchor true and sealed |
| reset code, hardware setup (cstart.S, hwsetup.c, main.c) | chipset registers, the image in the F segment | `pm_entry`, `setup_hw`, `setup_mmconfig`, `setup_idt`, `main` | runs the image, in RAM, whatever was there; no switch to RAM by half; interrupt tables agree; mmconfig moves closed |
| PCIBIOS, INT 10h and 15h, fake interrupts (entry.S, code16.c, code32seg.c) | the caller's registers and stack, configuration space | `bios_irq`, `bios_intfake`, `bios_int10`, `bios_int15`, `bios32_entry`, `pcibios_entry` and their handlers | the caller gets back all but its results; the access asked for is made |
| C library (string.c, printf.c) | a call's buffers | the string functions, `vsnprintf` | do what their callers take for granted |

What is hard here: the interleaving of the DMA engine with the poll loop and its
failures; the recursion of `do_setup_pci_bus`, which keeps its list in the registers
that route its own accesses; reads that rely on where an earlier read left the cursor;
the order of patches and checksums; address arithmetic over all kernel protocols;
memory that is used without having been cleared; a reset at any point, of which one byte
tells; and a stack frame that a macro lays out, another takes apart and C names twice. PROJECT.json lists them one by one as
`hazards`, with the line and the properties.

## Modules

| Module | Models | Built on |
|---|---|---|
| `Malloc` | malloc.c | |
| `MallocProofs` | theorems about `Malloc`; lemmas about numbers and recursive functions | `Malloc` |
| `PciBus` | pci.c and the routing of configuration cycles | |
| `PciBusProofs` | theorems about `PciBus` | `PciBus` |
| `FwCfgAbs` | what callers rely on: a cursor over items | |
| `FwCfg` | fw_cfg.c, fw_cfg.h and the device | implements `FwCfgAbs` |
| `FwCfgProofs` | theorems about `FwCfg`, its refinement among them | `FwCfg` |
| `AcpiLoader` | tables.c | extends, and implements, `Malloc` |
| `AcpiLoaderProofs` | theorems about `AcpiLoader` | `AcpiLoader`, `MallocProofs` |
| `E820` | the memory map and its three copies | |
| `Boot` | loading and starting a kernel | cursor as in `FwCfgAbs` |
| `Handover` | main from `extract_e820` to the kernel's own calls | extends `E820` and `Boot` |
| `BootProofs` | theorems about `E820`, `Boot` and `Handover` | `Handover` |
| `Bytes` | bytes in memory, their sums | |
| `MpTable` | mptable.c | `Bytes` |
| `Smbios` | smbios.c | extends `Malloc`; `Bytes` |
| `Tables` | `setup_mptable`, then `extract_smbios` | `MpTable`, `Smbios` |
| `TablesProofs` | theorems about `MpTable` and `Smbios` | `Tables`, `MallocProofs` |
| `Firmware` | cstart.S, hwsetup.c, main.c, setup_idt; resets | the order in which main calls the others |
| `FirmwareProofs` | theorems about `Firmware` and `BiosCalls` | `Firmware`, `BiosCalls` |
| `BiosCalls` | entry.S, code32seg.c, INT 10h and 15h of code16.c | what PciBus and E820 set up, as constants |
| `CLib` | string.c | |
| `Printf` | `vsnprintf` of printf.c | extends `CLib` |
| `CLibProofs` | theorems about `CLib` and `Printf` | `Printf` |
| `MC*` | the instances TLC checks | the module of the same name |

Actions have the names of the functions, or of the step of a function, that they stand
for; the `map` of PROJECT.json gives the lines. A definition whose comment starts with
*Fault* is a wrong version of the definition after it: putting it in its place has to
break a property (`mutants`), which shows that the property looks at that code.

**Malloc.** The two pointers, with arithmetic modulo the address space, as in C.
`blocks`, `calls` and `demand` are history. malloc.c checks nothing, so the properties
say when nothing needs checking: `Fits(z)` holds as long as the bytes asked of a zone,
with the worst padding, are no more than its size. Exhausted zones are reachable in
the run; alignment and type hold there too.

**PciBus.** A machine is a tree of segments and bridges with functions on them. An
access is routed through the bridges' registers as they are at that moment
(`Reaches`), so it may find several functions or none. `do_setup_pci` is one iteration
of `pci_foreach`; `EndScan`, `EnterBridge` and `LeaveBridge` are the parts of
`do_setup_pci_bus` around the recursive call, with its locals on `stack`. If no
function answers an access that pci.c needs, the model stops, which TLC reports as a
deadlock. `setup_bios32` publishes the directory byte by byte, with its checksum; its block is
Malloc's business. `main` does not call `setup_pci` on a machine that is neither
i440fx nor Q35; its own check for that is modelled all the same.

**FwCfg.** The driver polls while `DmaFetch`, `DmaByte`, `DmaDone` and `DmaError`, the
device, run at their own pace. An error may come at any point. Bytes have 2 bits and
words 2 bytes in the run, so that the byte orders still differ and the directory is
small. `IsMachine` is what QEMU puts in the device: a file's size in the directory is
that of its item. `ImplementsCursor` is refinement: a call takes effect when it returns,
and until then the abstract cursor is where it was when the call began (`start`).
fw_cfg.c does not look at the error bit; after an error (`lost`) nothing is claimed
about what a caller has got, except that the call returns and nothing is written
later. `fw_cfg_skip`, `fw_cfg_file_select`, `fw_cfg_readw_be` and `fw_cfg_readw_le` are
not called by anything and are left out.

**AcpiLoader.** Memory is bytes (of 3 bits in the run). A script is chosen command by
command among all orders that `WellFormed` allows, which is what QEMU guarantees and
tables.c takes for granted: a file is allocated once, a field is patched once and
before its range is summed up, a patch lies in its file. A patch has at most the 8 bytes
of `do_ptr`'s union. Missing files of `do_alloc`,
files that were not placed, ranges that are too long and unknown commands are in the
run and end in `panic`.

**E820.** Sizes in KB. `IsFile` is what QEMU writes: RAM below 4G is one entry at 0, of 1M or
more, the other entries are above 1M, RAM is apart from all of them and, on a Q35, from
mmconfig (`BesideMmconfig`; the older machine, which has no mmconfig, has RAM there).
`MapJunk` is what the memory behind the map holds. A Linux setup is a loop of INT 15h
calls until EBX is 0, after calls of other functions.

**Boot.** Memory is the list of the reads made into it. `IsBzImage` is what QEMU and
the boot protocol guarantee: the setup has the size its header says and is meant for
the address the protocol asks for, and command line, kernel and ramdisk fit between the
fixed addresses. `malloc` is Malloc's, without its history. An ELF kernel's ramdisk is in
extended memory, above all of malloc's blocks (`PlaceAssumption`).

**Handover.** The two on one machine: `extract_e820` first, then `boot_from_fwcfg`, which
takes the memory of a bzImage from the map and the number of a PVH kernel's entries
(`SameMachine`), and hands the map over where the protocol does, in `StartPvh`, in
`StartMultiboot` once there is a ramdisk to put it in, or when a Linux setup asks for it.
What E820 and Boot promise is checked here. The two violations are found in the module
they belong to.

**MpTable.** The table in bytes, over memory that holds anything. The EBDA is 304 bytes
in the run, which leaves the table of 4 CPUs the same 4 bytes that 1024 leave that of
40. With more than 40 CPUs the code writes past the EBDA; the run has 5 CPUs for it, of
which the properties say nothing (`CpusFit`).

**Smbios.** The anchor and the structures in bytes, in blocks of Malloc. The texts of
the strings are left out, their lengths kept. `malloc_fseg` is taken not to return a
null pointer. `Described` is what QEMU puts in its files: structures without a gap, each
of a formatted area of its length and strings up to the first two zeros, and an anchor
that counts them. smbios.c checks nothing but the two sizes, so that it stays in its
blocks is claimed, and checked, for files of any bytes, but for an anchor that says it
is shorter than its first half: `csum8` takes the difference as unsigned and sums up 4G. `Tables` runs it after MpTable,
as main does.

**Firmware.** From the reset vector to the kernel and around again. The F segment's RAM
is three parts (code, statics, reset code), each of which holds the image, the image's
statics after use, or something else; `Seen` and `WritesRam` say where the PAM registers
send a read and a write. `setup_hw` probes one byte to see whether it runs over RAM,
`setup_pam` sets the registers one by one, `shadow` copies part by part, and `reset` may
come between any two of these, with or without resetting the registers. A kernel
(`kernel`, external) may overwrite the firmware, leave each PAM register in a mode of its
own (`KernelPam`) and move mmconfig; `left` remembers those modes. The two halves of a
register are one mode. The routes, the PIC and the IDT get one value of the kernel's for
all, as qboot does not read them and stores them again before the next kernel. `Pirq` is
the register of a link: pci.c adds the pin, which counts from 1, so its link 1 is LNKA,
and PIRQA is register 0. On a
microvm, which has no chipset that qboot knows, the image is loaded again by a reset.
main's other calls are a step each, with their panics. The power management constants
that `setup_hw` writes are left out.
`ShadowRam` says what the probe of one byte guarantees of the other six registers: a switch
that a reset cut off is always made whole, but where a kernel has left the F segment
as RAM nothing is switched, and any segment below it stays as the kernel left it. The comment
"Make ram from 0xc0000-0xf0000 read-write" (hwsetup.c:119) holds only if the probe fails.

**BiosCalls.** The caller's stack is items by address, pushed and popped as entry.S does;
the handlers read and store the fields at the offsets of bios.h. `Clobbered` registers are
lost in a handler, as the calling convention allows. PCIBIOS goes down to the address and
data ports of configuration mechanism 1. `delta` is where the caller has mapped the
firmware (`pic_base`). Data and stack have one segment, as in Linux.

**CLib, Printf.** A behaviour is one call. `memmove` copies byte by byte, since the two
blocks may overlap; the other string functions take one step. Callers pass terminated
strings and leave `strcat` and `strcpy` room apart from the source (`CallsAssumption`), and
characters are below 128, so that the sign of `char` does not matter.
`vsnprintf` takes a step per character and directive, with the `morefmt` loop. Its buffer
has a size of at least 1, its numbers can be negated. The caller passes what each
conversion takes (`Passed`: without the argument the step is not there, and the run, which
checks deadlock, would stop), and no format ends in its 0 flag, behind which the cursor
passes the NUL.

## Runs

| Run | States | Properties | Shows |
|---|---|---|---|
| `malloc` | 117k | `AddressesRight`, `BlocksInside`, `BlocksApart` | blocks inside, apart and aligned over 5 allocations in both zones |
| `pci_bus` | 84k | `RoutesUnique`, `CyclesReachTarget`, `WindowsExact`, `LinesFollowPath`, `Terminates` | routes, targets, windows and lines on every tree of 3 bridges; the recursion ends |
| `fw_cfg` | 291k | `QuietOutsideDma`, `FileReadWhole`, `ImplementsCursor`, `CallsReturn` | the driver implements the cursor; no DMA outlives its call; files are found; calls return |
| `acpi_loader` | 18k | `PointersPatched`, `ChecksumsHold`, `BytesKept`, `RsdpFound`, `AllocationsAreMalloc` | pointers, checksums, other bytes and the RSDP; the loader implements Malloc |
| `handover` | 128k | `RamApart`, `KernelGetsMap`, `UpperMatchesMap`, `RegionsApart`, `SetupWhole`, `HeaderTrue`, `StartInfoTrue` | RAM apart; three protocols, one map; parts whole and apart for all protocol classes; header and start_info true |
| `tables` | 59k | `ChecksumsHold`, `EntriesTrue`, `TableInEbda`, `WritesInBlocks`, `TableWhole`, `AnchorTrue` | sums, entries and place of the MP table; then structures, anchor and sums of SMBIOS |
| `firmware` | 201k | `RunsImage`, `ShadowRam`, `InterruptsAgree`, `WindowMovesClosed` | after up to two resets anywhere the image runs intact, no switch to RAM is left half made, the interrupt tables agree, mmconfig is never open at a wrong address |
| `bios_calls` | 168k | `CallerSees`, `EffectsTrue` | registers, flags and stack come back; PCIBIOS reaches the bytes asked for |
| `c_lib` | 146k | `MemmoveRight`, `StringsRight`, `StaysInBuffer`, `OutputRight` | string functions and vsnprintf against definitions on whole strings |
| `e820_count` | | `EntriesWritten` | violated, see findings |
| `boot_module` | | `ModuleHasNoCmdline` | violated, see findings |
| `firmware_lines` | | `LinesMatchRoutes` | violated, see findings |

Bounds, and why they are enough:

* `malloc`: sizes 0, 2, 5 and 20 and alignments 1 and 4 in zones of 8. Both zones fill
  up, overflow and wrap; the rest is proved for all values.
* `pci_bus`: 2 devices of 2 functions give 4 bus numbers, and 3 bridges use them all.
  With 3 bridges there are siblings, chains, and a bridge that is visited after the
  recursion below its sibling; the list has up to 3 links.
* `fw_cfg`: 0, 1 or 2 files, with names that are prefixes of each other, equal, or not
  terminated; 2 calls after the setup, of any kind and order, so that each can rely on
  the cursor of the one before.
* `acpi_loader`: three files, so that a table may be patched, summed up twice and
  placed next to two others; any order of the commands.
* `handover`: real numbers; the classes of inputs that the code tells apart and their
  borders (1M, and the most memory below 4G each machine has; a setup of less than, exactly
  and more than 8192 bytes; protocols 0x1ff to 0x20c; the largest command line and
  ramdisk). A kernel meets the files of its own machine: a bzImage those with its 32M, 128M
  or 1G (TLC's numbers end at 2G, in bytes), an ELF kernel those of two entries, which its
  map is sized for, any other kernel all of them.
* `tables`: real sizes of all structures; 1 CPU, the most that fit and one more, over
  memory of zeros, ones and something else; up to two structures of each kind the walk
  has to tell apart before the end marker, files that are missing, of another size, or no
  structures.
* `firmware`: two resets, so that one may cut off a boot and the other follow a kernel, in
  either order; the probed byte is 0, its largest value, which wraps, the one before, or
  another. Of the 16384 states of the PAM registers a kernel may leave 32: the F segment,
  which is probed, and one other in any mode, the rest on or off, so that each differs
  from each; all of them are in the proof.
* `bios_calls`: two calls in a row of any kind, so that one may spoil the next; every
  register of two doublewords of two functions, known, unknown and nearly known function
  numbers.
* `c_lib`: memmove over every overlap in 9 bytes; all strings of up to 3 characters from
  two; formats of two and three directives of each kind, widths around the length of
  what is printed, buffers of 1, 2, 5 and 40.

Fairness. `Terminates` assumes that the processor goes on (weak fairness of `Next`):
pci.c does not wait for anything. `CallsReturn` assumes it of the processor, and of the
device, each on its own: QEMU finishes or fails a DMA that was started. Nothing is
assumed about which of the two comes first. All other properties are safety.

CHECK_DEADLOCK is off where a behaviour ends by a bound or by returning; elsewhere
`Finished` marks the states in which qboot has stopped or handed over.

## Findings

* `e820_count`: `extract_e820` stores a count that allows for mmconfig and corrects a
  local instead of it (`nr_map--`, main.c:66). On a machine without mmconfig the map has
  one entry that nothing wrote, and the count is handed to a PVH kernel as "Number of
  entries in the memmap table." (include/start_info.h:125). `RamApart` speaks of the
  entries that were written only.
* `boot_module`: the module record of the ramdisk is an uninitialized local of which only
  `paddr` and `size` are stored (fw_cfg.c:239), while "a 0 value in any of the address
  fields should be treated as not present" (include/start_info.h:29). Its
  `cmdline_paddr` is whatever the stack held.
* `firmware_lines`: pci.c adds the interrupt pin, which counts from 1, to get a device's link
  (pci.c:51), so that "Q35 devices 25-31 all use LNKA" (pci.c:55) makes LNKA 1 and LNKD
  0, and gives links 2 and 3 line 11 (pci.c:63). `setup_piix` and `setup_ich9` count from 0
  and route the third and fourth PIRQ to 11 (hwsetup.c:18-21, 42-49). A device on LNKB is
  told 11 while PIRQB goes to 10, one on LNKD 10 while PIRQD goes to 11.
  `InterruptsAgree` claims only that both sides use the same interrupts.

## Proofs

`tlapm` on the modules named `*Proofs` checks them. Their inductive invariants were also
checked by TLC on the instances of the runs, before they were proved. Each theorem holds
for every value of the constants that satisfies the named assumptions, which say what
the hardware and QEMU guarantee and what the linker script fixes; the `MC*` modules'
values satisfy them, as TLC finds out on every run.

Those of the allocators and of the ACPI loader hold for every layout, every set of sizes
and alignments, and every script, from `LayoutAssumption`
(the zones and the image lie in the order flat.lds gives them), `RequestAssumption`
(sizes are numbers, alignments positive) and `LoaderAssumption` (files are bytes whose
lengths are sizes, a patch has 1 to 8 bytes). That alignments are powers of two is only needed for `& -align` to be
`AlignDown`.

* `MallocInvariant`: `MallocIInv` is inductive. `BlocksInside` and `BlocksApart` are not:
  they say nothing about where the next block goes. `HighInv` and `FsegInv` add that
  the blocks of a zone lie between its border and its pointer, and that the pointer has
  moved by no more than `demand`; so while `Fits` holds a step neither wraps nor leaves
  the zone, and the new block lies beyond all others. Each is conditional on `Fits` of
  its own zone, which only ever goes from true to false.
* `MallocInside`, `MallocApart` and `MallocAligned` (`AddressesRight`) follow; blocks of
  different zones are apart because the image lies between them.
* `LoaderImplementsMalloc`: each step of `extract_acpi` is a step of Malloc or leaves it
  alone, with the identity as refinement mapping. `LoaderTablesApart` transfers
  `BlocksApart` to the tables of every script.
* `LoaderInvariant`: `LoaderIInv` is inductive. `ChecksumsHold` and `BytesKept` are not:
  they say what memory holds and not why the next command leaves it so. `PlacedInv` says
  that a file that is somewhere is in a block of its own size, apart from all others
  (from `BlocksApart`, one state later); `CommandsInv` that the field of an executed
  command is inside such a file. So a new file lands on no other, and a patch or a
  checksum changes its own field only (`AllocKeeps`, `PtrKeeps`, `ChecksumKeeps`).
  `FieldsPatched` is `PointersPatched` in bytes, without the remainder.
* `LoaderPointersPatched` needs that the first bytes of a sum hold its remainder
  (`BytesHoldValue`), `LoaderChecksumsHold` that taking the sum off one of the bytes leaves
  0 (`SumFixed`), for any length; both unfold the recursive functions of the model (`Base` to
  `SumUnfolds`) and go by a least counterexample (`Counting`). `LoaderBytesKept` and
  `LoaderRsdpFound` follow. Assumed of QEMU are `WellFormed` scripts, one RSDP at most, and
  commands other than allocation that name files it has. Nothing is assumed about a
  checksum's range being inside its file, or about files being allocated before they are
  used: where they are not the loader panics, as it does in the code.

Those of Firmware hold for any number of resets, at any step, any modes a kernel leaves the
PAM registers in, and for any content of the byte that `probe_rom_check` reads, from
`FirmwareAssumption` (a byte is in 0 .. 255 and may be 0, a register has one of the four
modes). No property of the passing run is left out.

* `MemoryInvariant`: `MemoryIInv` is inductive. `RunsImage` is not, because whether the
  image is copied depends on one byte of the F segment, which a reset does not switch
  back. `ProbeInv` says what that byte stands for: if a kernel left the F segment as RAM,
  the registers are as it left them, since `setup_pam` does not run then (`ProbeSeesRam`);
  if not, `setup_pam` switches the F segment last, so once it is RAM all the memory below it
  is. `PamInv` and `CopyInv` count what the two loops have done, `ShadowInv` and
  `ImageInv` say what holds after them, and `MicrovmInv` that a microvm, which never copies,
  has had the image since power on. `FirmwareRunsImage` and `FirmwareShadowRam` follow.
* `ChipsetInvariant`: `ChipsetIInv` adds that the interrupt routes, the PIC and the IDT
  stay as stored until the handover (a kernel may change them, and a reset then starts
  over), and what each write of `setup_mmconfig` has left in the register.
  `FirmwareInterruptsAgree`, which does not go link by link, and
  `FirmwareWindowMovesClosed` follow.

That of CLib holds for every size of memory, every content, and every call that is inside
it, from `CallsAssumption` and `PrintsAssumption` (a format's calls are not memmove's).

* `MemmoveIsRight`: `MemmoveIInv` writes memory, at each turn of the loops, as the old one
  with the bytes copied so far, and adds that the forward loop runs only when the source
  is not below the destination and the backward one only when it is. So the next byte
  to be read is one not yet written, which `ForwardStep` and `BackwardStep` show.
* `StringsAreRight`: for strings of any length anywhere in memory. A loop is `First`, the
  first place where it stops, which exists because the terminator is one (`FirstOf`, from
  the least element of a set of numbers). `Ordered` turns the first difference that
  `strcmp` and `memcmp` find into the order of whole sequences, `FoundAt` a result 0 of
  `memcmp` inside `strstr` into an occurrence, and `CopyIs` shows that the text behind
  the copy is the two strings joined. `StringIInv` adds that memory is the caller's
  until the function returns.
* `VsnprintfStaysInBuffer`: for every format, arguments that fit it, and buffers of any size.
  `StaysInBuffer` is not inductive: it says nothing of `remain`. `Stream` adds that what is
  stored and what is left make up all but the NUL's place, and that all is stored as long
  as anything is left; `AddChars` keeps it for any string (`StreamKept`). The rest shows
  that every conversion prints one: `Reading` that the rest of the format and the directive
  are made of characters, `NumeralIs`, `PaddedIs`, `AtolIs` and `WidthLenIs` what the
  operators return, `FlattenIs` that the directives joined are a format.

Those of PciBus hold for every number of devices, functions and bridges and every tree of
them, from `SizeAssumption` (fewer bridges than bus numbers, as max_bus has 8 bits) and
`TopologyAssumption` (`IsTopology`: functions of a segment have different numbers, a device
has a function 0). All safety properties of the run are proved.

* `BusInvariant`: `BusIInv` is inductive. The properties say which function an access
  reaches; why it does depends on every register written so far. `StackInv` says
  that the active calls work on the segments from the root down to the current one;
  `NumberInv` that the bridges entered so far share out the numbers 1 to `max_bus`;
  `RouteInv` that those above any of them forward its number, and those with an active
  call forward all. `ListInv` is about the list in the secondary bus registers: the bridges
  of a segment that still wait are exactly the rest of its list, in the order of their
  slots, so an overwritten register is never read again as a link. `WindowInv`,
  `CompleteInv` and `LineInv` say what is done when a call is over.
* `BusRoutesUnique`, `BusCyclesReachTarget`, `BusWindowsExact` and `BusLinesFollowPath`
  follow. What makes them hard is that `Path` and `PathSum` are recursive: `PathUnfolds`
  and the lemmas around it replace induction over a tree by a least counterexample.
* `BusDirectoryFound`: when `setup_pci` is done the BIOS32 directory is there, its bytes
  sum up to 0 and name the entry, for any address of it (`EntryAssumption`: four bytes).

Those of FwCfg hold for every number of values of a byte and every length of words and names,
every directory and content, any number and order of calls, and any
behaviour of the device, from `SizeAssumption` and `MachineAssumption` (`IsMachine`).

* `DriverInvariant`: `IInv` is inductive. `DmaInv` lists the four states of a transfer (not
  fetched, running, done, failed) with what the buffer and the cursor hold in each, in
  the terms of the abstract module (`Abs!Bytes`, `Abs!After` from the call's origin);
  `SetupInv` and `FilesInv` say what the three calls of `fw_cfg_setup` have decoded.
* `DriverQuiet`: the engine is `Stopped` and the descriptor without READ outside a poll.
* `DriverReadsFiles` needs that `BE` and `LE` undo `Store`, and that a swapped word read
  with the other byte order is the word: the lemmas `BEUnfolds` to `FileBack`, by the
  arithmetic of digits, for words of any length.
* `DriverImplementsCursor`: every step of `Driver` or `Device` is a step of `AbsNext` or leaves
  its variables alone. A call's step is the one that returns; where the DMA failed it is
  `Fail`, for a number of bytes that the invariant knows.

Those of E820 hold for every file, from `FileAssumption` (`IsFile`).

* `MapInvariant`: `MapIInv` is inductive. It gives the map as head, file with the one entry
  moved, and perhaps junk, and a kernel's table as the part of it that was asked for.
  `MapKeepsRamApart`, `MapReachesKernel` and `MapMatchesUpper` follow: that the loop stops at
  the file's own entry at 0, whatever the junk behind the file is, is `OneLow`.

Those of Boot hold for every kernel, command line, ramdisk and size of memory, from
`KernelAssumption` (`IsBzImage`, what QEMU and the boot protocol guarantee) and
`PlaceAssumption` (`malloc_top` is below the image, an ELF kernel's ramdisk above it).

* `BootInvariant`: `IInv` is inductive. It gives the list of loads at each step as the peek and
  the set of those that followed, with their addresses in terms of the kernel alone.
* `BootRegionsApart` puts each load in a region (`Within`), and the regions in an order
  (`Layout`, `RegionsDisjoint`), by the three arrangements that parse_bzimage tells
  apart. `BootSetupWhole`, `BootHeaderTrue` and `BootStartInfoTrue` follow from the same
  list; the 16 bit offsets are shown not to wrap. For the last one, memory map, command
  line and ramdisk follow each other.
* `HandoverImplements`: what main does implements `Spec` and `MapSpec`, step by step with
  the identity as refinement mapping, so what is proved of either holds of `Handover`.

Those of BiosCalls hold for any number of calls by any entry point, every value of the
registers, every mapping, and every content of the configuration space, from
`BiosCallsAssumption` (registers hold numbers, the caller's stack has room for the frame)
and `RegisterAssumption` (a PCIBIOS call names one of the 256 bytes of a function).

* `ServiceInvariant`: `ServiceIInv` is inductive. It gives at each step of a service the
  items on the stack, by their offsets from the caller's, the frame as entry.S laid it
  out, and which registers still hold the caller's values; so a handler that finds a
  field at an offset of bios.h finds the register that was pushed there.
* `KernelSeesResults` and `ServiceDoesWhatIsAsked` follow.

Those of MpTable hold for every number of CPUs, every CPUID and any old content of memory,
from `MpAssumption` (the EBDA has at most 1 KB and lies below 1 MB), where the table fits
(`CpusFit`).

* `MpInvariant`: `MpIInv` is inductive. The properties read the table as a kernel does,
  from its start and by the type of each entry; while it is written there is no such
  table. `Written` gives the table as a list of entries, its k-th at a place worked out
  from k (`At`), of which the first `Done` are in memory; `Summed` says that `checksum`
  is the sum of those. Entries are apart (`Places`), so a new one disturbs none.
* The sums need that `csum8`, which halves its range (`Middle`), adds up: `SumIsPrefix`
  shows it to be the sum from left to right, by a least counterexample; `SumAppend` and
  `SumChange` follow, for arrays of any length.
* `MpTableInEbda`, `MpChecksumsHold` and `MpEntriesTrue` follow. For the last one the
  kernel's walk is shown to go from place to place (`WalkTrue`).

Those of Smbios hold for every layout, anchor and table, of any bytes, from
`SmbiosAssumption` (the F segment has at most 64 KB below 1 MB, the sizes asked for are
Malloc's) and Malloc's assumptions. All but `WritesInBlocks` speak of files that are
`Described`.

* `SmbiosInvariant`: `SmIInv` is inductive. `Placed` says that what is no longer as it was
  is in the block of the anchor or that of the tables, of which type 0 has the
  first `t0_len` bytes; Malloc's `FsegRoom` puts the second block above the first, and as
  both are in 64 KB no length or address wraps in its field. `Filled` is what the anchor
  says at each step (`TablesHold`), `Walked` that `table_header` is the start of one of the
  structures and none up to it was a type 0.
* `NextStructure`: `smbios_next` goes from each structure to the one behind it, although
  formatted areas may hold zeros. It needs the place of the k-th structure in the bytes
  of all (`Within`), for which `FlattenSeq` is unfolded (`Flattened`).
* `SmbiosInItsBlocks` follows from `Placed`. `SmbiosTableWhole` needs that memory below
  QEMU's structures was left to type 0 and no more (`LoadedTables`). `SmbiosAnchorTrue`
  needs `SixEach` for the count (64 KB hold fewer than 65535 structures, so that adding one
  does not wrap) and `SumIsZero` for both halves.

Only model-checked: `Terminates` and `CallsReturn`, since the prover knows no fairness, and
`OutputRight`. Which characters vsnprintf prints is defined by recursion over data on both
sides: over the digits of a number in `Reversed`, against powers of the base, which the
prover does not know, and over the digits of a width in `atol`.

## Not modelled

* The power management constants of hwsetup.c, `bios_irq`'s write to the PIC, `puts`: fixed
  bytes to ports that nothing here reads.
* `snprintf`, `printf` and `puts` wrap `vsnprintf`. Its 0 flag does not work (printf.c:172:
  the 0 is printed, the next character skipped and the conversion lost); the model does
  the same, and the run has it as a directive that prints a 0.
* `memcpy` and `memset`: compiler built-ins.
* ACPI patches of more than 8 bytes, which overrun `do_ptr`'s union (tables.c:86), and an
  SMBIOS anchor that says it has fewer than 16; QEMU writes neither.
* Callers of the BIOS services whose data segment is not their stack's.
* More than 20 files of `file_address`, commands other than allocation that name a file
  QEMU does not have, 256 PCI buses, a script too large for the stack, a size of 0 in
  `vsnprintf`: the source does not determine what happens.

## Plan

Order of work: allocators, fw_cfg and PCI (the state others rely on), then the loaders
on top of them, then the tables, then reset, services and library. All of these are
done. Next:

1. The demand of all callers of Malloc together (BIOS32, the directory, ACPI, e820,
   SMBIOS, PVH), to show which machines satisfy `Fits`, and Boot's memory against the
   blocks.
