------------------------------- MODULE FwCfg -------------------------------
(***************************************************************************)
(* The fw_cfg driver (fw_cfg.c, include/fw_cfg.h) and the device it talks  *)
(* to.  The device keeps one cursor, which two transports move: byte reads *)
(* of the data port, and a DMA engine that works beside the processor from *)
(* a descriptor on the stack of fw_cfg_dma.  The driver mixes them: it     *)
(* selects by port and reads by DMA, and relies on the cursor in between.  *)
(*                                                                         *)
(* Bytes and words are scaled down (BASE values in a byte, WORD bytes in a *)
(* word, NAME bytes in a file name); the byte orders are the code's.  The  *)
(* DMA descriptor is big endian on both sides, so its fields appear as     *)
(* such here.  fw_cfg_skip and fw_cfg_file_select have no callers.         *)
(***************************************************************************)
EXTENDS Integers, Sequences, FiniteSets, SequencesExt

CONSTANTS
  BASE,      \* values of a byte: 256
  WORD,      \* bytes of a word: 4
  NAME,      \* bytes of a file name: 56
  ID,        \* FW_CFG_ID
  FILE_DIR,  \* FW_CFG_FILE_DIR
  Machines,  \* [version, dir, content]: what QEMU offers
  Names,     \* file names callers ask for
  Lengths,   \* lengths callers ask for
  MaxCalls   \* bound: calls after fw_cfg_setup

Same == -1   \* in place of a key: no select

\* A byte has two values at least, selector keys are not negative, and no byte
\* of a caller's name is 0.
ASSUME SizeAssumption ==
  /\ {BASE, WORD, NAME} \subseteq Nat \ {0} /\ BASE > 1
  /\ {ID, FILE_DIR} \subseteq Nat /\ ID # FILE_DIR
  /\ Lengths \subseteq Nat /\ Names \subseteq Seq(1 .. BASE - 1)

VARIABLES
  machine,   \* the machine; never changes
  item,      \* device: the bytes of each of its items; never change
  dev,       \* device: the cursor [key, off]
  dma,       \* fw_cfg_dma's descriptor [control, key, len]
  engine,    \* device: bytes of the running DMA still to do, or Stopped
  version, filecnt, files,  \* fw_cfg.c statics
  pc,        \* "start", then "inb" or "poll" in a call, "idle" outside
  op,        \* what the current or last call is for
  len,       \* its length
  buf,       \* its buffer
  start,     \* history: the cursor when the call began
  want,      \* history: the key it asks for, or Same
  served,    \* history: the last call that returned: [key, len]
  result,    \* history: what it left in its buffer
  lost,      \* history: a DMA has ended in an error
  asked,     \* history: the name of the last read_file
  calls      \* counts towards MaxCalls

fixed == <<machine, item>>
statics == <<version, filecnt, files>>
request == <<op, len, start, want>>
outcome == <<served, result, lost>>
caller == <<asked, calls>>

vars == <<fixed, dev, dma, engine, statics, pc, request, buf, outcome, caller>>

-----------------------------------------------------------------------------
(* Byte orders.                                                            *)

Byte == 0 .. BASE - 1

\* The value of a big-endian sequence of bytes, and of a little-endian one.
BE(b) == LET val[i \in 0 .. Len(b)] == IF i = 0 THEN 0 ELSE BASE * val[i - 1] + b[i]
         IN  val[Len(b)]
LE(b) == BE(Reverse(b))

\* A number as n bytes of memory.
Store(v, n) == LET rest[i \in 0 .. n] == IF i = 0 THEN v ELSE rest[i - 1] \div BASE
               IN  [i \in 1 .. n |-> rest[i - 1] % BASE]

\* What a word can hold.
Words == {BE(b) : b \in [1 .. WORD -> Byte]}

\* bswap32 and bswap16 on a word.
bswap(v) == BE(Store(v, WORD))

-----------------------------------------------------------------------------
(* The device.                                                             *)

ENTRY == 2 * WORD + NAME

\* A directory entry and the directory: big-endian words, names padded with 0.
DirEntry(f) == Reverse(Store(f.size, WORD)) \o Reverse(Store(f.select, WORD))
                 \o f.name
Directory(dir) ==
  Reverse(Store(Len(dir), WORD))
    \o [x \in 1 .. ENTRY * Len(dir) |->
          DirEntry(dir[1 + (x - 1) \div ENTRY])[1 + ((x - 1) % ENTRY)]]

Keys == {ID, FILE_DIR} \cup UNION {DOMAIN m.content : m \in Machines}

\* What QEMU puts in a word fits, a name has NAME bytes, and a file of the
\* directory has the size of its item, which is none of QEMU's own.
IsMachine(m) ==
  /\ m.version \in Words
  /\ DOMAIN m.content \subseteq Nat \ {ID, FILE_DIR}
  /\ \A k \in DOMAIN m.content : m.content[k] \in Seq(Byte)
  /\ m.dir \in Seq([size : Words, select : Words \cap DOMAIN m.content, name : [1 .. NAME -> Byte]])
  /\ Len(m.dir) \in Words
  /\ \A i \in DOMAIN m.dir : m.dir[i].size = Len(m.content[m.dir[i].select])

ASSUME MachineAssumption == \A m \in Machines : IsMachine(m)

\* The bytes of item k of machine m; an item QEMU does not have is empty.
Content(m, k) ==
  CASE k = ID       -> Store(m.version, WORD)
    [] k = FILE_DIR -> Directory(m.dir)
    [] k \in DOMAIN m.content -> m.content[k]
    [] OTHER        -> <<>>

Selected(k) == IF k = Same THEN dev ELSE [key |-> k, off |-> 0]

\* The byte at the cursor, and the cursor behind it.
Item(k) == IF k \in DOMAIN item THEN item[k] ELSE <<>>
DataByte(c) == IF c.off < Len(Item(c.key)) THEN Item(c.key)[c.off + 1] ELSE 0
Advance(c) == IF c.off < Len(Item(c.key)) THEN [c EXCEPT !.off = @ + 1] ELSE c

Stopped == -1

\* The engine fetches the descriptor and executes its select.
DmaFetch ==
  /\ engine = Stopped /\ "READ" \in dma.control
  /\ dev' = IF "SELECT" \in dma.control THEN Selected(dma.key) ELSE dev
  /\ engine' = dma.len
  /\ UNCHANGED <<fixed, dma, statics, pc, request, buf, outcome, caller>>

DmaByte ==
  /\ engine > 0
  /\ buf' = Append(buf, DataByte(dev))
  /\ dev' = Advance(dev)
  /\ engine' = engine - 1
  /\ UNCHANGED <<fixed, dma, statics, pc, request, outcome, caller>>

\* The engine reports the end of the transfer in the descriptor.
DmaDone ==
  /\ engine = 0
  /\ dma' = [dma EXCEPT !.control = {}]
  /\ engine' = Stopped
  /\ UNCHANGED <<fixed, dev, statics, pc, request, buf, outcome, caller>>

\* It may give up at any point of it.
DmaError ==
  /\ "READ" \in dma.control
  /\ dma' = [dma EXCEPT !.control = {"ERROR"}]
  /\ engine' = Stopped
  /\ UNCHANGED <<fixed, dev, statics, pc, request, buf, outcome, caller>>

-----------------------------------------------------------------------------
(* The driver.                                                             *)

Begin(o, k, n) ==
  /\ op' = o /\ len' = n /\ buf' = <<>> /\ start' = dev /\ want' = k

\* fw_cfg_select, then n reads of the data port.
BeginPort(o, k, n) ==
  /\ Begin(o, k, n)
  /\ dev' = Selected(k)
  /\ pc' = "inb"
  /\ UNCHANGED <<dma, engine>>

\* Fault: fw_cfg_read_entry forgets FW_CFG_DMA_CTL_SELECT.
ControlNoSelect(k) == {"READ"}

\* The control word fw_cfg_read and fw_cfg_read_entry give fw_cfg_dma.
Control(k) == IF k = Same THEN {"READ"} ELSE {"READ", "SELECT"}

\* fw_cfg_dma up to the write of FW_CFG_DMA_ADDR_LOW.
BeginDma(o, k, n) ==
  /\ Begin(o, k, n)
  /\ dma' = [control |-> Control(k), key |-> k, len |-> n]
  /\ pc' = "poll"
  /\ UNCHANGED <<dev, engine>>

\* version & FW_CFG_VERSION_DMA, which is 2.
HasDma(v) == (v \div 2) % 2 = 1

\* fw_cfg_read (k = Same) and fw_cfg_read_entry.
fw_cfg_read(o, k, n, v) ==
  IF HasDma(v) THEN BeginDma(o, k, n) ELSE BeginPort(o, k, n)

\* inb or one round of insb.
Inb ==
  /\ pc = "inb" /\ Len(buf) < len
  /\ buf' = Append(buf, DataByte(dev))
  /\ dev' = Advance(dev)
  /\ UNCHANGED <<fixed, dma, engine, statics, pc, request, outcome, caller>>

\* Faults: do not wait; wait for a control word of 0.
PollDoneAtOnce == TRUE
PollDoneNoError == dma.control = {}

\* fw_cfg_dma: no bit of the control word is left but FW_CFG_DMA_CTL_ERROR.
PollDone == dma.control \ {"ERROR"} = {}

\* The driver's call is over and its buffer goes to the caller; nobody looks at
\* the error bit.
Returns ==
  /\ \/ pc = "inb" /\ Len(buf) = len
     \/ pc = "poll" /\ PollDone
  /\ served' = [key |-> want, len |-> len]
  /\ result' = buf
  /\ lost' = (lost \/ (pc = "poll" /\ "ERROR" \in dma.control))

\* A call of fw_cfg_setup: the version is read by port.
SetupVersion ==
  /\ pc = "start"
  /\ BeginPort("version", ID, WORD)
  /\ UNCHANGED <<fixed, statics, outcome, caller>>

SetupCount ==
  /\ op = "version" /\ Returns
  /\ version' = LE(buf)
  /\ BeginPort("count", FILE_DIR, WORD)
  /\ UNCHANGED <<fixed, filecnt, files, caller>>

\* The entries are read from where the count ended.
SetupDir ==
  /\ op = "count" /\ Returns
  /\ filecnt' = BE(buf)
  /\ fw_cfg_read("dir", Same, ENTRY * BE(buf), version)
  /\ UNCHANGED <<fixed, version, files, caller>>

\* Entry i of the directory in memory b, after its words have been swapped.
File(b, i) ==
  LET at == ENTRY * (i - 1) IN
  [size   |-> bswap(LE(SubSeq(b, at + 1, at + WORD))),
   select |-> bswap(LE(SubSeq(b, at + WORD + 1, at + 2 * WORD))),
   name   |-> SubSeq(b, at + 2 * WORD + 1, at + ENTRY)]

\* fw_cfg_setup returns.  What the DMA did not write is what the F segment held.
SetupDone ==
  /\ op = "dir" /\ Returns
  /\ \E junk \in {0, BASE - 1} :
       LET b == buf \o [i \in 1 .. len - Len(buf) |-> junk] IN
       files' = [i \in 1 .. filecnt |-> File(b, i)]
  /\ pc' = "idle" /\ op' = "ready"
  /\ UNCHANGED <<fixed, dev, dma, engine, version, filecnt, len, buf, start,
                 want, caller>>

\* Any other call returns.
Return ==
  /\ op \in {"read", "file"} /\ Returns
  /\ pc' = "idle"
  /\ UNCHANGED <<fixed, dev, dma, engine, statics, request, buf, caller>>

\* Fault: the name may go on behind the match.
filenameeqPrefix(a, f) == Len(a) < NAME /\ SubSeq(f.name, 1, Len(a)) = a

\* filenamecmp = 0: the names agree up to and including the terminator, which
\* must be among the NAME bytes.
filenameeq(a, f) == Len(a) < NAME /\ SubSeq(f.name, 1, Len(a) + 1) = Append(a, 0)

\* fw_cfg_file_id: the first match, 0 standing for -1.
fw_cfg_file_id(name) ==
  LET hits == {i \in DOMAIN files : filenameeq(name, files[i])} IN
  IF hits = {} THEN 0 ELSE CHOOSE i \in hits : \A j \in hits : i <= j

\* Callers outside fw_cfg.c.
Ready(name) ==
  /\ pc = "idle" /\ calls < MaxCalls
  /\ asked' = name
  /\ calls' = calls + 1
  /\ UNCHANGED <<fixed, statics, outcome>>

\* fw_cfg_select alone, or followed by fw_cfg_readl_le.
select_readl == \E k \in DOMAIN machine.content, n \in {0, WORD} :
                  Ready(<<>>) /\ BeginPort("read", k, n)

read == \E n \in Lengths : Ready(<<>>) /\ fw_cfg_read("read", Same, n, version)

read_entry == \E k \in DOMAIN machine.content, n \in Lengths :
                Ready(<<>>) /\ fw_cfg_read("read", k, n, version)

\* fw_cfg_file_id, fw_cfg_file_size and fw_cfg_read_file, as every caller
\* combines them.
read_file == \E name \in Names :
  LET id == fw_cfg_file_id(name) IN
  /\ id # 0
  /\ Ready(name) /\ fw_cfg_read("file", files[id].select, files[id].size, version)

Init ==
  /\ machine \in Machines
  /\ item = [k \in Keys \cup {Same} |-> Content(machine, k)]
  /\ dev = [key |-> Same, off |-> 0]
  /\ dma = [control |-> {}, key |-> Same, len |-> 0] /\ engine = Stopped
  /\ version = 0 /\ filecnt = 0 /\ files = <<>>
  /\ pc = "start" /\ op = "none" /\ len = 0 /\ buf = <<>>
  /\ start = dev /\ want = Same
  /\ served = [key |-> Same, len |-> 0] /\ result = <<>> /\ lost = FALSE
  /\ asked = <<>> /\ calls = 0

Driver == \/ SetupVersion \/ SetupCount \/ SetupDir \/ SetupDone \/ Inb \/ Return
          \/ select_readl \/ read \/ read_entry \/ read_file

Device == DmaFetch \/ DmaByte \/ DmaDone \/ DmaError

Next == Driver \/ Device

\* The processor runs and the device serves a descriptor it was given.
Spec == Init /\ [][Next]_vars /\ WF_vars(Driver) /\ WF_vars(Device)

-----------------------------------------------------------------------------

\* The engine works on a descriptor and a buffer of fw_cfg_dma's caller only
\* while fw_cfg_dma waits for it.  Once the stack frame with the descriptor is
\* gone nothing is written any more, error or not.
QuietOutsideDma ==
  "READ" \in dma.control \/ engine # Stopped => pc = "poll"

\* After fw_cfg_setup the table holds what QEMU put in its directory, count and
\* entries having been read by different transports with opposite byte orders;
\* and fw_cfg_file_id, fw_cfg_file_size and fw_cfg_read_file together deliver the
\* whole content of the first file of that name, whatever was selected before.
FileReadWhole ==
  /\ op \in {"ready", "read", "file"} /\ ~lost => files = machine.dir
  /\ pc = "idle" /\ op = "file" /\ ~lost =>
       LET named == {i \in DOMAIN machine.dir :
                       \E n \in 0 .. NAME - 1 :
                         /\ SubSeq(machine.dir[i].name, 1, n) = asked
                         /\ machine.dir[i].name[n + 1] = 0}
       IN  \E first \in named :
             /\ \A j \in named : first <= j
             /\ result = machine.content[machine.dir[first].select]

\* The driver implements the atomic cursor of FwCfgAbs.  A call takes effect
\* when it returns; until then its caller's view of the cursor is the old one.
Abs == INSTANCE FwCfgAbs
         WITH items <- item,
              cursor <- IF pc \in {"inb", "poll"} THEN start ELSE dev
ImplementsCursor == Abs!AbsSpec

\* Every call returns, also one whose DMA ends in an error.
CallsReturn == pc # "idle" ~> pc = "idle"
=============================================================================
