------------------------------- MODULE PciBus -------------------------------
(***************************************************************************)
(* PCI enumeration (pci.c).  setup_pci scans bus 0, then gives every       *)
(* bridge it finds a bus number and scans behind it with a recursive call. *)
(* There is no memory for a list of bridges: pci.c threads it through the  *)
(* PCI_SECONDARY_BUS registers of the bridges themselves, the very         *)
(* registers that decide where a configuration cycle goes.  Every access   *)
(* below is therefore routed through the registers as they are at that     *)
(* moment (Reaches), and may hit no function, or the wrong one.            *)
(*                                                                         *)
(* The hardware is a tree of segments: segment 0 is the root bus, segment  *)
(* b the bus behind bridge b.  A bridge's number is larger than that of    *)
(* the bridge above it, which any tree allows.                             *)
(***************************************************************************)
EXTENDS Integers, Sequences, FiniteSets, FiniteSetsExt, SequencesExt

CONSTANTS
  NDev,         \* devices of a bus: 32
  NFunc,        \* functions of a device: 8
  LAST_ROTATED, \* last Q35 device whose interrupt links rotate: 24
  NBridge,      \* number of bridges
  NLeaf,        \* number of other functions
  Topologies,   \* the machines considered
  BIOS32_ENTRY  \* the bytes of the address of bios32_entry (entry.S)

\* A register of 8 bits holds a bus number or a device and function number.
NBus == NDev * NFunc

Segments == 0 .. NBridge
Bridges == 1 .. NBridge
Funcs == 1 .. NBridge + NLeaf

Dev(devfn) == devfn \div NFunc
Func(devfn) == devfn % NFunc

\* Bus numbers are 8 bits wide and pci.c counts them without a check.
ASSUME SizeAssumption ==
  /\ {NDev, NFunc} \subseteq Nat \ {0}
  /\ {LAST_ROTATED, NBridge, NLeaf} \subseteq Nat
  /\ NBridge < NBus

\* Hardware as the PCI specification has it: the functions of a segment have
\* different numbers and a device has a function 0.
IsTopology(t) ==
  /\ t.chipset \in {"i440fx", "q35", "other"}
  /\ t.parent \in [Funcs -> Segments]
  /\ \A b \in Bridges : t.parent[b] < b
  /\ t.devfn \in [Funcs -> 0 .. NBus - 1]
  /\ \A f, g \in Funcs :
       f # g /\ t.parent[f] = t.parent[g] => t.devfn[f] # t.devfn[g]
  /\ \A f \in Funcs : \E g \in Funcs :
       /\ t.parent[g] = t.parent[f]
       /\ t.devfn[g] = t.devfn[f] - Func(t.devfn[f])
  /\ t.pin \in [Funcs -> 0 .. 4]
  /\ t.line \in [Funcs -> Nat]
  /\ t.kind \in [Funcs -> {"bridge", "ide", "piix_ide", "other"}]
  /\ \A f \in Funcs : t.kind[f] = "bridge" <=> f \in Bridges

ASSUME TopologyAssumption == \A t \in Topologies : IsTopology(t)

ASSUME EntryAssumption == BIOS32_ENTRY \in [1 .. 4 -> 0 .. 255]

VARIABLES
  topo,         \* the machine; never changes
  cfg,          \* configuration space of each function
  addend,       \* pci.c statics
  bus,
  bridge_head,
  bridge_count,
  max_bus,
  bios32,       \* the BIOS32 directory, once setup_bios32 has published it
  pc,
  pos,          \* pci_foreach: next device and function to look at
  stack,        \* locals of the active do_setup_pci_bus calls that have scanned
  seg           \* history: the segment the innermost call is meant to work on

vars == <<topo, cfg, addend, bus, bridge_head, bridge_count, max_bus, bios32,
          pc, pos, stack, seg>>

-----------------------------------------------------------------------------
(* Configuration cycles: what the hardware does with the registers.        *)

\* The bridges between segment s and the root, the one that leads to s included.
Path == LET path[s \in Segments] ==
              IF s = 0 THEN {} ELSE path[topo.parent[s]] \cup {s}
        IN  path

\* A cycle for bus b arrives on segment s: every bridge on the way forwards it
\* and the last one takes it for its own bus.
Reaches(b, s) ==
  \/ s = 0 /\ b = 0
  \/ /\ s # 0 /\ b # 0
     /\ cfg[s].secondary = b
     /\ b <= cfg[s].subordinate
     /\ \A a \in Path[s] \ {s} :
          cfg[a].secondary < b /\ b <= cfg[a].subordinate

Reached(b) == {s \in Segments : Reaches(b, s)}

\* The functions that answer a cycle for a bus, device and function.
Responders(b, devfn) ==
  {f \in Funcs : topo.devfn[f] = devfn /\ Reaches(b, topo.parent[f])}

\* Header type bit PCI_HEADER_TYPE_MULTI_FUNCTION.
MultiFunction(f) ==
  \E g \in Funcs \ {f} :
    /\ topo.parent[g] = topo.parent[f]
    /\ Dev(topo.devfn[g]) = Dev(topo.devfn[f])

-----------------------------------------------------------------------------

\* pci_foreach, what is left of the scan of the current bus: functions that
\* answer, function 0 before the others of its device.
ToVisit ==
  {d \in pos .. NBus - 1 :
     /\ Responders(bus, d) # {}
     /\ Func(d) = 0 \/ \E f \in Responders(bus, d - Func(d)) : MultiFunction(f)}

\* do_setup_pci_irq: the interrupt link of a function with an interrupt pin.
Link(devfn, pin) ==
  (addend + pin + CASE topo.chipset = "i440fx"     -> Dev(devfn) - 1
                    [] Dev(devfn) <= LAST_ROTATED  -> Dev(devfn)
                    [] OTHER                       -> 0) % 4

\* do_setup_pci_irq: the IRQ written to PCI_INTERRUPT_LINE.
LinkIrq(lnk) == IF lnk >= 2 THEN 11 ELSE 10

\* An interrupt line that is already set stays.
do_setup_pci_irq(c, devfn, pin) ==
  IF pin # 0 /\ c.line = 0
  THEN [c EXCEPT !.line = LinkIrq(Link(devfn, pin))]
  ELSE c

\* Fault: bridges are not blocked.
SubordinateBlockedNot == NBus - 1

\* do_setup_pci: a bridge that waits for its turn forwards nothing.
SubordinateBlocked == 0

\* Configuration space of a function after do_setup_pci.  A bridge forwards
\* nothing (subordinate 0) until do_setup_pci_bus gets to it; its secondary bus
\* register holds the previous bridge of the list.
Configured(f) ==
  LET c == do_setup_pci_irq(cfg[f], topo.devfn[f], topo.pin[f]) IN
  CASE topo.kind[f] = "bridge" ->
         [c EXCEPT !.serr = TRUE, !.primary = bus, !.secondary = bridge_head,
                   !.subordinate = SubordinateBlocked]
    [] topo.kind[f] = "ide" -> [c EXCEPT !.bars = "legacy"]
    [] topo.kind[f] = "piix_ide" ->
         [c EXCEPT !.bars = "legacy", !.decode = TRUE]
    [] OTHER -> c

\* Fault: the scan moves on only after a bridge.
NextPosStuck(f, d) == IF f \in Bridges THEN d + 1 ELSE d

\* pci_foreach: where it goes on after function f at d.
NextPos(f, d) == d + 1

\* One iteration of pci_foreach that finds a function: do_setup_pci on it.
do_setup_pci ==
  /\ pc = "scan" /\ ToVisit # {}
  /\ \E f \in Responders(bus, Min(ToVisit)) :
       /\ cfg' = [cfg EXCEPT ![f] = Configured(f)]
       /\ IF topo.kind[f] = "bridge"
          THEN bridge_head' = topo.devfn[f] /\ bridge_count' = bridge_count + 1
          ELSE UNCHANGED <<bridge_head, bridge_count>>
       /\ pos' = NextPos(f, Min(ToVisit))
  /\ UNCHANGED <<topo, addend, bus, max_bus, bios32, pc, stack, seg>>

\* pci_foreach returns; the statics the recursion reuses are saved in locals.
EndScan ==
  /\ pc = "scan" /\ ToVisit = {}
  /\ stack' = Append(stack, [save_bus |-> bus, next_head |-> bridge_head,
                             i |-> bridge_count, at |-> bridge_head, seg |-> seg])
  /\ pc' = "loop"
  /\ UNCHANGED <<topo, cfg, addend, bus, bridge_head, bridge_count, max_bus,
                 bios32, pos, seg>>

\* Entry of do_setup_pci_bus.
EnterBus ==
  /\ bridge_head' = NBus - 1
  /\ bridge_count' = 0
  /\ pos' = 0
  /\ pc' = "scan"

\* do_setup_pci_bus: while it scans behind a bridge, every number may be there.
SubordinateOpen == NBus - 1

\* The bridge that do_setup_pci_bus means by list entry next_head of a call.
Target(fr) == CHOOSE b \in Bridges : /\ topo.parent[b] = fr.seg
                                     /\ topo.devfn[b] = fr.next_head

\* The loop of do_setup_pci_bus up to and including the recursive call.
EnterBridge ==
  LET fr == Last(stack) IN
  /\ pc = "loop" /\ fr.i > 0
  /\ max_bus' = (max_bus + 1) % NBus
  /\ bus' = max_bus'
  /\ \E f \in Responders(fr.save_bus, fr.next_head) :
       /\ stack' = [stack EXCEPT ![Len(stack)].next_head = cfg[f].secondary,
                                 ![Len(stack)].at = fr.next_head]
       /\ cfg' = [cfg EXCEPT ![f].secondary = max_bus',
                             ![f].subordinate = SubordinateOpen]
  /\ seg' = Target(fr)
  /\ addend' = addend + Dev(fr.next_head)
  /\ EnterBus
  /\ UNCHANGED <<topo, bios32>>

\* Fault: the subordinate bus is left open to every bus number.
SubordinateStillOpen == NBus - 1

\* do_setup_pci_bus: once the recursive call is back, the last bus behind it.
SubordinateClosed == max_bus

\* Fault: addend is never restored.
AddendAfterLeak(fr) == addend

\* do_setup_pci_bus: addend as it was before the recursive call of frame fr.
AddendAfter(fr) == addend - Dev(fr.at)

\* Fault: save_bus is a static like bus, and the recursive call overwrites it.
ResumedStatic(fr) == [fr EXCEPT !.i = @ - 1, !.save_bus = bus]

\* do_setup_pci_bus: the locals of a call after one more of its bridges.
Resumed(fr) == [fr EXCEPT !.i = @ - 1]

\* do_setup_pci_bus returns to the loop of its caller, which ends its iteration.
LeaveBridge ==
  LET fr == stack[Len(stack) - 1] IN
  /\ pc = "loop" /\ Last(stack).i = 0 /\ Len(stack) > 1
  /\ \E f \in Responders(fr.save_bus, fr.at) :
       cfg' = [cfg EXCEPT ![f].subordinate = SubordinateClosed]
  /\ stack' = [Front(stack) EXCEPT ![Len(stack) - 1] = Resumed(fr)]
  /\ addend' = AddendAfter(fr)
  /\ seg' = fr.seg
  /\ UNCHANGED <<topo, bus, bridge_head, bridge_count, max_bus, bios32, pc, pos>>

\* setup_pci looks at the host bridge and starts on bus 0, or panics.
setup_pci ==
  /\ pc = "start"
  /\ IF topo.chipset = "other"
     THEN pc' = "panic" /\ UNCHANGED <<bridge_head, bridge_count, pos>>
     ELSE EnterBus
  /\ UNCHANGED <<topo, cfg, addend, bus, max_bus, bios32, stack, seg>>

\* The bytes of the BIOS32 directory: "_32_", the entry point, revision 0, a length
\* of one paragraph, and what takes the sum of the bytes before it off 0.
Directory ==
  LET e == BIOS32_ENTRY
  IN  <<95, 51, 50, 95, e[1], e[2], e[3], e[4], 0, 1,
        (0 - (95 + 51 + 50 + 95 + e[1] + e[2] + e[3] + e[4] + 0 + 1)) % 256, 0, 0, 0, 0, 0>>

\* The outermost call returns and setup_pci goes on with setup_bios32.
setup_bios32 ==
  /\ pc = "loop" /\ Last(stack).i = 0 /\ Len(stack) = 1
  /\ bios32' = Directory
  /\ stack' = <<>>
  /\ pc' = "done"
  /\ UNCHANGED <<topo, cfg, addend, bus, bridge_head, bridge_count, max_bus,
                 pos, seg>>

\* Registers at reset.
ResetConfig(t) ==
  [f \in Funcs |-> [primary |-> 0, secondary |-> 0, subordinate |-> 0,
                    line |-> t.line[f], serr |-> FALSE, bars |-> "reset",
                    decode |-> FALSE]]

Init ==
  /\ topo \in Topologies
  /\ cfg = ResetConfig(topo)
  /\ addend = 0 /\ bus = 0 /\ bridge_head = 0 /\ bridge_count = 0 /\ max_bus = 0
  /\ bios32 = <<>>
  /\ pc = "start" /\ pos = 0 /\ stack = <<>> /\ seg = 0

\* setup_pci has returned or panicked.
Finished == pc \in {"done", "panic"} /\ UNCHANGED vars

Next ==
  \/ setup_pci \/ do_setup_pci \/ EndScan \/ EnterBridge \/ LeaveBridge
  \/ setup_bios32 \/ Finished

\* pci.c is a straight run of one processor: it never stops before it is done.
Spec == Init /\ [][Next]_vars /\ WF_vars(Next)

-----------------------------------------------------------------------------

\* At every step of the enumeration, with bridges half set up and the bridge
\* list living in their bus number registers, a bus number pci.c has handed out
\* leads to exactly one segment and any other number leads nowhere ("prevent
\* accidental access to unintended devices", pci.c).
RoutesUnique ==
  \A b \in 0 .. NBus - 1 :
    Cardinality(Reached(b)) = IF b <= max_bus THEN 1 ELSE 0

\* The cycles of the innermost call go to the segment it is meant to set up: the
\* static bus while it scans, save_bus once the recursion has overwritten bus.
CyclesReachTarget ==
  /\ pc = "scan" => Reached(bus) = {seg}
  /\ pc = "loop" => \A k \in DOMAIN stack :
                       Reached(stack[k].save_bus) = {stack[k].seg}

Below(b) == {c \in Bridges : b \in Path[c]}

BusOf(s) == IF s = 0 THEN 0 ELSE cfg[s].secondary

\* When setup_pci is done every bridge has a bus number of its own, sits on the
\* bus its primary register names, and forwards exactly the bus numbers given
\* out behind it.
WindowsExact ==
  pc = "done" =>
    /\ {cfg[b].secondary : b \in Bridges} = 1 .. NBridge
    /\ max_bus = NBridge
    /\ \A b \in Bridges :
         /\ cfg[b].primary = BusOf(topo.parent[b])
         /\ cfg[b].secondary .. cfg[b].subordinate =
              {cfg[c].secondary : c \in Below(b)}

\* The sum of the device numbers of the bridges in front of a segment.
PathSum == LET sum[s \in Segments] ==
                 IF s = 0 THEN 0
                 ELSE sum[topo.parent[s]] + Dev(topo.devfn[s])
           IN  sum

\* The interrupt line of a function depends on its place in the tree alone: its
\* link is its pin rotated by every device number on the way to the root.  The
\* static addend, changed before and after each recursive call, never leaks
\* from one subtree into another, and a line set at reset is kept.
LinesFollowPath ==
  pc = "done" =>
    \A f \in Funcs :
      LET dev == Dev(topo.devfn[f])
          own == CASE topo.chipset = "i440fx" -> dev - 1
                   [] dev <= LAST_ROTATED     -> dev
                   [] OTHER                   -> 0
      IN  cfg[f].line =
            IF topo.pin[f] = 0 \/ topo.line[f] # 0 THEN topo.line[f]
            ELSE LinkIrq((PathSum[topo.parent[f]] + own + topo.pin[f]) % 4)

\* The recursion ends on every tree.
Terminates == <>(pc \in {"done", "panic"})

=============================================================================
