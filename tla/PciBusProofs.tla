---------------------------- MODULE PciBusProofs ----------------------------
(***************************************************************************)
(* Every tree of bridges is numbered as it should be, whatever its size    *)
(* and shape.  The run `pci_bus` checks the trees of three bridges.        *)
(***************************************************************************)
EXTENDS PciBus, FiniteSetTheorems, WellFoundedInduction, TLAPS

-----------------------------------------------------------------------------
(* The invariant.                                                          *)

\* A bridge is entered once it has its number: it forwards something.  The others
\* of a segment wait.  Between EnterBridge and LeaveBridge a call is inside Child.
Entered == {b \in Bridges : cfg[b].subordinate # 0}
HasBus(s) == s = 0 \/ s \in Entered
Children(s) == {b \in Bridges : topo.parent[b] = s}
Waiting(s) == Children(s) \ Entered
Inside(k) == k < Len(stack) \/ pc = "scan"
Child(k) == IF k < Len(stack) THEN stack[k + 1].seg ELSE seg

BusRange == 0 .. NBus - 1

Registers ==
  [primary : Nat, secondary : BusRange, subordinate : BusRange, line : Nat,
   serr : BOOLEAN, bars : {"reset", "legacy"}, decode : BOOLEAN]

Frames == [save_bus : BusRange, next_head : BusRange, i : Nat, at : BusRange, seg : Segments]

TypeInv ==
  /\ topo \in Topologies
  /\ cfg \in [Funcs -> Registers]
  /\ bridge_head \in BusRange /\ bridge_count \in Nat /\ pos \in 0 .. NBus
  /\ bus \in BusRange /\ max_bus \in BusRange /\ addend \in Int
  /\ seg \in Segments /\ stack \in Seq(Frames)
  /\ pc \in {"start", "scan", "loop", "done", "panic"}

\* The calls that are active work on the segments from the root to seg.
StackInv ==
  /\ pc \in {"start", "done", "panic"} => stack = <<>> /\ seg = 0
  /\ pc = "loop" => stack # <<>> /\ stack[Len(stack)].seg = seg
  /\ IF stack = <<>> THEN seg = 0 ELSE stack[1].seg = 0
  /\ \A k \in 1 .. Len(stack) :
       /\ HasBus(stack[k].seg) /\ stack[k].save_bus = BusOf(stack[k].seg)
       /\ \A j \in 1 .. k - 1 : stack[j].seg < stack[k].seg
       /\ Inside(k) =>
            /\ Child(k) \in Bridges /\ stack[k].seg < Child(k)
            /\ topo.parent[Child(k)] = stack[k].seg
            /\ topo.devfn[Child(k)] = stack[k].at
  /\ pc = "scan" => \A k \in 1 .. Len(stack) : stack[k].seg < seg

\* The bridges in use have the numbers from 1 to max_bus, each one its own, and
\* the bridges in front of them forward it; those of the active calls forward all.
NumberInv ==
  /\ Cardinality(Entered) = max_bus
  /\ \A b \in Entered : cfg[b].secondary \in 1 .. max_bus
  /\ \A b, c \in Entered : cfg[b].secondary = cfg[c].secondary => b = c
  /\ \A n \in 1 .. max_bus : \E b \in Entered : cfg[b].secondary = n
  /\ HasBus(seg)
  /\ pc = "scan" => bus = BusOf(seg)
  /\ pc = "start" => max_bus = 0 /\ bus = 0

RouteInv ==
  /\ \A b \in Entered : cfg[b].secondary <= cfg[b].subordinate
  /\ \A b \in Entered : \A a \in Path[b] \ {b} :
       /\ a \in Entered
       /\ cfg[a].secondary < cfg[b].secondary
       /\ cfg[b].secondary <= cfg[a].subordinate
  /\ \A a \in Path[seg] : a \in Entered /\ cfg[a].subordinate = NBus - 1

\* A list of bridges, threaded through their registers in the order of their
\* places, the last first.
List(W, head, n, s) ==
  /\ n = Cardinality(W)
  /\ \A b \in W : topo.devfn[b] <= head /\ cfg[b].primary = BusOf(s)
  /\ W # {} => \E b \in W : topo.devfn[b] = head
  /\ \A b, c \in W : topo.devfn[c] < topo.devfn[b] =>
       /\ topo.devfn[c] <= cfg[b].secondary
       /\ \E e \in W : topo.devfn[e] = cfg[b].secondary /\ topo.devfn[e] < topo.devfn[b]

Found == {b \in Children(seg) : topo.devfn[b] < pos}

ListInv ==
  /\ pc = "start" => Entered = {}
  /\ pc = "scan" => /\ Children(seg) \cap Entered = {}
                    /\ List(Found, bridge_head, bridge_count, seg)
  /\ \A k \in 1 .. Len(stack) :
       List(Waiting(stack[k].seg), stack[k].next_head,
            IF Inside(k) THEN stack[k].i - 1 ELSE stack[k].i, stack[k].seg)

\* Whatever has a bus is done, or a call is at work on it.
CompleteInv ==
  pc \notin {"start", "panic"} =>
    \A b \in Bridges :
      HasBus(topo.parent[b]) /\ b \notin Entered =>
        \/ pc = "scan" /\ topo.parent[b] = seg
        \/ \E k \in 1 .. Len(stack) : stack[k].seg = topo.parent[b]

EndOf(b) == IF b \in Path[seg] THEN max_bus ELSE cfg[b].subordinate

\* Behind a bridge are the numbers that were given out while its call was active.
WindowInv ==
  /\ \A b \in Entered : /\ cfg[b].primary = BusOf(topo.parent[b])
                        /\ EndOf(b) <= max_bus
  /\ \A b, c \in Entered :
       b \in Path[c] <=> cfg[c].secondary \in cfg[b].secondary .. EndOf(b)

Own(f) == LET dev == Dev(topo.devfn[f])
          IN  CASE topo.chipset = "i440fx" -> dev - 1
                [] dev <= LAST_ROTATED     -> dev
                [] OTHER                   -> 0

Expected(f) ==
  IF topo.pin[f] = 0 \/ topo.line[f] # 0 THEN topo.line[f]
  ELSE LinkIrq((PathSum[topo.parent[f]] + Own(f) + topo.pin[f]) % 4)

Visited(f) ==
  /\ pc \notin {"start", "panic"}
  /\ HasBus(topo.parent[f])
  /\ pc = "scan" /\ topo.parent[f] = seg => topo.devfn[f] < pos

LineInv ==
  /\ addend = PathSum[seg]
  /\ \A f \in Funcs : cfg[f].line = IF Visited(f) THEN Expected(f) ELSE topo.line[f]

BusIInv ==
  /\ TypeInv /\ StackInv /\ NumberInv /\ RouteInv /\ ListInv /\ CompleteInv
  /\ WindowInv /\ LineInv

-----------------------------------------------------------------------------
(* Trees.                                                                  *)

\* The order of numbers as a relation.
LEMMA LessThan ==
  ASSUME NEW m \in Nat, NEW n \in Nat, m < n
  PROVE  <<m, n>> \in OpToRel(<, Nat)
<1>1. OpToRel(<, Nat) = {r \in Nat \X Nat : r[1] < r[2]}
  BY DEF OpToRel
<1>2. <<m, n>> \in {r \in Nat \X Nat : r[1] < r[2]}
  OBVIOUS
<1>3. QED
  BY <1>1, <1>2

\* A set of numbers has a least one.
LEMMA LeastNumber ==
  ASSUME NEW S, S \subseteq Nat, S # {}
  PROVE  \E n \in S : \A m \in S : n <= m
<1>1. \E n \in S : \A m \in S : ~(<<m, n>> \in OpToRel(<, Nat))
  BY WFMin, NatLessThanWellFounded
<1>2. PICK n \in S : \A m \in S : ~(<<m, n>> \in OpToRel(<, Nat))
  BY <1>1
<1>3. ASSUME NEW m \in S, m < n
      PROVE  FALSE
  <2>1. m \in Nat /\ n \in Nat
    OBVIOUS
  <2>2. <<m, n>> \in OpToRel(<, Nat)
    BY <1>3, <2>1, LessThan
  <2>3. QED
    BY <1>2, <2>2
<1>4. QED
  BY <1>3

\* There are more bus numbers than bridges.
LEMMA Sizes ==
  /\ NBus \in Nat \ {0} /\ NBridge \in Nat /\ NLeaf \in Nat /\ NBridge < NBus
  /\ NFunc \in Nat \ {0}
  BY SizeAssumption DEF NBus

\* A value for every segment, computed from that of the segment above it.
Follows(g, p, z, op, n) == \A s \in 0 .. n : g[s] = IF s = 0 THEN z ELSE op[s][g[p[s]]]

\* Such values exist: a bridge is above those with larger numbers only.
LEMMA TreeRecursion ==
  ASSUME NEW T, NEW z \in T, NEW op \in [Bridges -> [T -> T]],
         NEW p, \A b \in Bridges : p[b] \in Segments /\ p[b] < b
  PROVE  \E g \in [Segments -> T] : Follows(g, p, z, op, NBridge)
<1> DEFINE Bad == {n \in Segments : ~ \E g \in [0 .. n -> T] : Follows(g, p, z, op, n)}
<1>1. SUFFICES Bad = {}
  <2>1. NBridge \in Segments
    BY Sizes DEF Segments
  <2>2. QED
    BY <1>1, <2>1 DEF Segments
<1>2. SUFFICES ASSUME Bad # {}
               PROVE  FALSE
  OBVIOUS
<1>3. PICK n \in Bad : \A m \in Bad : n <= m
  <2>1. Bad \subseteq Nat
    BY Sizes DEF Segments
  <2> HIDE DEF Bad
  <2>2. QED
    BY <1>2, <2>1, LeastNumber
<1>4. n # 0
  <2>1. 0 \in Nat /\ [s \in 0 .. 0 |-> z] \in [0 .. 0 -> T]
    OBVIOUS
  <2>2. Follows([s \in 0 .. 0 |-> z], p, z, op, 0)
    BY DEF Follows
  <2>3. QED
    BY <2>1, <2>2
<1>5. n - 1 \in Segments /\ n \in Nat /\ n <= NBridge /\ n \in Bridges
  BY <1>4, Sizes DEF Segments, Bridges
<1>6. n - 1 \notin Bad
  BY <1>3, <1>5
<1>7. PICK g \in [0 .. n - 1 -> T] : Follows(g, p, z, op, n - 1)
  BY <1>5, <1>6
<1> DEFINE h == [s \in 0 .. n |-> IF s = n THEN op[n][g[p[n]]] ELSE g[s]]
<1>8. p[n] \in 0 .. n - 1
  BY <1>5 DEF Segments
<1>9. h \in [0 .. n -> T]
  BY <1>5, <1>8
<1>10. Follows(h, p, z, op, n)
  <2> SUFFICES ASSUME NEW s \in 0 .. n
               PROVE  h[s] = IF s = 0 THEN z ELSE op[s][h[p[s]]]
    BY DEF Follows
  <2>1. CASE s = n
    BY <1>4, <1>5, <1>8, <2>1
  <2>2. CASE s # n
    <3>1. s \in 0 .. n - 1 /\ (s # 0 => s \in Bridges)
      BY <1>5, <2>2, Sizes DEF Bridges
    <3>2. g[s] = IF s = 0 THEN z ELSE op[s][g[p[s]]]
      BY <1>7, <3>1 DEF Follows
    <3>3. s # 0 => p[s] \in 0 .. n - 1
      BY <3>1, <1>5, Sizes DEF Segments
    <3>4. h[s] = g[s]
      BY <2>2
    <3>5. s # 0 => h[p[s]] = g[p[s]]
      BY <1>5, <3>3
    <3>6. QED
      BY <3>2, <3>4, <3>5
  <2>3. QED
    BY <2>1, <2>2
<1>11. QED
  BY <1>3, <1>9, <1>10

\* What the hardware of a machine looks like, without its fields' types.
LEMMA Parents ==
  ASSUME NEW t, IsTopology(t)
  PROVE  \A b \in Bridges : b \in Funcs /\ t.parent[b] \in Segments /\ t.parent[b] < b
<1>1. Bridges \subseteq Funcs
  BY Sizes DEF Bridges, Funcs
<1>2. QED
  BY <1>1 DEF IsTopology

\* Path is the function its definition says: a recursive definition is a CHOOSE.
LEMMA PathUnfolds ==
  ASSUME IsTopology(topo)
  PROVE  Path \in [Segments -> SUBSET Bridges] /\
         Path = [s \in Segments |-> IF s = 0 THEN {} ELSE Path[topo.parent[s]] \cup {s}]
<1> DEFINE op == [b \in Bridges |-> [x \in SUBSET Bridges |-> x \cup {b}]]
           Is(g) == g = [s \in Segments |-> IF s = 0 THEN {} ELSE g[topo.parent[s]] \cup {s}]
<1>1. op \in [Bridges -> [SUBSET Bridges -> SUBSET Bridges]]
  OBVIOUS
<1>2. {} \in SUBSET Bridges
  OBVIOUS
<1>3. \A b \in Bridges : topo.parent[b] \in Segments /\ topo.parent[b] < b
  BY Parents
<1>4. PICK g \in [Segments -> SUBSET Bridges] : Follows(g, topo.parent, {}, op, NBridge)
  <2> HIDE DEF op
  <2>1. QED
    BY <1>1, <1>2, <1>3, TreeRecursion
<1>5. Is(g)
  <2>1. \A s \in Segments : g[s] = IF s = 0 THEN {} ELSE g[topo.parent[s]] \cup {s}
    <3> SUFFICES ASSUME NEW s \in Segments
                 PROVE  g[s] = IF s = 0 THEN {} ELSE g[topo.parent[s]] \cup {s}
      OBVIOUS
    <3>1. g[s] = IF s = 0 THEN {} ELSE op[s][g[topo.parent[s]]]
      BY <1>4 DEF Follows, Segments
    <3>2. CASE s = 0
      BY <3>1, <3>2
    <3>3. CASE s # 0
      <4>1. s \in Bridges
        BY <3>3, Sizes DEF Segments, Bridges
      <4>2. g[topo.parent[s]] \in SUBSET Bridges
        BY <4>1, <1>3
      <4>3. QED
        BY <3>1, <3>3, <4>1, <4>2
    <3>4. QED
      BY <3>2, <3>3
  <2>2. QED
    BY <2>1
<1>6. Path = CHOOSE h : Is(h)
  BY DEF Path
<1>7. Is(Path)
  <2> HIDE DEF Is
  <2>1. QED
    BY <1>5, <1>6
<1>8. Path \in [Segments -> SUBSET Bridges]
  <2> DEFINE Bad == {s \in Segments : Path[s] \notin SUBSET Bridges}
  <2>1. Bad \subseteq Nat
    BY Sizes DEF Segments
  <2>2. ASSUME Bad # {}
        PROVE  FALSE
    <3>1. PICK s \in Bad : \A m \in Bad : s <= m
      <4> HIDE DEF Bad
      <4>1. QED
        BY <2>1, <2>2, LeastNumber
    <3>2. Path[s] = IF s = 0 THEN {} ELSE Path[topo.parent[s]] \cup {s}
      BY <1>7
    <3>3. s # 0 => s \in Bridges
      BY Sizes DEF Segments, Bridges
    <3>4. s # 0 => topo.parent[s] \notin Bad
      BY <3>1, <3>3, <1>3, Sizes DEF Segments
    <3>5. s # 0 => Path[topo.parent[s]] \in SUBSET Bridges
      BY <3>3, <3>4, <1>3
    <3>6. QED
      BY <3>2, <3>3, <3>5
  <2>3. Path = [s \in Segments |-> Path[s]]
    BY <1>7
  <2>4. QED
    BY <2>2, <2>3
<1>9. QED
  BY <1>7, <1>8

\* PathSum is the function its definition says.
LEMMA PathSumUnfolds ==
  ASSUME IsTopology(topo)
  PROVE  PathSum \in [Segments -> Int] /\
         PathSum = [s \in Segments |->
                      IF s = 0 THEN 0 ELSE PathSum[topo.parent[s]] + Dev(topo.devfn[s])]
<1> DEFINE op == [b \in Bridges |-> [x \in Int |-> x + Dev(topo.devfn[b])]]
           Is(g) == g = [s \in Segments |->
                           IF s = 0 THEN 0 ELSE g[topo.parent[s]] + Dev(topo.devfn[s])]
<1>1. \A b \in Bridges : Dev(topo.devfn[b]) \in Int
  <2>1. \A b \in Bridges : topo.devfn[b] \in Int
    BY Sizes, Parents DEF IsTopology
  <2>2. QED
    BY <2>1, Sizes DEF Dev
<1>2. op \in [Bridges -> [Int -> Int]]
  BY <1>1
<1>3. \A b \in Bridges : topo.parent[b] \in Segments /\ topo.parent[b] < b
  BY Parents
<1>4. PICK g \in [Segments -> Int] : Follows(g, topo.parent, 0, op, NBridge)
  <2>1. 0 \in Int
    OBVIOUS
  <2> HIDE DEF op
  <2>2. QED
    BY <1>2, <1>3, <2>1, TreeRecursion, Zenon
<1>5. Is(g)
  <2>1. \A s \in Segments :
          g[s] = IF s = 0 THEN 0 ELSE g[topo.parent[s]] + Dev(topo.devfn[s])
    <3> SUFFICES ASSUME NEW s \in Segments
                 PROVE  g[s] = IF s = 0 THEN 0 ELSE g[topo.parent[s]] + Dev(topo.devfn[s])
      OBVIOUS
    <3>1. g[s] = IF s = 0 THEN 0 ELSE op[s][g[topo.parent[s]]]
      BY <1>4 DEF Follows, Segments
    <3>2. CASE s = 0
      BY <3>1, <3>2
    <3>3. CASE s # 0
      <4>1. s \in Bridges
        BY <3>3, Sizes DEF Segments, Bridges
      <4>2. g[topo.parent[s]] \in Int
        BY <4>1, <1>3
      <4>3. QED
        BY <3>1, <3>3, <4>1, <4>2
    <3>4. QED
      BY <3>2, <3>3
  <2>2. QED
    BY <2>1
<1>6. PathSum = CHOOSE h : Is(h)
  BY DEF PathSum
<1>7. Is(PathSum)
  <2> HIDE DEF Is
  <2>1. QED
    BY <1>5, <1>6
<1>8. PathSum \in [Segments -> Int]
  <2> DEFINE Bad == {s \in Segments : PathSum[s] \notin Int}
  <2>1. Bad \subseteq Nat
    BY Sizes DEF Segments
  <2>2. ASSUME Bad # {}
        PROVE  FALSE
    <3>1. PICK s \in Bad : \A m \in Bad : s <= m
      <4> HIDE DEF Bad
      <4>1. QED
        BY <2>1, <2>2, LeastNumber
    <3>2. PathSum[s] = IF s = 0 THEN 0 ELSE PathSum[topo.parent[s]] + Dev(topo.devfn[s])
      BY <1>7
    <3>3. s # 0 => s \in Bridges
      BY Sizes DEF Segments, Bridges
    <3>4. s # 0 => topo.parent[s] \notin Bad
      BY <3>1, <3>3, <1>3, Sizes DEF Segments
    <3>5. s # 0 => PathSum[topo.parent[s]] \in Int
      BY <3>3, <3>4, <1>3
    <3>6. QED
      BY <3>2, <3>3, <3>5, <1>1
  <2>3. PathSum = [s \in Segments |-> PathSum[s]]
    BY <1>7
  <2>4. QED
    BY <2>2, <2>3
<1>9. QED
  BY <1>7, <1>8

\* A segment and the bridges above it; a bridge is not above those in front of it.
LEMMA Tree ==
  ASSUME IsTopology(topo)
  PROVE  /\ Path \in [Segments -> SUBSET Bridges]
         /\ Path[0] = {}
         /\ \A b \in Bridges : Path[b] = Path[topo.parent[b]] \cup {b}
         /\ \A s \in Segments : \A a \in Path[s] : a <= s
<1>1. /\ Path \in [Segments -> SUBSET Bridges]
      /\ Path = [s \in Segments |-> IF s = 0 THEN {} ELSE Path[topo.parent[s]] \cup {s}]
  BY PathUnfolds
<1>2. 0 \in Segments /\ \A b \in Bridges : b \in Segments /\ b # 0
  BY Sizes DEF Segments, Bridges
<1>3. Path[0] = {}
  BY <1>1, <1>2
<1>4. \A b \in Bridges : Path[b] = Path[topo.parent[b]] \cup {b}
  BY <1>1, <1>2
<1> DEFINE Bad == {s \in Segments : ~ \A a \in Path[s] : a <= s}
<1>5. ASSUME Bad # {}
      PROVE  FALSE
  <2>1. PICK s \in Bad : \A m \in Bad : s <= m
    <3>1. Bad \subseteq Nat
      BY Sizes DEF Segments
    <3> HIDE DEF Bad
    <3>2. QED
      BY <1>5, <3>1, LeastNumber
  <2>2. s # 0
    BY <1>3
  <2>3. s \in Bridges /\ s \in Nat
    BY <2>2, Sizes DEF Segments, Bridges
  <2>4. /\ topo.parent[s] \in Segments /\ topo.parent[s] \in Nat
        /\ topo.parent[s] < s /\ topo.parent[s] \notin Bad
    BY <2>1, <2>3, Parents, Sizes DEF Segments
  <2>5. \A a \in Path[topo.parent[s]] : a <= topo.parent[s] /\ a \in Nat
    BY <2>4, <1>1, Sizes DEF Bridges
  <2>6. \A a \in Path[s] : a <= s
    BY <1>4, <2>3, <2>4, <2>5
  <2>7. QED
    BY <2>6
<1>6. QED
  BY <1>1, <1>3, <1>4, <1>5

\* The root segment has no bridge above it, and no device number counts for it.
LEMMA Sums ==
  ASSUME IsTopology(topo)
  PROVE  /\ PathSum \in [Segments -> Int]
         /\ PathSum[0] = 0
         /\ \A b \in Bridges : PathSum[b] = PathSum[topo.parent[b]] + Dev(topo.devfn[b])
<1>1. 0 \in Segments /\ \A b \in Bridges : b \in Segments /\ b # 0
  BY Sizes DEF Segments, Bridges
<1>2. QED
  BY <1>1, PathSumUnfolds

\* The types of a machine's fields.
LEMMA Hardware ==
  ASSUME TypeInv
  PROVE  /\ IsTopology(topo)
         /\ \A f \in Funcs : /\ topo.parent[f] \in Segments /\ topo.parent[f] \in Nat
                             /\ topo.devfn[f] \in 0 .. NBus - 1 /\ topo.devfn[f] \in Nat
                             /\ topo.pin[f] \in 0 .. 4 /\ topo.line[f] \in Nat
         /\ \A b \in Bridges : b \in Funcs /\ b \in Segments /\ b \in Nat \ {0} /\ b <= NBridge
         /\ \A s \in Segments : s = 0 \/ s \in Bridges
         /\ \A f, g \in Funcs :
              topo.parent[f] = topo.parent[g] /\ topo.devfn[f] = topo.devfn[g] => f = g
         /\ IsFiniteSet(Bridges) /\ Cardinality(Bridges) = NBridge
         /\ 0 \in Segments /\ Segments \subseteq Nat
<1>1. IsTopology(topo)
  BY TopologyAssumption DEF TypeInv
<1>2. \A b \in Bridges : b \in Funcs /\ b \in Segments /\ b \in Nat \ {0} /\ b <= NBridge
  BY Sizes DEF Bridges, Funcs, Segments
<1>3. \A s \in Segments : s = 0 \/ s \in Bridges
  BY Sizes DEF Bridges, Segments
<1>4. IsFiniteSet(Bridges) /\ Cardinality(Bridges) = NBridge
  BY Sizes, FS_Interval DEF Bridges
<1>5. 0 \in Segments /\ Segments \subseteq Nat
  BY Sizes DEF Segments
<1>6. \A f \in Funcs : /\ topo.parent[f] \in Segments
                       /\ topo.devfn[f] \in 0 .. NBus - 1
                       /\ topo.pin[f] \in 0 .. 4 /\ topo.line[f] \in Nat
  BY <1>1 DEF IsTopology
<1>7. \A f, g \in Funcs :
        topo.parent[f] = topo.parent[g] /\ topo.devfn[f] = topo.devfn[g] => f = g
  BY <1>1 DEF IsTopology
<1>8. \A f \in Funcs : topo.parent[f] \in Nat /\ topo.devfn[f] \in Nat
  <2>1. 0 .. NBus - 1 \subseteq Nat
    BY Sizes
  <2>2. QED
    BY <1>5, <1>6, <2>1
<1>9. QED
  BY <1>1, <1>2, <1>3, <1>4, <1>5, <1>6, <1>7, <1>8

\* Function 0 of a device is on the device.
LEMMA SameDevice ==
  ASSUME NEW d \in Nat
  PROVE  Dev(d - Func(d)) = Dev(d) /\ d - Func(d) \in Nat /\ Func(d) \in Nat
<1>1. NFunc \in Nat \ {0}
  BY Sizes
<1> DEFINE q == d \div NFunc
           r == d % NFunc
<1>2. q \in Nat /\ r \in 0 .. NFunc - 1 /\ d = NFunc * q + r
  BY <1>1
<1>3. (NFunc * q) \div NFunc = q
  <2> HIDE DEF q
  <2>1. QED
    BY <1>1, <1>2
<1>4. d - r = NFunc * q
  <2> HIDE DEF q, r
  <2>1. QED
    BY <1>1, <1>2
<1>5. (d - r) \div NFunc = q
  <2> HIDE DEF q, r
  <2>1. QED
    BY <1>3, <1>4
<1>6. d - r \in Nat /\ r \in Nat
  <2>1. NFunc * q \in Nat
    <3> HIDE DEF q
    <3>1. QED
      BY <1>1, <1>2
  <2> HIDE DEF q, r
  <2>2. QED
    BY <1>1, <1>2, <1>4, <2>1
<1>7. QED
  BY <1>5, <1>6 DEF Dev, Func

-----------------------------------------------------------------------------
(* Routing: a bus number in use leads to the segment that has it.          *)

\* A segment with a bus is reached by the number it has and by no other.
LEMMA Routes ==
  ASSUME TypeInv, NumberInv, RouteInv
  PROVE  /\ \A n \in BusRange, s \in Segments : Reaches(n, s) <=> HasBus(s) /\ n = BusOf(s)
         /\ \A s \in Segments : HasBus(s) => BusOf(s) \in BusRange /\ BusOf(s) <= max_bus
         /\ \A s, t \in Segments : HasBus(s) /\ HasBus(t) /\ BusOf(s) = BusOf(t) => s = t
<1> USE Hardware
<1>1. \A b \in Bridges : /\ cfg[b].secondary \in BusRange /\ cfg[b].subordinate \in BusRange
                         /\ cfg[b].secondary \in Nat /\ cfg[b].subordinate \in Nat
  BY Sizes DEF TypeInv, Registers, BusRange
<1>2. max_bus \in Nat /\ max_bus <= NBus - 1 /\ 0 \in BusRange
  BY Sizes DEF TypeInv, BusRange
<1>3. \A s \in Segments : HasBus(s) => BusOf(s) \in BusRange /\ BusOf(s) <= max_bus
  BY <1>1, <1>2, Sizes DEF HasBus, BusOf, NumberInv, Entered
<1>4. \A s, t \in Segments : HasBus(s) /\ HasBus(t) /\ BusOf(s) = BusOf(t) => s = t
  BY <1>2 DEF HasBus, BusOf, NumberInv, Entered
<1>5. ASSUME NEW n \in BusRange, NEW s \in Segments, Reaches(n, s)
      PROVE  HasBus(s) /\ n = BusOf(s)
  <2>1. n \in Nat
    BY Sizes DEF BusRange
  <2>2. QED
    BY <1>1, <1>5, <2>1 DEF Reaches, HasBus, BusOf, Entered
<1>6. ASSUME NEW s \in Segments, HasBus(s)
      PROVE  Reaches(BusOf(s), s)
  <2>1. CASE s = 0
    BY <2>1 DEF Reaches, BusOf
  <2>2. CASE s # 0
    <3>1. s \in Entered /\ s \in Bridges /\ BusOf(s) = cfg[s].secondary
      BY <1>6, <2>2 DEF HasBus, BusOf, Entered
    <3>2. cfg[s].secondary # 0 /\ cfg[s].secondary <= cfg[s].subordinate
      BY <1>2, <3>1 DEF NumberInv, RouteInv
    <3>3. \A a \in Path[s] \ {s} :
            cfg[a].secondary < cfg[s].secondary /\ cfg[s].secondary <= cfg[a].subordinate
      BY <3>1 DEF RouteInv
    <3>4. QED
      BY <2>2, <3>1, <3>2, <3>3 DEF Reaches
  <2>3. QED
    BY <2>1, <2>2
<1>7. QED
  BY <1>3, <1>4, <1>5, <1>6

\* So a cycle finds the functions of that segment.
LEMMA Answers ==
  ASSUME TypeInv, NumberInv, RouteInv, NEW s \in Segments, HasBus(s), NEW d
  PROVE  /\ Reached(BusOf(s)) = {s}
         /\ Responders(BusOf(s), d) =
              {f \in Funcs : topo.parent[f] = s /\ topo.devfn[f] = d}
<1>1. BusOf(s) \in BusRange
  BY Routes
<1>2. \A t \in Segments : Reaches(BusOf(s), t) <=> t = s
  BY <1>1, Routes
<1>3. Reached(BusOf(s)) = {s}
  BY <1>2 DEF Reached
<1>4. \A f \in Funcs : topo.parent[f] \in Segments
  BY Hardware
<1>5. QED
  BY <1>2, <1>3, <1>4 DEF Responders

-----------------------------------------------------------------------------
(* The scan of a bus visits the functions of its segment, each one once, in *)
(* the order of their numbers.                                             *)

ToScan == {f \in Funcs : topo.parent[f] = seg /\ topo.devfn[f] >= pos}

\* What is left of a scan is what is left of the segment: a device whose function 0
\* answers says itself whether it has others.
LEMMA ScanFinds ==
  ASSUME TypeInv, NumberInv, RouteInv, pc = "scan"
  PROVE  ToVisit = {topo.devfn[f] : f \in ToScan}
<1> USE Hardware
<1>1. seg \in Segments /\ HasBus(seg) /\ bus = BusOf(seg) /\ pos \in Nat
  BY Sizes DEF TypeInv, NumberInv
<1>2. \A d : Responders(bus, d) = {f \in Funcs : topo.parent[f] = seg /\ topo.devfn[f] = d}
  BY <1>1, Answers
<1>3. ASSUME NEW d \in ToVisit
      PROVE  \E f \in ToScan : d = topo.devfn[f]
  <2>1. PICK f \in Funcs : topo.parent[f] = seg /\ topo.devfn[f] = d
    BY <1>2 DEF ToVisit
  <2>2. d >= pos
    BY <1>1, Sizes DEF ToVisit
  <2>3. QED
    BY <2>1, <2>2 DEF ToScan
<1>4. ASSUME NEW f \in ToScan
      PROVE  topo.devfn[f] \in ToVisit
  <2> DEFINE d == topo.devfn[f]
  <2>1. /\ f \in Funcs /\ topo.parent[f] = seg
        /\ d \in Nat /\ d \in 0 .. NBus - 1 /\ d \in pos .. NBus - 1
    BY <1>1, Sizes DEF ToScan
  <2>2. f \in Responders(bus, d)
    BY <1>2, <2>1
  <2>3. CASE Func(d) = 0
    BY <2>1, <2>2, <2>3 DEF ToVisit
  <2>4. CASE Func(d) # 0
    <3>1. PICK g \in Funcs : /\ topo.parent[g] = topo.parent[f]
                             /\ topo.devfn[g] = d - Func(d)
      BY <2>1 DEF IsTopology
    <3>2. Dev(d - Func(d)) = Dev(d) /\ Func(d) \in Nat
      BY <2>1, SameDevice
    <3>3. g # f
      BY <2>1, <2>4, <3>1, <3>2
    <3>4. MultiFunction(g)
      BY <2>1, <3>1, <3>2, <3>3 DEF MultiFunction
    <3>5. g \in Responders(bus, d - Func(d))
      BY <1>2, <2>1, <3>1
    <3>6. QED
      BY <2>1, <2>2, <3>4, <3>5 DEF ToVisit
  <2>5. QED
    BY <2>3, <2>4
<1>5. QED
  BY <1>3, <1>4

\* The function the next iteration finds is the first that is left.
LEMMA ScanNext ==
  ASSUME TypeInv, NumberInv, RouteInv, do_setup_pci
  PROVE  \E f \in ToScan :
           /\ \A g \in ToScan : topo.devfn[f] <= topo.devfn[g]
           /\ cfg' = [cfg EXCEPT ![f] = Configured(f)]
           /\ IF f \in Bridges
              THEN bridge_head' = topo.devfn[f] /\ bridge_count' = bridge_count + 1
              ELSE UNCHANGED <<bridge_head, bridge_count>>
           /\ pos' = topo.devfn[f] + 1
<1> USE Hardware
<1>1. pc = "scan" /\ ToVisit # {}
  BY DEF do_setup_pci
<1>2. ToVisit = {topo.devfn[f] : f \in ToScan}
  BY <1>1, ScanFinds
<1>3. ToVisit \subseteq Nat
  BY <1>2 DEF ToScan
<1>4. Min(ToVisit) \in ToVisit /\ \A d \in ToVisit : Min(ToVisit) <= d
  <2>1. \E n \in ToVisit : \A m \in ToVisit : n <= m
    BY <1>1, <1>3, LeastNumber
  <2>2. QED
    BY <2>1 DEF Min
<1>5. PICK f \in Responders(bus, Min(ToVisit)) :
        /\ cfg' = [cfg EXCEPT ![f] = Configured(f)]
        /\ IF topo.kind[f] = "bridge"
           THEN bridge_head' = topo.devfn[f] /\ bridge_count' = bridge_count + 1
           ELSE UNCHANGED <<bridge_head, bridge_count>>
        /\ pos' = NextPos(f, Min(ToVisit))
  BY DEF do_setup_pci
<1>6. f \in Funcs /\ topo.parent[f] = seg /\ topo.devfn[f] = Min(ToVisit)
  <2>1. seg \in Segments /\ HasBus(seg) /\ bus = BusOf(seg)
    BY <1>1 DEF TypeInv, NumberInv
  <2>2. QED
    BY <1>5, <2>1, Answers
<1>7. PICK g \in ToScan : topo.devfn[g] = Min(ToVisit)
  BY <1>2, <1>4
<1>8. f = g
  BY <1>6, <1>7 DEF ToScan
<1>9. \A e \in ToScan : topo.devfn[f] <= topo.devfn[e]
  BY <1>2, <1>4, <1>6
<1>10. topo.kind[f] = "bridge" <=> f \in Bridges
  BY <1>6 DEF IsTopology
<1>11. QED
  BY <1>5, <1>6, <1>7, <1>8, <1>9, <1>10 DEF NextPos

\* What do_setup_pci writes into the configuration space of a function.
LEMMA ConfiguredFields ==
  ASSUME TypeInv, NEW f \in Funcs
  PROVE  /\ Configured(f) \in Registers
         /\ Configured(f).line = IF topo.pin[f] = 0 \/ cfg[f].line # 0 THEN cfg[f].line
                                 ELSE LinkIrq((addend + Own(f) + topo.pin[f]) % 4)
         /\ f \in Bridges => /\ Configured(f).primary = bus
                             /\ Configured(f).secondary = bridge_head
                             /\ Configured(f).subordinate = 0
<1> DEFINE c == do_setup_pci_irq(cfg[f], topo.devfn[f], topo.pin[f])
<1>1. cfg[f] \in Registers /\ topo.devfn[f] \in Nat /\ topo.pin[f] \in Nat /\ addend \in Int
  BY Hardware, Sizes DEF TypeInv
<1>2. Dev(topo.devfn[f]) \in Int /\ Own(f) \in Int /\ NBus \in Nat
  <2>1. Dev(topo.devfn[f]) \in Int
    BY <1>1, Sizes DEF Dev
  <2>2. QED
    BY <2>1, Sizes, SizeAssumption DEF Own
<1>3. Link(topo.devfn[f], topo.pin[f]) = (addend + Own(f) + topo.pin[f]) % 4
  <2>1. Link(topo.devfn[f], topo.pin[f]) = (addend + topo.pin[f] + Own(f)) % 4
    BY DEF Link, Own
  <2>2. addend + topo.pin[f] + Own(f) = addend + Own(f) + topo.pin[f]
    BY <1>1, <1>2
  <2>3. QED
    BY <2>1, <2>2
<1>4. c = IF topo.pin[f] # 0 /\ cfg[f].line = 0
          THEN [cfg[f] EXCEPT !.line = LinkIrq((addend + Own(f) + topo.pin[f]) % 4)]
          ELSE cfg[f]
  BY <1>3 DEF do_setup_pci_irq
<1>5. \A n : LinkIrq(n) \in Nat
  BY DEF LinkIrq
<1>6. /\ c \in Registers
      /\ c.line = IF topo.pin[f] = 0 \/ cfg[f].line # 0 THEN cfg[f].line
                  ELSE LinkIrq((addend + Own(f) + topo.pin[f]) % 4)
  BY <1>1, <1>4, <1>5 DEF Registers
<1>7. topo.kind[f] \in {"bridge", "ide", "piix_ide", "other"} /\
      (topo.kind[f] = "bridge" <=> f \in Bridges)
  BY Hardware DEF IsTopology
<1>8. bus \in BusRange /\ bus \in Nat /\ bridge_head \in BusRange /\ 0 \in BusRange
  BY Sizes DEF TypeInv, BusRange
<1> HIDE DEF c
<1>9. CASE f \in Bridges
  <2>1. Configured(f) = [c EXCEPT !.serr = TRUE, !.primary = bus, !.secondary = bridge_head,
                                  !.subordinate = 0]
    BY <1>7, <1>9 DEF Configured, c, SubordinateBlocked
  <2>2. Configured(f) = [primary |-> bus, secondary |-> bridge_head, subordinate |-> 0,
                         line |-> c.line, serr |-> TRUE, bars |-> c.bars,
                         decode |-> c.decode]
    BY <1>6, <2>1 DEF Registers
  <2>3. c.line \in Nat /\ c.bars \in {"reset", "legacy"} /\ c.decode \in BOOLEAN
    BY <1>6 DEF Registers
  <2>4. Configured(f) \in Registers
    BY <1>8, <2>2, <2>3 DEF Registers
  <2>5. QED
    BY <1>6, <2>2, <2>4
<1>10. CASE f \notin Bridges
  <2>1. \/ Configured(f) = [c EXCEPT !.bars = "legacy"]
        \/ Configured(f) = [c EXCEPT !.bars = "legacy", !.decode = TRUE]
        \/ Configured(f) = c
    BY <1>7, <1>10 DEF Configured, c
  <2>2. QED
    BY <1>6, <1>10, <2>1 DEF Registers
<1>11. QED
  BY <1>9, <1>10

-----------------------------------------------------------------------------
(* Every step keeps the invariant.                                         *)

\* The machine never changes, and what depends on it alone does not either.
LEMMA SameMachine ==
  ASSUME topo' = topo
  PROVE  /\ Path' = Path /\ PathSum' = PathSum
         /\ \A s : Children(s)' = Children(s)
         /\ \A f : Own(f)' = Own(f) /\ Expected(f)' = Expected(f)
<1>1. Path' = Path
  BY DEF Path
<1>2. PathSum' = PathSum
  BY DEF PathSum
<1>3. \A s : Children(s)' = Children(s)
  BY DEF Children
<1>4. \A f : Own(f)' = Own(f)
  BY DEF Own
<1>5. QED
  BY <1>1, <1>2, <1>3, <1>4 DEF Expected

\* A bridge in use is behind bridges in use.
LEMMA ParentHasBus ==
  ASSUME TypeInv, RouteInv, NEW b \in Entered
  PROVE  HasBus(topo.parent[b])
<1>1. b \in Bridges /\ topo.parent[b] \in Segments /\ topo.parent[b] < b
  BY Hardware, Parents DEF Entered
<1>2. CASE topo.parent[b] = 0
  BY <1>2 DEF HasBus
<1>3. CASE topo.parent[b] # 0
  <2>1. topo.parent[b] \in Bridges
    BY <1>1, <1>3, Hardware
  <2>2. topo.parent[b] \in Path[topo.parent[b]]
    BY <2>1, Hardware, Tree
  <2>3. topo.parent[b] \in Path[b] \ {b}
    BY <1>1, <2>2, Hardware, Tree
  <2>4. QED
    BY <2>3 DEF RouteInv, HasBus
<1>4. QED
  BY <1>2, <1>3

\* The types of a frame.
LEMMA Frame ==
  ASSUME TypeInv
  PROVE  /\ Len(stack) \in Nat /\ seg \in Segments /\ seg \in Nat
         /\ \A k \in 1 .. Len(stack) :
              /\ stack[k] \in Frames
              /\ stack[k].seg \in Segments /\ stack[k].seg \in Nat
              /\ stack[k].save_bus \in BusRange /\ stack[k].next_head \in BusRange
              /\ stack[k].i \in Nat /\ stack[k].at \in BusRange
<1>1. Len(stack) \in Nat /\ \A k \in 1 .. Len(stack) : stack[k] \in Frames
  BY DEF TypeInv
<1>2. Segments \subseteq Nat /\ seg \in Segments
  BY Hardware DEF TypeInv
<1>3. \A fr \in Frames : /\ fr.seg \in Segments /\ fr.seg \in Nat
                         /\ fr.save_bus \in BusRange /\ fr.next_head \in BusRange
                         /\ fr.i \in Nat /\ fr.at \in BusRange
  BY <1>2 DEF Frames
<1>4. QED
  BY <1>1, <1>2, <1>3

\* One function set up: only its registers change, and no number is in use yet
\* behind it.
LEMMA ScanKeeps ==
  ASSUME BusIInv, do_setup_pci
  PROVE  BusIInv'
<1> USE Hardware
<1> TypeInv /\ StackInv /\ NumberInv /\ RouteInv /\ ListInv /\ CompleteInv /\ WindowInv /\ LineInv
  BY DEF BusIInv
<1>1. /\ pc = "scan" /\ pc' = "scan"
      /\ UNCHANGED <<topo, addend, bus, max_bus, bios32, stack, seg>>
  BY DEF do_setup_pci
<1>2. PICK f \in ToScan :
        /\ \A g \in ToScan : topo.devfn[f] <= topo.devfn[g]
        /\ cfg' = [cfg EXCEPT ![f] = Configured(f)]
        /\ IF f \in Bridges
           THEN bridge_head' = topo.devfn[f] /\ bridge_count' = bridge_count + 1
           ELSE UNCHANGED <<bridge_head, bridge_count>>
        /\ pos' = topo.devfn[f] + 1
  BY ScanNext
<1>3. f \in Funcs /\ topo.parent[f] = seg /\ topo.devfn[f] >= pos
  BY <1>2 DEF ToScan
<1>4. /\ \A g \in Funcs : g # f => cfg'[g] = cfg[g]
      /\ cfg'[f] = Configured(f)
  BY <1>2, <1>3 DEF TypeInv
<1>5. f \notin Entered /\ (f \in Bridges => Configured(f).subordinate = 0)
  BY <1>1, <1>3, ConfiguredFields DEF ListInv, Children, Entered
<1>6. Entered' = Entered
  BY <1>4, <1>5 DEF Entered
<1>7. /\ \A s : HasBus(s)' <=> HasBus(s)
      /\ \A s : HasBus(s) => BusOf(s)' = BusOf(s)
      /\ \A b \in Entered : cfg'[b] = cfg[b] /\ b \in Bridges
  <2>1. \A b \in Entered : cfg'[b] = cfg[b] /\ b \in Bridges
    BY <1>4, <1>5 DEF Entered
  <2>2. QED
    BY <2>1, <1>6 DEF HasBus, BusOf
<1>8. TypeInv'
  <2>1. cfg' \in [Funcs -> Registers]
    BY <1>2, <1>3, ConfiguredFields DEF TypeInv
  <2>2. bridge_head' \in BusRange /\ bridge_count' \in Nat
    BY <1>2, <1>3 DEF TypeInv, BusRange
  <2>3. pos' \in 0 .. NBus
    BY <1>2, <1>3, Sizes
  <2>4. QED
    BY <1>1, <2>1, <2>2, <2>3 DEF TypeInv
<1>9. StackInv'
  BY <1>1, <1>7 DEF StackInv, Inside, Child
<1>10. NumberInv'
  BY <1>1, <1>6, <1>7 DEF NumberInv
<1>11. RouteInv'
  BY <1>1, <1>6, <1>7, SameMachine DEF RouteInv
<1>12. ListInv'
  <2>1. ASSUME NEW k \in 1 .. Len(stack)
        PROVE  /\ Waiting(stack[k].seg)' = Waiting(stack[k].seg)
               /\ \A b \in Waiting(stack[k].seg) : cfg'[b] = cfg[b]
               /\ BusOf(stack[k].seg)' = BusOf(stack[k].seg)
    <3>1. stack[k].seg \in Nat /\ seg \in Nat
      BY Frame
    <3>2. stack[k].seg < seg
      BY <1>1 DEF StackInv
    <3>3. f \notin Waiting(stack[k].seg)
      BY <1>3, <3>1, <3>2 DEF Waiting, Children
    <3>4. \A b \in Waiting(stack[k].seg) : cfg'[b] = cfg[b]
      BY <1>4, <3>3 DEF Waiting, Children
    <3>5. Waiting(stack[k].seg)' = Waiting(stack[k].seg)
      BY <1>1, <1>6, SameMachine DEF Waiting
    <3>6. HasBus(stack[k].seg)
      BY DEF StackInv
    <3>7. BusOf(stack[k].seg)' = BusOf(stack[k].seg)
      BY <1>1, <1>7, <3>6 DEF BusOf, HasBus
    <3>8. QED
      BY <3>4, <3>5, <3>7
  <2>2. \A k \in 1 .. Len(stack) :
          List(Waiting(stack[k].seg), stack[k].next_head,
               IF Inside(k) THEN stack[k].i - 1 ELSE stack[k].i, stack[k].seg)'
    <3> SUFFICES ASSUME NEW k \in 1 .. Len(stack)
                 PROVE  List(Waiting(stack[k].seg), stack[k].next_head,
                             IF Inside(k) THEN stack[k].i - 1 ELSE stack[k].i, stack[k].seg)'
      BY <1>1
    <3>1. List(Waiting(stack[k].seg), stack[k].next_head,
               IF Inside(k) THEN stack[k].i - 1 ELSE stack[k].i, stack[k].seg)
      BY DEF ListInv
    <3>2. QED
      BY <1>1, <2>1, <3>1 DEF List, Inside
  <2>3. List(Found, bridge_head, bridge_count, seg)
    BY <1>1 DEF ListInv
  <2>4. Found \subseteq Bridges /\ IsFiniteSet(Found) /\ f \notin Found
    BY <1>3, FS_Subset DEF Found, Children, TypeInv
  <2>5. \A b \in Found : /\ cfg'[b] = cfg[b] /\ topo.devfn[b] < topo.devfn[f]
                         /\ b \in Funcs /\ topo.devfn[b] \in Nat
    <3>1. pos \in Nat
      BY Sizes DEF TypeInv
    <3>2. QED
      BY <1>3, <1>4, <2>4, <3>1 DEF Found
  <2>6. BusOf(seg)' = BusOf(seg) /\ bus = BusOf(seg)
    BY <1>1, <1>7 DEF NumberInv
  <2>7. Found' = IF f \in Bridges THEN Found \cup {f} ELSE Found
    <3>1. pos \in Nat
      BY Sizes DEF TypeInv
    <3>2. Found' = {b \in Children(seg) : topo.devfn[b] < topo.devfn[f] + 1}
      BY <1>1, <1>2, SameMachine DEF Found
    <3>3. ASSUME NEW b \in Children(seg), topo.devfn[b] < topo.devfn[f] + 1, b # f
          PROVE  topo.devfn[b] < pos
      <4>1. b \in Funcs /\ topo.parent[b] = seg
        BY DEF Children
      <4>2. topo.devfn[b] # topo.devfn[f]
        BY <1>3, <3>3, <4>1
      <4>3. b \notin ToScan
        BY <1>2, <1>3, <3>3, <4>1, <4>2
      <4>4. QED
        BY <4>1, <4>3, <3>1 DEF ToScan
    <3>4. \A b \in Found : topo.devfn[b] < topo.devfn[f] + 1
      BY <1>3, <2>5
    <3>5. f \in Bridges <=> f \in Children(seg)
      BY <1>3 DEF Children
    <3>6. QED
      BY <1>3, <3>2, <3>3, <3>4, <3>5 DEF Found
  <2>8. List(Found, bridge_head, bridge_count, seg)'
    <3>1. CASE f \notin Bridges
      BY <1>1, <1>2, <2>3, <2>5, <2>6, <2>7, <3>1 DEF List
    <3>2. CASE f \in Bridges
      <4>1. /\ cfg'[f].primary = bus /\ cfg'[f].secondary = bridge_head
            /\ bridge_head' = topo.devfn[f] /\ bridge_count' = bridge_count + 1
            /\ Found' = Found \cup {f}
        BY <1>2, <1>3, <1>4, <2>7, <3>2, ConfiguredFields
      <4>2. bridge_count' = Cardinality(Found')
        BY <2>3, <2>4, <4>1, FS_AddElement DEF List
      <4>3. \A b \in Found' : /\ topo.devfn[b] <= topo.devfn[f]
                              /\ cfg'[b].primary = BusOf(seg)
        BY <1>3, <2>3, <2>5, <2>6, <4>1 DEF List
      <4>4. f \in Found'
        BY <4>1
      <4>5. ASSUME NEW b \in Found', NEW c \in Found', topo.devfn[c] < topo.devfn[b]
            PROVE  /\ topo.devfn[c] <= cfg'[b].secondary
                   /\ \E e \in Found' : /\ topo.devfn[e] = cfg'[b].secondary
                                         /\ topo.devfn[e] < topo.devfn[b]
        <5>1. c \in Found
          BY <1>3, <2>5, <4>1, <4>5
        <5>2. CASE b = f
          BY <2>3, <2>5, <4>1, <5>1, <5>2 DEF List
        <5>3. CASE b # f
          BY <2>3, <2>5, <4>1, <4>5, <5>1, <5>3 DEF List
        <5>4. QED
          BY <5>2, <5>3
      <4>6. QED
        BY <1>1, <2>6, <4>1, <4>2, <4>3, <4>4, <4>5 DEF List
    <3>3. QED
      BY <3>1, <3>2
  <2>9. Children(seg) \cap Entered = {}
    BY <1>1 DEF ListInv
  <2>10. QED
    BY <1>1, <1>6, <2>2, <2>8, <2>9, SameMachine DEF ListInv
<1>13. CompleteInv'
  BY <1>1, <1>6, <1>7 DEF CompleteInv
<1>14. WindowInv'
  <2>1. \A b \in Entered : EndOf(b)' = EndOf(b)
    BY <1>1, <1>7, SameMachine DEF EndOf
  <2>2. \A b \in Entered : HasBus(topo.parent[b])
    BY ParentHasBus
  <2>3. QED
    BY <1>1, <1>6, <1>7, <2>1, <2>2, SameMachine DEF WindowInv
<1>15. LineInv'
  <2>1. pos \in Nat
    BY Sizes DEF TypeInv
  <2>2. \A g \in Funcs : g # f => (Visited(g)' <=> Visited(g))
    <3> SUFFICES ASSUME NEW g \in Funcs, g # f
                 PROVE  Visited(g)' <=> Visited(g)
      OBVIOUS
    <3>1. topo.parent[g] = seg => (topo.devfn[g] < topo.devfn[f] + 1 <=> topo.devfn[g] < pos)
      <4>1. topo.parent[g] = seg /\ topo.devfn[g] >= pos => topo.devfn[f] <= topo.devfn[g]
        BY <1>2 DEF ToScan
      <4>2. topo.parent[g] = seg => topo.devfn[g] # topo.devfn[f]
        BY <1>3
      <4>3. QED
        BY <1>3, <2>1, <4>1, <4>2
    <3>2. QED
      BY <1>1, <1>2, <1>7, <3>1 DEF Visited
  <2>3. ~Visited(f) /\ cfg[f].line = topo.line[f]
    BY <1>1, <1>3, <2>1 DEF Visited, LineInv
  <2>4. Visited(f)'
    BY <1>1, <1>2, <1>3, <1>7, <2>1 DEF Visited, NumberInv
  <2>5. addend = PathSum[seg]
    BY DEF LineInv
  <2>6. cfg'[f].line = Expected(f)
    BY <1>3, <1>4, <2>3, <2>5, ConfiguredFields DEF Expected
  <2>7. \A g \in Funcs : cfg'[g].line = IF Visited(g)' THEN Expected(g) ELSE topo.line[g]
    <3> SUFFICES ASSUME NEW g \in Funcs
                 PROVE  cfg'[g].line = IF Visited(g)' THEN Expected(g) ELSE topo.line[g]
      OBVIOUS
    <3>1. CASE g = f
      BY <2>4, <2>6, <3>1
    <3>2. CASE g # f
      BY <1>4, <2>2, <3>2 DEF LineInv
    <3>3. QED
      BY <3>1, <3>2
  <2>8. QED
    BY <1>1, <2>5, <2>7, SameMachine DEF LineInv
<1>16. QED
  BY <1>8, <1>9, <1>10, <1>11, <1>12, <1>13, <1>14, <1>15 DEF BusIInv

\* At reset no bridge has a bus number.
LEMMA InitKeeps ==
  ASSUME Init
  PROVE  BusIInv
<1> USE DEF Init
<1>1. TypeInv
  <2>1. \A f \in Funcs : topo.line[f] \in Nat
    BY TopologyAssumption DEF IsTopology
  <2>2. 0 \in BusRange /\ 0 \in Segments /\ 0 \in 0 .. NBus
    BY Sizes DEF BusRange, Segments
  <2>3. cfg \in [Funcs -> Registers]
    BY <2>1, <2>2 DEF ResetConfig, Registers
  <2>4. QED
    BY <2>2, <2>3 DEF TypeInv
<1> USE Hardware
<1>2. \A f \in Funcs : cfg[f].subordinate = 0 /\ cfg[f].line = topo.line[f]
  BY DEF ResetConfig
<1>3. Entered = {}
  BY <1>1, <1>2 DEF Entered
<1>4. StackInv
  BY DEF StackInv
<1>5. NumberInv
  BY <1>3, FS_EmptySet DEF NumberInv, HasBus
<1>6. RouteInv
  BY <1>1, <1>3, Tree DEF RouteInv
<1>7. ListInv
  BY <1>3 DEF ListInv
<1>8. CompleteInv
  BY DEF CompleteInv
<1>9. WindowInv
  BY <1>3 DEF WindowInv
<1>10. LineInv
  BY <1>1, <1>2, Sums DEF LineInv, Visited
<1>11. QED
  BY <1>1, <1>4, <1>5, <1>6, <1>7, <1>8, <1>9, <1>10 DEF BusIInv

\* Steps that do not touch a register keep what is said of registers alone.
LEMMA RegistersKept ==
  ASSUME BusIInv, UNCHANGED <<topo, cfg, bus, max_bus, addend, seg>>, pc' # "start"
  PROVE  /\ Entered' = Entered /\ \A s : Waiting(s)' = Waiting(s)
         /\ \A s : (HasBus(s)' <=> HasBus(s)) /\ BusOf(s)' = BusOf(s)
         /\ \A W, head, n, s : List(W, head, n, s)' <=> List(W, head, n, s)
         /\ RouteInv' /\ WindowInv'
         /\ (pc' = "scan" => bus = BusOf(seg)) => NumberInv'
         /\ (\A f \in Funcs : Visited(f)' <=> Visited(f)) => LineInv'
<1> RouteInv /\ WindowInv /\ NumberInv /\ LineInv
  BY DEF BusIInv
<1>1. Entered' = Entered
  BY DEF Entered
<1>2. \A s : Waiting(s)' = Waiting(s)
  BY <1>1, SameMachine DEF Waiting
<1>3. \A s : (HasBus(s)' <=> HasBus(s)) /\ BusOf(s)' = BusOf(s)
  BY <1>1 DEF HasBus, BusOf
<1>4. \A W, head, n, s : List(W, head, n, s)' <=> List(W, head, n, s)
  BY <1>3 DEF List
<1>5. RouteInv'
  BY <1>1, SameMachine DEF RouteInv
<1>6. WindowInv'
  <2>1. \A b : EndOf(b)' = EndOf(b)
    BY SameMachine DEF EndOf
  <2>2. QED
    BY <1>1, <1>3, <2>1, SameMachine DEF WindowInv
<1>7. (pc' = "scan" => bus = BusOf(seg)) => NumberInv'
  BY <1>1, <1>3 DEF NumberInv
<1>8. (\A f \in Funcs : Visited(f)' <=> Visited(f)) => LineInv'
  BY SameMachine DEF LineInv
<1>9. QED
  BY <1>1, <1>2, <1>3, <1>4, <1>5, <1>6, <1>7, <1>8

\* The scan of bus 0 starts, or setup_pci panics.
LEMMA StartKeeps ==
  ASSUME BusIInv, setup_pci
  PROVE  BusIInv'
<1> USE Hardware
<1> TypeInv /\ StackInv /\ NumberInv /\ RouteInv /\ ListInv /\ CompleteInv /\ WindowInv /\ LineInv
  BY DEF BusIInv
<1>1. /\ pc = "start" /\ pc' \in {"scan", "panic"} /\ stack = <<>> /\ seg = 0 /\ Entered = {}
      /\ UNCHANGED <<topo, cfg, addend, bus, max_bus, stack, seg>>
  BY DEF setup_pci, EnterBus, StackInv, ListInv
<1>2. /\ pc' = "scan" => bridge_head' = NBus - 1 /\ bridge_count' = 0 /\ pos' = 0
      /\ pc' = "panic" => UNCHANGED <<bridge_head, bridge_count, pos>>
  BY DEF setup_pci, EnterBus
<1>3. TypeInv'
  BY <1>1, <1>2, Sizes DEF TypeInv, BusRange
<1>4. StackInv'
  BY <1>1 DEF StackInv
<1>5. bus = BusOf(seg)
  BY <1>1 DEF NumberInv, BusOf
<1>6. \A f \in Funcs : ~Visited(f) /\ ~Visited(f)'
  <2>1. \A f \in Funcs : ~Visited(f)
    BY <1>1 DEF Visited
  <2>2. \A f \in Funcs : HasBus(topo.parent[f])' => topo.parent[f] = 0
    BY <1>1, RegistersKept DEF HasBus
  <2>3. pc' = "scan" => \A f \in Funcs : ~(topo.devfn[f] < pos')
    BY <1>2
  <2>4. QED
    BY <1>1, <2>1, <2>2, <2>3 DEF Visited
<1>7. NumberInv' /\ RouteInv' /\ WindowInv' /\ LineInv'
  BY <1>1, <1>5, <1>6, RegistersKept
<1>8. ListInv'
  <2>1. pc' = "scan" => Found' = {}
    BY <1>1, <1>2, SameMachine DEF Found, Children
  <2>2. pc' = "scan" => List(Found, bridge_head, bridge_count, seg)'
    BY <1>2, <2>1, FS_EmptySet DEF List
  <2>3. Entered' = {}
    BY <1>1, RegistersKept
  <2>4. QED
    BY <1>1, <2>2, <2>3 DEF ListInv
<1>9. CompleteInv'
  <2>1. \A b \in Bridges : HasBus(topo.parent[b])' => topo.parent[b] = 0
    BY <1>1, RegistersKept DEF HasBus
  <2>2. QED
    BY <1>1, <2>1 DEF CompleteInv
<1>10. QED
  BY <1>3, <1>4, <1>7, <1>8, <1>9 DEF BusIInv

\* The outermost call returns: no bridge of the root bus waits.
LEMMA EndKeeps ==
  ASSUME BusIInv, setup_bios32
  PROVE  BusIInv'
<1> USE Hardware
<1> TypeInv /\ StackInv /\ NumberInv /\ RouteInv /\ ListInv /\ CompleteInv /\ WindowInv /\ LineInv
  BY DEF BusIInv
<1>1. /\ pc = "loop" /\ pc' = "done" /\ Len(stack) = 1 /\ stack[1].i = 0
      /\ UNCHANGED <<topo, cfg, addend, bus, bridge_head, bridge_count, max_bus, pos, seg>>
      /\ stack' = <<>>
  BY DEF setup_bios32, Last
<1>2. seg = 0 /\ stack[1].seg = 0
  BY <1>1 DEF StackInv
<1>3. TypeInv'
  BY <1>1 DEF TypeInv
<1>4. StackInv'
  BY <1>1, <1>2 DEF StackInv
<1>5. \A f \in Funcs : Visited(f)' <=> Visited(f)
  BY <1>1, RegistersKept DEF Visited
<1>6. NumberInv' /\ RouteInv' /\ WindowInv' /\ LineInv'
  BY <1>1, <1>5, RegistersKept
<1>7. ListInv'
  BY <1>1 DEF ListInv
<1>8. Waiting(0) = {}
  <2>1. List(Waiting(0), stack[1].next_head, 0, 0)
    BY <1>1, <1>2 DEF ListInv, Inside
  <2>2. IsFiniteSet(Waiting(0))
    BY FS_Subset DEF Waiting, Children
  <2>3. QED
    BY <2>1, <2>2, FS_EmptySet DEF List
<1>9. CompleteInv'
  <2>1. \A b \in Bridges : HasBus(topo.parent[b]) => b \in Entered
    BY <1>1, <1>2, <1>8 DEF CompleteInv, Waiting, Children
  <2>2. QED
    BY <1>1, <2>1, RegistersKept DEF CompleteInv
<1>10. QED
  BY <1>3, <1>4, <1>6, <1>7, <1>9 DEF BusIInv

\* Nothing changes.
LEMMA StutterKeeps ==
  ASSUME BusIInv, UNCHANGED vars
  PROVE  BusIInv'
<1> TypeInv /\ StackInv /\ NumberInv /\ RouteInv /\ ListInv /\ CompleteInv /\ WindowInv /\ LineInv
  BY DEF BusIInv
<1>1. UNCHANGED <<topo, cfg, addend, bus, bridge_head, bridge_count, max_bus, bios32, pc, pos,
                  stack, seg>>
  BY DEF vars
<1>2. Entered' = Entered
  BY <1>1 DEF Entered
<1>3. \A s : (HasBus(s)' <=> HasBus(s)) /\ BusOf(s)' = BusOf(s)
  BY <1>1, <1>2 DEF HasBus, BusOf
<1>4. Found' = Found /\ \A s : Waiting(s)' = Waiting(s)
  BY <1>1, <1>2, SameMachine DEF Found, Waiting
<1>5. TypeInv' /\ StackInv'
  BY <1>1, <1>3 DEF TypeInv, StackInv, Inside, Child
<1>6. NumberInv' /\ RouteInv'
  BY <1>1, <1>2, <1>3, SameMachine DEF NumberInv, RouteInv
<1>7. ListInv' /\ CompleteInv'
  <2>1. ListInv'
    <3>1. \A k : Inside(k)' <=> Inside(k)
      BY <1>1 DEF Inside
    <3>2. List(Found, bridge_head, bridge_count, seg)' <=>
          List(Found, bridge_head, bridge_count, seg)
      BY <1>1, <1>3, <1>4 DEF List
    <3>3. \A k \in 1 .. Len(stack) :
            List(Waiting(stack[k].seg), stack[k].next_head,
                 IF Inside(k) THEN stack[k].i - 1 ELSE stack[k].i, stack[k].seg)'
      BY <1>1, <1>3, <1>4, <3>1 DEF ListInv, List
    <3>4. (Children(seg) \cap Entered)' = Children(seg) \cap Entered
      BY <1>1, <1>2, SameMachine
    <3>5. QED
      BY <1>1, <1>2, <3>2, <3>3, <3>4 DEF ListInv
  <2>2. CompleteInv'
    BY <1>1, <1>2, <1>3 DEF CompleteInv
  <2>3. QED
    BY <2>1, <2>2
<1>8. WindowInv'
  BY <1>1, <1>2, <1>3, SameMachine DEF WindowInv, EndOf
<1>9. LineInv'
  BY <1>1, <1>3, SameMachine DEF LineInv, Visited
<1>10. QED
  BY <1>5, <1>6, <1>7, <1>8, <1>9 DEF BusIInv

\* The scan of a bus is over: every bridge of it is in the list, and waits.
LEMMA EndScanKeeps ==
  ASSUME BusIInv, EndScan
  PROVE  BusIInv'
<1> USE Hardware
<1> TypeInv /\ StackInv /\ NumberInv /\ RouteInv /\ ListInv /\ CompleteInv /\ WindowInv /\ LineInv
  BY DEF BusIInv
<1> DEFINE n == Len(stack)
           fr == [save_bus |-> bus, next_head |-> bridge_head, i |-> bridge_count,
                  at |-> bridge_head, seg |-> seg]
<1>1. /\ pc = "scan" /\ pc' = "loop" /\ ToVisit = {}
      /\ UNCHANGED <<topo, cfg, addend, bus, bridge_head, bridge_count, max_bus, pos, seg>>
      /\ stack' = Append(stack, fr)
  BY DEF EndScan
<1>2. fr \in Frames /\ stack \in Seq(Frames) /\ n \in Nat
  BY DEF TypeInv, Frames
<1>3. /\ Len(stack') = n + 1 /\ stack' \in Seq(Frames) /\ stack'[n + 1] = fr
      /\ fr.seg = seg /\ fr.save_bus = bus /\ fr.i = bridge_count /\ fr.next_head = bridge_head
      /\ \A k \in 1 .. n : stack'[k] = stack[k]
  <2>1. fr.seg = seg /\ fr.save_bus = bus /\ fr.i = bridge_count /\ fr.next_head = bridge_head
    OBVIOUS
  <2> HIDE DEF fr
  <2>2. QED
    BY <1>1, <1>2, <2>1
<1> HIDE DEF fr
<1>4. HasBus(seg) /\ bus = BusOf(seg)
  BY <1>1 DEF NumberInv
<1>5. TypeInv'
  BY <1>1, <1>3 DEF TypeInv
<1>6. \A s : (HasBus(s)' <=> HasBus(s)) /\ BusOf(s)' = BusOf(s)
  BY <1>1, RegistersKept
<1>7. \A k \in 1 .. n : Inside(k) /\ Inside(k)' /\ Child(k)' = Child(k)
  <2> SUFFICES ASSUME NEW k \in 1 .. n
               PROVE  Inside(k) /\ Inside(k)' /\ Child(k)' = Child(k)
    OBVIOUS
  <2>1. Inside(k) /\ Inside(k)'
    BY <1>1, <1>2, <1>3 DEF Inside
  <2>2. Child(k)' = stack'[k + 1].seg
    BY <1>2, <1>3 DEF Child
  <2>3. CASE k = n
    BY <1>2, <1>3, <2>1, <2>2, <2>3 DEF Child
  <2>4. CASE k < n
    <3>1. k + 1 \in 1 .. n
      BY <1>2, <2>4
    <3>2. QED
      BY <1>2, <1>3, <2>1, <2>2, <2>4, <3>1 DEF Child
  <2>5. QED
    BY <1>2, <2>3, <2>4
<1>8. \A k : k = n + 1 => ~Inside(k)'
  BY <1>1, <1>2, <1>3 DEF Inside
<1>9. StackInv'
  <2>1. stack' # <<>> /\ stack'[Len(stack')].seg = seg'
    BY <1>1, <1>2, <1>3
  <2>2. stack'[1].seg = 0
    BY <1>2, <1>3 DEF StackInv
  <2>3. ASSUME NEW k \in 1 .. n + 1
        PROVE  /\ HasBus(stack[k].seg)' /\ (stack[k].save_bus = BusOf(stack[k].seg))'
               /\ \A j \in 1 .. k - 1 : stack'[j].seg < stack'[k].seg
               /\ Inside(k)' =>
                    /\ Child(k)' \in Bridges /\ stack'[k].seg < Child(k)'
                    /\ topo.parent[Child(k)'] = stack'[k].seg
                    /\ topo.devfn[Child(k)'] = stack'[k].at
    <3>1. CASE k = n + 1
      <4>1. stack'[k] = fr /\ ~Inside(k)'
        BY <1>3, <1>8, <3>1
      <4>2. HasBus(stack[k].seg)' /\ (stack[k].save_bus = BusOf(stack[k].seg))'
        BY <1>3, <1>4, <1>6, <4>1
      <4>3. \A j \in 1 .. k - 1 : j \in 1 .. n /\ stack'[j] = stack[j] /\ stack[j].seg < seg
        BY <1>1, <1>2, <1>3, <3>1 DEF StackInv
      <4>4. QED
        BY <1>3, <4>1, <4>2, <4>3
    <3>2. CASE k \in 1 .. n
      <4>1. /\ HasBus(stack[k].seg) /\ stack[k].save_bus = BusOf(stack[k].seg)
            /\ \A j \in 1 .. k - 1 : stack[j].seg < stack[k].seg
            /\ Child(k) \in Bridges /\ stack[k].seg < Child(k)
            /\ topo.parent[Child(k)] = stack[k].seg
            /\ topo.devfn[Child(k)] = stack[k].at
        BY <1>7, <3>2 DEF StackInv
      <4>2. \A j \in 1 .. k - 1 : j \in 1 .. n
        BY <1>2, <3>2
      <4>3. QED
        BY <1>3, <1>6, <1>7, <3>2, <4>1, <4>2
    <3>3. QED
      BY <1>2, <3>1, <3>2
  <2>4. pc' = "loop" /\ topo' = topo /\ seg' = seg
    BY <1>1
  <2>5. QED
    BY <1>3, <2>1, <2>2, <2>3, <2>4 DEF StackInv
<1>10. \A f \in Funcs : topo.parent[f] = seg => topo.devfn[f] < pos
  <2>1. ToScan = {}
    <3>1. {topo.devfn[f] : f \in ToScan} = {}
      BY <1>1, ScanFinds
    <3>2. \A f \in ToScan : topo.devfn[f] \in {topo.devfn[g] : g \in ToScan}
      OBVIOUS
    <3>3. QED
      BY <3>1, <3>2, Zenon
  <2>2. pos \in Nat
    BY Sizes DEF TypeInv
  <2>3. QED
    BY <2>1, <2>2 DEF ToScan
<1>11. \A f \in Funcs : Visited(f)' <=> Visited(f)
  BY <1>1, <1>6, <1>10 DEF Visited
<1>12. NumberInv' /\ RouteInv' /\ WindowInv' /\ LineInv'
  BY <1>1, <1>11, RegistersKept
<1>13. ListInv'
  <2>1. Waiting(seg) = Found
    BY <1>1, <1>10 DEF ListInv, Waiting, Found, Children
  <2>2. List(Waiting(seg), bridge_head, bridge_count, seg)
    BY <1>1, <2>1 DEF ListInv
  <2>3. ASSUME NEW k \in 1 .. n + 1
        PROVE  List(Waiting(stack[k].seg), stack[k].next_head,
                    IF Inside(k) THEN stack[k].i - 1 ELSE stack[k].i, stack[k].seg)'
    <3>1. CASE k = n + 1
      <4>1. /\ stack'[k].seg = seg /\ stack'[k].next_head = bridge_head
            /\ stack'[k].i = bridge_count
        BY <1>3, <3>1
      <4>2. ~Inside(k)'
        BY <1>8, <3>1
      <4>3. Waiting(seg)' = Waiting(seg)
        BY <1>1, RegistersKept
      <4>4. QED
        BY <1>1, <1>6, <2>2, <4>1, <4>2, <4>3 DEF List
    <3>2. CASE k \in 1 .. n
      <4>1. List(Waiting(stack[k].seg), stack[k].next_head, stack[k].i - 1, stack[k].seg)
        BY <1>7, <3>2 DEF ListInv
      <4>2. \A s : Waiting(s)' = Waiting(s)
        BY <1>1, RegistersKept
      <4>3. stack'[k] = stack[k]
        BY <1>3, <3>2
      <4>4. Inside(k)'
        BY <1>7, <3>2
      <4>5. QED
        BY <1>1, <1>6, <4>1, <4>2, <4>3, <4>4 DEF List
    <3>3. QED
      BY <1>2, <3>1, <3>2
  <2>4. QED
    BY <1>1, <1>3, <2>3 DEF ListInv
<1>14. CompleteInv'
  <2>1. Entered' = Entered
    BY <1>1, RegistersKept
  <2>2. ASSUME NEW b \in Bridges, HasBus(topo.parent[b]), b \notin Entered
        PROVE  \E k \in 1 .. n + 1 : stack'[k].seg = topo.parent[b]
    <3>1. \/ topo.parent[b] = seg
          \/ \E k \in 1 .. n : stack[k].seg = topo.parent[b]
      BY <1>1, <2>2 DEF CompleteInv
    <3>2. stack'[n + 1].seg = seg /\ n + 1 \in 1 .. n + 1 /\ 1 .. n \subseteq 1 .. n + 1
      BY <1>2, <1>3
    <3>3. QED
      BY <1>3, <3>1, <3>2
  <2>3. QED
    BY <1>1, <1>3, <1>6, <2>1, <2>2 DEF CompleteInv
<1>15. QED
  BY <1>5, <1>9, <1>12, <1>13, <1>14 DEF BusIInv

\* A number below the modulus stays.
LEMMA SmallModulo ==
  ASSUME NEW m \in Nat, NEW n \in Nat, m < n
  PROVE  m % n = m
OBVIOUS

\* The bridges of a segment that wait are a finite set; with none left the list
\* is empty.
LEMMA ListEmpty ==
  ASSUME TypeInv, NEW s, NEW head, NEW n, List(Waiting(s), head, n, s)
  PROVE  IsFiniteSet(Waiting(s)) /\ n \in Nat /\ (n = 0 <=> Waiting(s) = {})
<1>1. IsFiniteSet(Waiting(s))
  BY Hardware, FS_Subset DEF Waiting, Children
<1>2. QED
  BY <1>1, FS_EmptySet, FS_CardinalityType DEF List

\* The bridge the loop turns to is the one it means, and there is a number for it.
LEMMA EnterTarget ==
  ASSUME BusIInv, EnterBridge
  PROVE  LET n == Len(stack)
             fr == stack[n]
         IN  \E b \in Waiting(seg) :
               /\ n \in Nat /\ n > 0 /\ fr.seg = seg /\ topo.devfn[b] = fr.next_head
               /\ max_bus' = max_bus + 1 /\ bus' = max_bus' /\ max_bus' \in BusRange
               /\ stack' = [stack EXCEPT ![n].next_head = cfg[b].secondary,
                                         ![n].at = fr.next_head]
               /\ cfg' = [cfg EXCEPT ![b].secondary = max_bus', ![b].subordinate = NBus - 1]
               /\ seg' = b /\ addend' = addend + Dev(topo.devfn[b])
<1> USE Hardware
<1> TypeInv /\ StackInv /\ NumberInv /\ RouteInv /\ ListInv
  BY DEF BusIInv
<1> DEFINE n == Len(stack)
           fr == stack[n]
<1>1. /\ pc = "loop" /\ fr.i > 0 /\ Last(stack) = fr
      /\ max_bus' = (max_bus + 1) % NBus /\ bus' = max_bus'
      /\ seg' = Target(fr) /\ addend' = addend + Dev(fr.next_head)
  BY DEF EnterBridge, Last
<1>2. PICK f \in Responders(fr.save_bus, fr.next_head) :
        /\ stack' = [stack EXCEPT ![n].next_head = cfg[f].secondary, ![n].at = fr.next_head]
        /\ cfg' = [cfg EXCEPT ![f].secondary = max_bus', ![f].subordinate = NBus - 1]
  BY DEF EnterBridge, Last, SubordinateOpen
<1>3. n \in Nat /\ n > 0 /\ n \in 1 .. n
  <2>1. stack # <<>> /\ stack \in Seq(Frames)
    BY <1>1 DEF StackInv, TypeInv
  <2>2. QED
    BY <2>1
<1>4. fr.seg = seg /\ HasBus(seg) /\ fr.save_bus = BusOf(seg) /\ seg \in Segments
  BY <1>1, <1>3, Frame DEF StackInv
<1>5. List(Waiting(seg), fr.next_head, fr.i, seg)
  BY <1>1, <1>3, <1>4 DEF ListInv, Inside
<1>6. PICK b \in Waiting(seg) : topo.devfn[b] = fr.next_head
  <2>1. fr.i # 0
    BY <1>1
  <2>2. Waiting(seg) # {}
    BY <1>5, <2>1, ListEmpty
  <2>3. QED
    BY <1>5, <2>2 DEF List
<1>7. b \in Bridges /\ topo.parent[b] = seg /\ b \notin Entered /\ b \in Funcs
  BY <1>6 DEF Waiting, Children
<1>8. f = b
  <2>1. f \in Funcs /\ topo.parent[f] = seg /\ topo.devfn[f] = fr.next_head
    BY <1>2, <1>4, Answers
  <2>2. QED
    BY <2>1, <1>6, <1>7
<1>9. Target(fr) = b
  <2>1. \A c \in Bridges : topo.parent[c] = fr.seg /\ topo.devfn[c] = fr.next_head <=> c = b
    BY <1>4, <1>6, <1>7
  <2>2. QED
    BY <1>7, <2>1 DEF Target
<1>10. max_bus' = max_bus + 1 /\ max_bus' \in BusRange
  <2>1. Entered \subseteq Bridges /\ Entered \cup {b} \subseteq Bridges
    BY <1>7 DEF Entered
  <2>2. IsFiniteSet(Entered) /\ IsFiniteSet(Entered \cup {b})
    BY <2>1, FS_Subset
  <2>3. Cardinality(Entered \cup {b}) = max_bus + 1
    BY <1>7, <2>2, FS_AddElement DEF NumberInv
  <2>4. max_bus + 1 <= NBridge
    BY <2>1, <2>3, FS_Subset
  <2>5. max_bus \in Nat /\ max_bus + 1 < NBus
    BY <2>4, Sizes DEF TypeInv, BusRange
  <2>6. (max_bus + 1) % NBus = max_bus + 1
    <3>1. max_bus + 1 \in Nat /\ NBus \in Nat /\ max_bus + 1 < NBus
      BY <2>5, Sizes
    <3>2. QED
      BY <3>1, SmallModulo, Zenon
  <2>7. QED
    BY <1>1, <2>5, <2>6, Sizes DEF BusRange
<1>11. QED
  BY <1>1, <1>2, <1>3, <1>4, <1>6, <1>8, <1>9, <1>10

\* A bridge gets the next number and leaves the list; all bridges in front of it
\* forward that number already.
LEMMA EnterKeeps ==
  ASSUME BusIInv, EnterBridge
  PROVE  BusIInv'
<1> USE Hardware
<1> TypeInv /\ StackInv /\ NumberInv /\ RouteInv /\ ListInv /\ CompleteInv /\ WindowInv /\ LineInv
  BY DEF BusIInv
<1> DEFINE n == Len(stack)
           fr == stack[n]
<1>1. PICK b \in Waiting(seg) :
        /\ n \in Nat /\ n > 0 /\ fr.seg = seg /\ topo.devfn[b] = fr.next_head
        /\ max_bus' = max_bus + 1 /\ bus' = max_bus' /\ max_bus' \in BusRange
        /\ stack' = [stack EXCEPT ![n].next_head = cfg[b].secondary,
                                  ![n].at = fr.next_head]
        /\ cfg' = [cfg EXCEPT ![b].secondary = max_bus', ![b].subordinate = NBus - 1]
        /\ seg' = b /\ addend' = addend + Dev(topo.devfn[b])
  BY EnterTarget
<1>2. /\ pc = "loop" /\ pc' = "scan" /\ topo' = topo
      /\ bridge_head' = NBus - 1 /\ bridge_count' = 0 /\ pos' = 0
  BY DEF EnterBridge, EnterBus
<1>3. /\ b \in Bridges /\ b \in Funcs /\ topo.parent[b] = seg /\ b \notin Entered
      /\ b \in Nat \ {0} /\ seg < b /\ seg \in Nat /\ seg \in Segments
      /\ Path[b] = Path[seg] \cup {b}
  BY Parents, Tree, Frame DEF Waiting, Children
<1>4. /\ \A f \in Funcs : f # b => cfg'[f] = cfg[f]
      /\ cfg'[b] = [cfg[b] EXCEPT !.secondary = max_bus', !.subordinate = NBus - 1]
      /\ cfg[b] \in Registers
  BY <1>1, <1>3 DEF TypeInv
<1>5. /\ cfg'[b].secondary = max_bus' /\ cfg'[b].subordinate = NBus - 1
      /\ cfg'[b].primary = cfg[b].primary /\ cfg'[b].line = cfg[b].line
      /\ cfg'[b] \in Registers
  <2>1. max_bus' \in BusRange /\ NBus - 1 \in BusRange
    BY <1>1, Sizes DEF BusRange
  <2>2. QED
    BY <1>4, <2>1 DEF Registers
<1>6. NBus - 1 # 0 /\ max_bus \in Nat /\ max_bus + 1 <= NBus - 1
  BY <1>1, Sizes DEF BusRange, TypeInv
<1>7. Entered' = Entered \cup {b}
  <2>1. \A c \in Bridges : cfg'[c].subordinate # 0 <=> cfg[c].subordinate # 0 \/ c = b
    BY <1>3, <1>4, <1>5, <1>6
  <2>2. QED
    BY <1>3, <2>1 DEF Entered
<1>8. /\ \A c \in Entered : cfg'[c] = cfg[c] /\ c \in Bridges /\ c # b
      /\ \A s : HasBus(s)' <=> HasBus(s) \/ s = b
      /\ \A s : HasBus(s) => BusOf(s)' = BusOf(s)
      /\ BusOf(b)' = max_bus'
  <2>1. \A c \in Entered : cfg'[c] = cfg[c] /\ c \in Bridges /\ c # b
    BY <1>3, <1>4 DEF Entered
  <2>2. QED
    BY <2>1, <1>3, <1>5, <1>7 DEF HasBus, BusOf
<1>9. /\ Len(stack') = n /\ stack' \in Seq(Frames)
      /\ \A k \in 1 .. n : /\ stack'[k].seg = stack[k].seg
                           /\ stack'[k].save_bus = stack[k].save_bus
                           /\ stack'[k].i = stack[k].i
                           /\ k # n => stack'[k] = stack[k]
      /\ stack'[n].next_head = cfg[b].secondary /\ stack'[n].at = topo.devfn[b]
      /\ stack'[n].seg = seg
  <2>1. stack \in Seq(Frames) /\ n \in 1 .. Len(stack) /\ fr \in Frames
    BY <1>1 DEF TypeInv
  <2>2. cfg[b].secondary \in BusRange /\ fr.next_head \in BusRange
    BY <1>4, <2>1, Frame DEF Registers
  <2> DEFINE r == [fr EXCEPT !.next_head = cfg[b].secondary, !.at = fr.next_head]
  <2>3. stack' = [stack EXCEPT ![n] = r]
    BY <1>1, <2>1
  <2>4. /\ r \in Frames /\ r.seg = fr.seg /\ r.save_bus = fr.save_bus /\ r.i = fr.i
        /\ r.next_head = cfg[b].secondary /\ r.at = fr.next_head
    BY <2>1, <2>2 DEF Frames
  <2> HIDE DEF r
  <2>5. /\ Len(stack') = n /\ stack' \in Seq(Frames) /\ stack'[n] = r
        /\ \A k \in 1 .. n : k # n => stack'[k] = stack[k]
    BY <2>1, <2>3, <2>4
  <2>6. QED
    BY <1>1, <2>4, <2>5
<1>10. n \in 1 .. n /\ List(Waiting(seg), fr.next_head, fr.i, seg)
  BY <1>1, <1>2 DEF ListInv, Inside
<1>11. \A k \in 1 .. n : k < n => stack[k].seg < seg
  BY <1>1, <1>10 DEF StackInv
<1>12. TypeInv'
  <2>1. cfg' \in [Funcs -> Registers]
    BY <1>1, <1>3, <1>4, <1>5 DEF TypeInv
  <2>2. addend' \in Int
    <3>1. Dev(topo.devfn[b]) \in Int
      BY <1>3, Sizes DEF Dev
    <3>2. QED
      BY <1>1, <3>1 DEF TypeInv
  <2>3. bridge_head' \in BusRange /\ bridge_count' \in Nat /\ pos' \in 0 .. NBus
    BY <1>2, Sizes DEF BusRange
  <2>4. QED
    BY <1>1, <1>2, <1>3, <1>9, <2>1, <2>2, <2>3 DEF TypeInv
<1>13. \A k \in 1 .. n : /\ Inside(k)' /\ (k # n => Inside(k))
                         /\ Child(k)' = IF k = n THEN b ELSE Child(k)
  <2> SUFFICES ASSUME NEW k \in 1 .. n
               PROVE  /\ Inside(k)' /\ (k # n => Inside(k))
                      /\ Child(k)' = IF k = n THEN b ELSE Child(k)
    OBVIOUS
  <2>1. Inside(k)' /\ (k # n => Inside(k))
    BY <1>1, <1>2 DEF Inside
  <2>2. CASE k = n
    <3>1. Child(k)' = seg'
      <4>1. ~(k < Len(stack'))
        BY <1>1, <1>9, <2>2
      <4>2. QED
        BY <4>1 DEF Child
    <3>2. QED
      BY <1>1, <2>1, <2>2, <3>1
  <2>3. CASE k # n
    <3>1. k + 1 \in 1 .. n /\ k < n
      BY <1>1, <2>3
    <3>2. Child(k)' = stack'[k + 1].seg
      BY <1>9, <3>1 DEF Child
    <3>3. Child(k) = stack[k + 1].seg
      BY <3>1 DEF Child
    <3>4. QED
      BY <1>9, <2>1, <2>3, <3>1, <3>2, <3>3
  <2>4. QED
    BY <2>2, <2>3
<1>14. StackInv'
  <2>1. IF stack' = <<>> THEN seg' = 0 ELSE stack'[1].seg = 0
    <3>1. stack # <<>> /\ stack' # <<>> /\ 1 \in 1 .. n
      BY <1>1, <1>9
    <3>2. QED
      BY <1>9, <3>1 DEF StackInv
  <2>2. ASSUME NEW k \in 1 .. n
        PROVE  /\ HasBus(stack[k].seg)' /\ (stack[k].save_bus = BusOf(stack[k].seg))'
               /\ \A j \in 1 .. k - 1 : stack'[j].seg < stack'[k].seg
               /\ /\ Child(k)' \in Bridges /\ stack'[k].seg < Child(k)'
                  /\ topo.parent[Child(k)'] = stack'[k].seg
                  /\ topo.devfn[Child(k)'] = stack'[k].at
    <3>1. /\ HasBus(stack[k].seg) /\ stack[k].save_bus = BusOf(stack[k].seg)
          /\ \A j \in 1 .. k - 1 : stack[j].seg < stack[k].seg
          /\ k # n => /\ Child(k) \in Bridges /\ stack[k].seg < Child(k)
                      /\ topo.parent[Child(k)] = stack[k].seg
                      /\ topo.devfn[Child(k)] = stack[k].at
      BY <1>13 DEF StackInv
    <3>2. \A j \in 1 .. k - 1 : j \in 1 .. n
      BY <1>1
    <3>3. HasBus(stack[k].seg)' /\ (stack[k].save_bus = BusOf(stack[k].seg))'
      BY <1>8, <1>9, <3>1
    <3>4. \A j \in 1 .. k - 1 : stack'[j].seg < stack'[k].seg
      BY <1>9, <3>1, <3>2
    <3>5. CASE k = n
      BY <1>3, <1>9, <1>13, <3>3, <3>4, <3>5
    <3>6. CASE k # n
      BY <1>9, <1>13, <3>1, <3>3, <3>4, <3>6
    <3>7. QED
      BY <3>5, <3>6
  <2>3. \A k \in 1 .. n : stack'[k].seg < seg'
    <3>1. \A k \in 1 .. n : stack[k].seg <= seg /\ stack[k].seg \in Nat
      BY <1>1, <1>3, <1>11, Frame
    <3>2. QED
      BY <1>1, <1>3, <1>9, <3>1
  <2>4. QED
    BY <1>2, <1>9, <2>1, <2>2, <2>3 DEF StackInv
<1>15. NumberInv'
  <2>1. Cardinality(Entered') = max_bus'
    <3>1. IsFiniteSet(Entered)
      BY FS_Subset DEF Entered
    <3>2. QED
      BY <1>1, <1>3, <1>7, <3>1, FS_AddElement DEF NumberInv
  <2>2. \A c \in Entered : cfg'[c].secondary \in 1 .. max_bus /\ cfg'[c].secondary # max_bus'
    <3>1. \A c \in Entered : cfg'[c].secondary \in 1 .. max_bus
      BY <1>8 DEF NumberInv
    <3>2. \A m \in 1 .. max_bus : m # max_bus'
      BY <1>1, <1>6
    <3>3. QED
      BY <3>1, <3>2
  <2>3. \A c \in Entered' : cfg'[c].secondary \in 1 .. max_bus'
    <3>1. max_bus' \in 1 .. max_bus' /\ 1 .. max_bus \subseteq 1 .. max_bus'
      BY <1>1, <1>6
    <3>2. QED
      BY <1>5, <1>7, <2>2, <3>1
  <2>4. \A c, d \in Entered' : cfg'[c].secondary = cfg'[d].secondary => c = d
    BY <1>5, <1>7, <1>8, <2>2 DEF NumberInv
  <2>5. \A m \in 1 .. max_bus' : \E c \in Entered' : cfg'[c].secondary = m
    <3> SUFFICES ASSUME NEW m \in 1 .. max_bus'
                 PROVE  \E c \in Entered' : cfg'[c].secondary = m
      OBVIOUS
    <3>1. CASE m = max_bus'
      BY <1>5, <1>7, <3>1
    <3>2. CASE m # max_bus'
      <4>1. m \in 1 .. max_bus
        BY <1>1, <1>6, <3>2
      <4>2. PICK c \in Entered : cfg[c].secondary = m
        BY <4>1 DEF NumberInv
      <4>3. QED
        BY <1>7, <1>8, <4>2
    <3>3. QED
      BY <3>1, <3>2
  <2>6. HasBus(seg)' /\ bus' = BusOf(seg)'
    <3>1. HasBus(seg)' <=> seg' = 0 \/ seg' \in Entered'
      BY DEF HasBus
    <3>2. BusOf(seg)' = IF seg' = 0 THEN 0 ELSE cfg'[seg'].secondary
      BY DEF BusOf
    <3>3. QED
      BY <1>1, <1>3, <1>5, <1>7, <3>1, <3>2
  <2>7. QED
    BY <1>2, <2>1, <2>3, <2>4, <2>5, <2>6 DEF NumberInv
<1>16. RouteInv'
  <2>1. \A a \in Path[seg] : a \in Entered /\ cfg[a].subordinate = NBus - 1
    BY DEF RouteInv
  <2>2. \A c \in Entered' : cfg'[c].secondary <= cfg'[c].subordinate
    <3>1. max_bus' <= NBus - 1
      BY <1>1, <1>6
    <3>2. \A c \in Entered : cfg'[c].secondary <= cfg'[c].subordinate
      BY <1>8 DEF RouteInv
    <3>3. QED
      BY <1>5, <1>7, <3>1, <3>2
  <2>3. ASSUME NEW c \in Entered', NEW a \in Path[c] \ {c}
        PROVE  /\ a \in Entered'
               /\ cfg'[a].secondary < cfg'[c].secondary
               /\ cfg'[c].secondary <= cfg'[a].subordinate
    <3>1. CASE c = b
      <4>1. a \in Entered /\ cfg[a].subordinate = NBus - 1
        BY <1>3, <2>1, <2>3, <3>1
      <4>2. cfg[a].secondary \in 1 .. max_bus
        BY <4>1 DEF NumberInv
      <4>3. QED
        <5>1. \A m \in 1 .. max_bus : m < max_bus' /\ max_bus' <= NBus - 1
          BY <1>1, <1>6
        <5>2. cfg'[a] = cfg[a] /\ cfg'[c].secondary = max_bus' /\ a \in Entered'
          BY <1>5, <1>7, <1>8, <3>1, <4>1
        <5>3. QED
          BY <4>1, <4>2, <5>1, <5>2
    <3>2. CASE c # b
      <4>1. c \in Entered
        BY <1>7, <3>2
      <4>2. QED
        BY <1>7, <1>8, <4>1 DEF RouteInv
    <3>3. QED
      BY <3>1, <3>2
  <2>4. \A a \in Path[b] : a \in Entered' /\ cfg'[a].subordinate = NBus - 1
    BY <1>3, <1>5, <1>7, <1>8, <2>1
  <2>5. QED
    BY <1>1, <1>2, <2>2, <2>3, <2>4, SameMachine DEF RouteInv
<1>17. ListInv'
  <2>1. Waiting(seg) \ {b} \subseteq Bridges /\ IsFiniteSet(Waiting(seg)) /\ b \in Waiting(seg)
    BY <1>10, ListEmpty DEF Waiting, Children
  <2>2. \A s : Waiting(s)' = Waiting(s) \ {b}
    BY <1>2, <1>7, SameMachine DEF Waiting
  <2>3. \A s : \A c \in Waiting(s) \ {b} : cfg'[c] = cfg[c]
    BY <1>4 DEF Waiting, Children
  <2>4. ASSUME NEW k \in 1 .. n
        PROVE  List(Waiting(stack[k].seg), stack[k].next_head,
                    IF Inside(k) THEN stack[k].i - 1 ELSE stack[k].i, stack[k].seg)'
    <3>1. \A s : s = stack[k].seg => BusOf(s)' = BusOf(s)
      <4>1. HasBus(stack[k].seg)
        BY DEF StackInv
      <4>2. QED
        BY <1>8, <4>1
    <3>2. CASE k # n
      <4>1. List(Waiting(stack[k].seg), stack[k].next_head, stack[k].i - 1, stack[k].seg)
        BY <1>13, <3>2 DEF ListInv
      <4>2. stack[k].seg # seg
        BY <1>1, <1>3, <1>11, <3>2, Frame
      <4>3. Waiting(stack[k].seg) \ {b} = Waiting(stack[k].seg)
        BY <1>3, <4>2 DEF Waiting, Children
      <4>4. stack'[k] = stack[k] /\ Inside(k)'
        BY <1>9, <1>13, <3>2
      <4>5. \A c \in Waiting(stack[k].seg) : cfg'[c] = cfg[c]
        BY <2>3, <4>3
      <4>6. QED
        BY <1>2, <2>2, <3>1, <4>1, <4>3, <4>4, <4>5 DEF List
    <3>3. CASE k = n
      <4> DEFINE W == Waiting(seg)
                 V == W \ {b}
      <4>1. V \subseteq W /\ b \in W /\ b \notin V /\ \A c \in V : cfg'[c] = cfg[c] /\ c # b
        BY <2>1, <2>3
      <4>2. \A c \in W : c \in Funcs /\ topo.parent[c] = seg
        BY DEF Waiting, Children
      <4>3. \A c \in V : topo.devfn[c] < topo.devfn[b]
        BY <1>1, <1>3, <1>10, <4>1, <4>2 DEF List
      <4>4. fr.i - 1 = Cardinality(V)
        <5>1. Cardinality(W \ {b}) = Cardinality(W) - 1
          BY <2>1, FS_RemoveElement
        <5>2. QED
          BY <1>10, <5>1 DEF List
      <4>5. \A c \in V : topo.devfn[c] <= cfg[b].secondary /\ cfg'[c].primary = BusOf(seg)
        BY <1>10, <4>1, <4>3 DEF List
      <4>6. V # {} => \E c \in V : topo.devfn[c] = cfg[b].secondary
        <5> SUFFICES ASSUME NEW c \in V
                     PROVE  \E e \in V : topo.devfn[e] = cfg[b].secondary
          OBVIOUS
        <5>1. PICK e \in W : topo.devfn[e] = cfg[b].secondary /\ topo.devfn[e] < topo.devfn[b]
          BY <1>10, <4>1, <4>3 DEF List
        <5>2. e # b
          BY <1>3, <5>1
        <5>3. QED
          BY <5>1, <5>2
      <4>7. ASSUME NEW c \in V, NEW d \in V, topo.devfn[d] < topo.devfn[c]
            PROVE  /\ topo.devfn[d] <= cfg'[c].secondary
                   /\ \E e \in V : /\ topo.devfn[e] = cfg'[c].secondary
                                   /\ topo.devfn[e] < topo.devfn[c]
        <5>1. /\ topo.devfn[d] <= cfg[c].secondary
              /\ \E e \in W : topo.devfn[e] = cfg[c].secondary /\ topo.devfn[e] < topo.devfn[c]
          BY <1>10, <4>1, <4>7 DEF List
        <5>2. PICK e \in W : topo.devfn[e] = cfg[c].secondary /\ topo.devfn[e] < topo.devfn[c]
          BY <5>1
        <5>3. e # b
          BY <1>3, <4>1, <4>2, <4>3, <5>2
        <5>4. QED
          BY <4>1, <5>1, <5>2, <5>3
      <4>8. /\ stack'[k].seg = seg /\ stack'[k].next_head = cfg[b].secondary
            /\ stack'[k].i = fr.i /\ Inside(k)'
        BY <1>9, <1>13, <3>3
      <4>9. \A s : s = seg => Waiting(s)' = V /\ BusOf(s)' = BusOf(seg)
        BY <1>8, <2>2 DEF NumberInv
      <4> HIDE DEF V
      <4>10. QED
        BY <1>2, <4>4, <4>5, <4>6, <4>7, <4>8, <4>9 DEF List
    <3>4. QED
      BY <3>2, <3>3
  <2>5. Children(b) \cap Entered' = {}
    <3>1. b \notin Children(b)
      BY <1>3 DEF Children
    <3>2. \A c \in Entered : c \notin Children(b)
      BY <1>3, ParentHasBus DEF Children, HasBus
    <3>3. QED
      BY <1>7, <3>1, <3>2
  <2>6. List(Found, bridge_head, bridge_count, seg)'
    <3>1. Found' = {}
      BY <1>2 DEF Found, Children
    <3>2. QED
      BY <1>2, <3>1, FS_EmptySet DEF List
  <2>7. (Children(seg) \cap Entered)' = {}
    <3>1. \A s : Children(s)' = Children(s)
      BY <1>2, SameMachine
    <3>2. QED
      BY <1>1, <2>5, <3>1
  <2>8. QED
    BY <1>2, <1>9, <2>4, <2>6, <2>7 DEF ListInv
<1>18. CompleteInv'
  <2> SUFFICES ASSUME NEW c \in Bridges, HasBus(topo.parent[c])', c \notin Entered',
                      topo.parent[c] # b
               PROVE  \E k \in 1 .. n : stack'[k].seg = topo.parent[c]
    BY <1>1, <1>2, <1>9 DEF CompleteInv
  <2>1. HasBus(topo.parent[c]) /\ c \notin Entered
    BY <1>2, <1>7, <1>8
  <2>2. QED
    BY <1>2, <1>9, <2>1 DEF CompleteInv
<1>19. WindowInv'
  <2>1. \A c \in Entered : EndOf(c)' = IF c \in Path[seg] THEN max_bus' ELSE EndOf(c)
    <3>1. \A c : EndOf(c)' = IF c \in Path'[seg'] THEN max_bus' ELSE cfg'[c].subordinate
      BY DEF EndOf
    <3>2. Path' = Path
      BY <1>2, SameMachine
    <3>3. \A c \in Entered : c \in Path'[seg'] <=> c \in Path[seg]
      BY <1>1, <1>3, <1>8, <3>2
    <3>4. \A c \in Entered : cfg'[c].subordinate = cfg[c].subordinate
      BY <1>8
    <3>5. QED
      BY <3>1, <3>3, <3>4 DEF EndOf
  <2>2. \A s : s = b => EndOf(s)' = max_bus'
    BY <1>1, <1>2, <1>3, SameMachine DEF EndOf
  <2>3. \A c \in Entered : /\ EndOf(c) \in Nat /\ EndOf(c) <= max_bus
                           /\ cfg[c].secondary \in 1 .. max_bus
    <3>1. \A c \in Bridges : cfg[c].subordinate \in Nat
      BY Sizes DEF TypeInv, Registers, BusRange
    <3>2. QED
      BY <1>6, <3>1 DEF EndOf, Entered, WindowInv, NumberInv
  <2>4. ASSUME NEW c \in Entered'
        PROVE  (cfg[c].primary = BusOf(topo.parent[c]) /\ EndOf(c) <= max_bus)'
    <3>1. CASE c = b
      <4>1. cfg[b].primary = BusOf(seg) /\ HasBus(seg)
        BY <1>10 DEF List, NumberInv
      <4>2. \A s : s = seg => BusOf(s)' = BusOf(seg)
        BY <1>8, <4>1
      <4>3. BusOf(topo.parent[c])' = BusOf(seg)
        BY <1>2, <1>3, <3>1, <4>2
      <4>4. EndOf(c)' <= max_bus'
        BY <1>1, <1>6, <2>2, <3>1
      <4>5. QED
        BY <1>5, <3>1, <4>1, <4>3, <4>4
    <3>2. CASE c # b
      <4>1. c \in Entered /\ cfg[c].primary = BusOf(topo.parent[c]) /\ HasBus(topo.parent[c])
        BY <1>7, <3>2, ParentHasBus DEF WindowInv
      <4>2. \A s : s = topo.parent[c] => BusOf(s)' = BusOf(s)
        BY <1>8, <4>1
      <4>3. BusOf(topo.parent[c])' = BusOf(topo.parent[c])
        BY <1>2, <4>2
      <4>4. EndOf(c)' <= max_bus'
        BY <1>1, <1>6, <2>1, <2>3, <4>1
      <4>5. QED
        BY <1>8, <4>1, <4>3, <4>4
    <3>3. QED
      BY <3>1, <3>2
  <2>5. ASSUME NEW c \in Entered', NEW d \in Entered'
        PROVE  c \in Path[d] <=> cfg'[d].secondary \in cfg'[c].secondary .. EndOf(c)'
    <3>1. CASE c = b /\ d = b
      BY <1>1, <1>3, <1>5, <1>6, <2>2, <3>1
    <3>2. CASE c = b /\ d # b
      <4>1. d \in Entered /\ cfg'[d].secondary = cfg[d].secondary
        BY <1>7, <1>8, <3>2
      <4>2. c \notin Path[d]
        BY <1>3, <3>2, <4>1 DEF RouteInv
      <4>3. QED
        BY <1>1, <1>5, <1>6, <2>3, <3>2, <4>1, <4>2
    <3>3. CASE c # b /\ d = b
      <4>1. c \in Entered /\ cfg'[c].secondary = cfg[c].secondary
        BY <1>7, <1>8, <3>3
      <4>2. c \in Path[d] <=> c \in Path[seg]
        BY <1>3, <3>3
      <4>3. QED
        BY <1>1, <1>5, <1>6, <2>1, <2>3, <3>3, <4>1, <4>2
    <3>4. CASE c # b /\ d # b
      <4>1. /\ c \in Entered /\ cfg'[c].secondary = cfg[c].secondary
            /\ d \in Entered /\ cfg'[d].secondary = cfg[d].secondary
        BY <1>7, <1>8, <3>4
      <4>2. c \in Path[d] <=> cfg[d].secondary \in cfg[c].secondary .. EndOf(c)
        BY <4>1 DEF WindowInv
      <4>3. c \in Path[seg] => EndOf(c) = max_bus
        BY DEF EndOf
      <4>4. QED
        BY <1>1, <1>6, <2>1, <2>3, <4>1, <4>2, <4>3
    <3>5. QED
      BY <3>1, <3>2, <3>3, <3>4
  <2>6. QED
    BY <1>2, <2>4, <2>5, SameMachine DEF WindowInv
<1>20. LineInv'
  <2>1. addend' = PathSum[b]
    BY <1>1, <1>3, Sums DEF LineInv
  <2>2. \A f \in Funcs : Visited(f)' <=> Visited(f)
    <3> SUFFICES ASSUME NEW f \in Funcs
                 PROVE  Visited(f)' <=> Visited(f)
      OBVIOUS
    <3>1. Visited(f) <=> HasBus(topo.parent[f])
      BY <1>2 DEF Visited
    <3>2. \A s : s = topo.parent[f] => (HasBus(s)' <=> HasBus(s) \/ s = b)
      BY <1>8
    <3>3. HasBus(topo.parent[f])' <=> HasBus(topo.parent[f]) \/ topo.parent[f] = b
      BY <1>2, <3>2
    <3>4. Visited(f)' <=> HasBus(topo.parent[f])' /\ topo.parent[f] # b
      BY <1>1, <1>2, Sizes DEF Visited
    <3>5. ~HasBus(b)
      BY <1>3 DEF HasBus
    <3>6. QED
      BY <3>1, <3>3, <3>4, <3>5
  <2>3. \A f \in Funcs : cfg'[f].line = cfg[f].line
    BY <1>4, <1>5
  <2>4. \A f \in Funcs : Expected(f)' = Expected(f)
    BY <1>2, SameMachine
  <2>5. PathSum' = PathSum
    BY <1>2, SameMachine
  <2>6. QED
    BY <1>1, <1>2, <2>1, <2>2, <2>3, <2>4, <2>5 DEF LineInv
<1>21. QED
  BY <1>12, <1>14, <1>15, <1>16, <1>17, <1>18, <1>19, <1>20 DEF BusIInv

\* A function on the first numbers is a sequence.
LEMMA FunctionSeq ==
  ASSUME NEW S, NEW m \in Nat, NEW f \in [1 .. m -> S]
  PROVE  f \in Seq(S) /\ Len(f) = m
OBVIOUS

\* The recursive call that ends closes the bridge it was behind.
LEMMA LeaveTarget ==
  ASSUME BusIInv, LeaveBridge
  PROVE  LET n == Len(stack)
             fr == stack[n - 1]
         IN  /\ n \in Nat /\ n - 1 \in 1 .. n /\ n \in 1 .. n /\ stack[n].seg = seg
             /\ seg \in Entered /\ topo.parent[seg] = fr.seg /\ fr.i > 0
             /\ cfg' = [cfg EXCEPT ![seg].subordinate = max_bus]
             /\ Len(stack') = n - 1 /\ stack' \in Seq(Frames)
             /\ \A k \in 1 .. n - 1 : /\ stack'[k].seg = stack[k].seg
                                      /\ stack'[k].save_bus = stack[k].save_bus
                                      /\ stack'[k].next_head = stack[k].next_head
                                      /\ stack'[k].at = stack[k].at
                                      /\ k # n - 1 => stack'[k] = stack[k]
             /\ stack'[n - 1].i = fr.i - 1
             /\ seg' = fr.seg /\ addend' = addend - Dev(topo.devfn[seg])
             /\ Waiting(seg) = {}
<1> USE Hardware
<1> TypeInv /\ StackInv /\ NumberInv /\ RouteInv /\ ListInv
  BY DEF BusIInv
<1> DEFINE n == Len(stack)
           fr == stack[n - 1]
           r == [fr EXCEPT !.i = @ - 1]
<1>1. /\ pc = "loop" /\ Last(stack).i = 0 /\ n > 1
      /\ stack' = [Front(stack) EXCEPT ![n - 1] = r]
      /\ seg' = fr.seg /\ addend' = addend - Dev(fr.at)
  BY DEF LeaveBridge, AddendAfter, Resumed
<1>2. PICK f \in Responders(fr.save_bus, fr.at) :
        cfg' = [cfg EXCEPT ![f].subordinate = max_bus]
  BY DEF LeaveBridge, SubordinateClosed
<1>3. /\ n \in Nat /\ n - 1 \in 1 .. n /\ n \in 1 .. n /\ n - 1 < n /\ (n - 1) + 1 = n
      /\ fr \in Frames /\ stack[n].seg = seg /\ stack[n].i = 0
  <2>1. n \in Nat /\ stack \in Seq(Frames)
    BY DEF TypeInv
  <2>2. n - 1 \in 1 .. n /\ n \in 1 .. n /\ n - 1 < n /\ (n - 1) + 1 = n
    BY <1>1, <2>1
  <2>3. stack[n].seg = seg /\ stack[n].i = 0
    BY <1>1 DEF StackInv, Last
  <2>4. QED
    BY <2>1, <2>2, <2>3
<1>4. Inside(n - 1) /\ Child(n - 1) = seg
  BY <1>3 DEF Inside, Child
<1>5. /\ HasBus(fr.seg) /\ fr.save_bus = BusOf(fr.seg) /\ seg \in Bridges
      /\ topo.parent[seg] = fr.seg /\ topo.devfn[seg] = fr.at
  BY <1>3, <1>4 DEF StackInv
<1>6. f = seg
  <2>1. fr.seg \in Segments /\ seg \in Funcs
    BY <1>3, <1>5, Frame
  <2>2. f \in Funcs /\ topo.parent[f] = fr.seg /\ topo.devfn[f] = fr.at
    BY <1>2, <1>5, <2>1, Answers
  <2>3. QED
    BY <1>5, <2>1, <2>2
<1>7. seg \in Entered
  BY <1>5 DEF NumberInv, HasBus
<1>8. fr.i > 0
  <2>1. List(Waiting(fr.seg), fr.next_head, fr.i - 1, fr.seg)
    BY <1>3, <1>4 DEF ListInv
  <2>2. fr.i - 1 \in Nat /\ fr.i \in Nat
    BY <1>3, <2>1, ListEmpty, Frame
  <2>3. QED
    BY <2>2
<1>9. Waiting(seg) = {}
  <2>1. ~Inside(n)
    BY <1>1, <1>3 DEF Inside
  <2>2. List(Waiting(seg), stack[n].next_head, 0, seg)
    BY <1>3, <2>1 DEF ListInv
  <2>3. QED
    BY <2>2, ListEmpty
<1>10. /\ Len(stack') = n - 1 /\ stack' \in Seq(Frames) /\ stack'[n - 1] = r
       /\ \A k \in 1 .. n - 1 : k # n - 1 => stack'[k] = stack[k]
       /\ r.seg = fr.seg /\ r.save_bus = fr.save_bus /\ r.next_head = fr.next_head
       /\ r.at = fr.at /\ r.i = fr.i - 1
  <2>1. /\ r \in Frames /\ r.seg = fr.seg /\ r.save_bus = fr.save_bus
        /\ r.next_head = fr.next_head /\ r.at = fr.at /\ r.i = fr.i - 1
    BY <1>3, <1>8 DEF Frames
  <2> HIDE DEF r
  <2>2. stack \in Seq(Frames)
    BY DEF TypeInv
  <2>3. Front(stack) = [k \in 1 .. n - 1 |-> stack[k]]
    BY <1>3, <2>2 DEF Front
  <2>4. stack' = [k \in 1 .. n - 1 |-> IF k = n - 1 THEN r ELSE stack[k]]
    BY <1>1, <1>3, <2>3
  <2>5. \A k \in 1 .. n - 1 : stack[k] \in Frames
    BY <1>3, <2>2
  <2>6. stack' \in [1 .. n - 1 -> Frames]
    BY <2>1, <2>4, <2>5
  <2>7. stack' \in Seq(Frames) /\ Len(stack') = n - 1
    <3>1. n - 1 \in Nat
      BY <1>3
    <3>2. QED
      BY <2>6, <3>1, FunctionSeq
  <2>8. n - 1 \in 1 .. n - 1
    BY <1>1, <1>3
  <2>9. QED
    BY <2>1, <2>4, <2>7, <2>8
<1>11. ASSUME NEW k \in 1 .. n - 1
       PROVE  /\ stack'[k].seg = stack[k].seg /\ stack'[k].save_bus = stack[k].save_bus
              /\ stack'[k].next_head = stack[k].next_head /\ stack'[k].at = stack[k].at
              /\ k # n - 1 => stack'[k] = stack[k]
  <2> HIDE DEF r
  <2>1. CASE k = n - 1
    BY <1>10, <2>1
  <2>2. CASE k # n - 1
    BY <1>10, <2>2
  <2>3. QED
    BY <2>1, <2>2
<1> HIDE DEF r
<1>12. QED
  BY <1>1, <1>2, <1>3, <1>5, <1>6, <1>7, <1>8, <1>9, <1>10, <1>11

\* A bridge is closed at the last number that was given out behind it.
LEMMA LeaveKeeps ==
  ASSUME BusIInv, LeaveBridge
  PROVE  BusIInv'
<1> USE Hardware
<1> TypeInv /\ StackInv /\ NumberInv /\ RouteInv /\ ListInv /\ CompleteInv /\ WindowInv /\ LineInv
  BY DEF BusIInv
<1> DEFINE n == Len(stack)
           fr == stack[n - 1]
<1>1. /\ n \in Nat /\ n - 1 \in 1 .. n /\ n \in 1 .. n /\ stack[n].seg = seg
      /\ seg \in Entered /\ topo.parent[seg] = fr.seg /\ fr.i > 0
      /\ cfg' = [cfg EXCEPT ![seg].subordinate = max_bus]
      /\ Len(stack') = n - 1 /\ stack' \in Seq(Frames)
      /\ \A k \in 1 .. n - 1 : /\ stack'[k].seg = stack[k].seg
                               /\ stack'[k].save_bus = stack[k].save_bus
                               /\ stack'[k].next_head = stack[k].next_head
                               /\ stack'[k].at = stack[k].at
                               /\ k # n - 1 => stack'[k] = stack[k]
      /\ stack'[n - 1].i = fr.i - 1
      /\ seg' = fr.seg /\ addend' = addend - Dev(topo.devfn[seg])
      /\ Waiting(seg) = {}
  BY LeaveTarget
<1>2. /\ pc = "loop" /\ pc' = "loop"
      /\ UNCHANGED <<topo, bus, bridge_head, bridge_count, max_bus, pos>>
  BY DEF LeaveBridge
<1>3. /\ seg \in Bridges /\ seg \in Funcs /\ seg \in Nat \ {0} /\ cfg[seg] \in Registers
      /\ fr.seg \in Segments /\ fr.seg < seg /\ fr.seg \in Nat
      /\ Path[seg] = Path[fr.seg] \cup {seg}
  BY <1>1, Parents, Tree, Frame DEF Entered, TypeInv
<1>4. max_bus \in Nat /\ max_bus \in BusRange /\ max_bus # 0
  <2>1. max_bus \in Nat /\ max_bus \in BusRange
    BY Sizes DEF TypeInv, BusRange
  <2>2. cfg[seg].secondary \in 1 .. max_bus
    BY <1>1 DEF NumberInv
  <2>3. QED
    BY <2>1, <2>2
<1>5. /\ \A f \in Funcs : f # seg => cfg'[f] = cfg[f]
      /\ cfg'[seg].subordinate = max_bus /\ cfg'[seg] \in Registers
      /\ \A f \in Funcs : /\ cfg'[f].primary = cfg[f].primary
                          /\ cfg'[f].secondary = cfg[f].secondary
                          /\ cfg'[f].line = cfg[f].line
  <2>1. cfg' = [cfg EXCEPT ![seg] = [cfg[seg] EXCEPT !.subordinate = max_bus]]
    BY <1>1
  <2> DEFINE r == [cfg[seg] EXCEPT !.subordinate = max_bus]
  <2>2. /\ r \in Registers /\ r.subordinate = max_bus /\ r.primary = cfg[seg].primary
        /\ r.secondary = cfg[seg].secondary /\ r.line = cfg[seg].line
    BY <1>3, <1>4 DEF Registers
  <2> HIDE DEF r
  <2>3. cfg'[seg] = r /\ \A f \in Funcs : f # seg => cfg'[f] = cfg[f]
    BY <1>3, <2>1 DEF TypeInv, r
  <2>4. QED
    BY <2>2, <2>3
<1>6. Entered' = Entered
  <2>1. \A b \in Bridges : cfg'[b].subordinate # 0 <=> cfg[b].subordinate # 0
    BY <1>1, <1>4, <1>5 DEF Entered
  <2>2. QED
    BY <2>1 DEF Entered
<1>7. /\ \A s : HasBus(s)' <=> HasBus(s)
      /\ \A s : HasBus(s) => BusOf(s)' = BusOf(s)
      /\ \A s : Waiting(s)' = Waiting(s)
  <2>1. \A s : HasBus(s)' <=> HasBus(s)
    BY <1>6 DEF HasBus
  <2>2. \A s : HasBus(s) => BusOf(s)' = BusOf(s)
    BY <1>5 DEF HasBus, BusOf, Entered
  <2>3. \A s : Waiting(s)' = Waiting(s)
    BY <1>2, <1>6, SameMachine DEF Waiting
  <2>4. QED
    BY <2>1, <2>2, <2>3
<1>8. /\ n - 1 \in 1 .. n - 1 /\ 1 .. n - 1 \subseteq 1 .. n
      /\ \A k \in 1 .. n - 1 : k < n /\ (k # n - 1 => k + 1 \in 1 .. n - 1 /\ k < n - 1)
  BY <1>1
<1>9. \A k \in 1 .. n - 1 : /\ Inside(k) /\ (Inside(k)' <=> k # n - 1)
                            /\ k # n - 1 => Child(k)' = Child(k)
  <2> SUFFICES ASSUME NEW k \in 1 .. n - 1
               PROVE  /\ Inside(k) /\ (Inside(k)' <=> k # n - 1)
                      /\ k # n - 1 => Child(k)' = Child(k)
    OBVIOUS
  <2>1. Inside(k)
    BY <1>8 DEF Inside
  <2>2. Inside(k)' <=> k < n - 1
    BY <1>1, <1>2 DEF Inside
  <2>3. k # n - 1 => Child(k)' = Child(k)
    <3> SUFFICES ASSUME k # n - 1
                 PROVE  Child(k)' = Child(k)
      OBVIOUS
    <3>1. Child(k)' = stack'[k + 1].seg
      BY <1>1, <1>8 DEF Child
    <3>2. Child(k) = stack[k + 1].seg
      BY <1>8 DEF Child
    <3>3. QED
      BY <1>1, <1>8, <3>1, <3>2
  <2>4. QED
    BY <1>1, <2>1, <2>2, <2>3
<1>10. HasBus(fr.seg)
  BY <1>1 DEF StackInv
<1>11. TypeInv'
  <2>1. cfg' \in [Funcs -> Registers]
    BY <1>1, <1>3, <1>5 DEF TypeInv
  <2>2. addend' \in Int
    <3>1. Dev(topo.devfn[seg]) \in Int
      BY <1>3, Sizes DEF Dev
    <3>2. QED
      BY <1>1, <3>1 DEF TypeInv
  <2>3. QED
    BY <1>1, <1>2, <1>3, <2>1, <2>2 DEF TypeInv
<1>12. StackInv'
  <2>1. stack' # <<>> /\ stack'[Len(stack')].seg = seg'
    BY <1>1, <1>8
  <2>2. stack'[1].seg = 0
    <3>1. stack # <<>> /\ 1 \in 1 .. n - 1
      BY <1>1
    <3>2. QED
      BY <1>1, <3>1 DEF StackInv
  <2>3. ASSUME NEW k \in 1 .. n - 1
        PROVE  /\ HasBus(stack[k].seg)' /\ (stack[k].save_bus = BusOf(stack[k].seg))'
               /\ \A j \in 1 .. k - 1 : stack'[j].seg < stack'[k].seg
               /\ Inside(k)' =>
                  /\ Child(k)' \in Bridges /\ stack'[k].seg < Child(k)'
                  /\ topo.parent[Child(k)'] = stack'[k].seg
                  /\ topo.devfn[Child(k)'] = stack'[k].at
    <3>1. /\ HasBus(stack[k].seg) /\ stack[k].save_bus = BusOf(stack[k].seg)
          /\ \A j \in 1 .. k - 1 : stack[j].seg < stack[k].seg
          /\ Child(k) \in Bridges /\ stack[k].seg < Child(k)
          /\ topo.parent[Child(k)] = stack[k].seg
          /\ topo.devfn[Child(k)] = stack[k].at
      BY <1>8, <1>9 DEF StackInv
    <3>2. \A j \in 1 .. k - 1 : j \in 1 .. n - 1
      BY <1>1
    <3>3. HasBus(stack[k].seg)' /\ (stack[k].save_bus = BusOf(stack[k].seg))'
      BY <1>1, <1>7, <3>1
    <3>4. \A j \in 1 .. k - 1 : stack'[j].seg < stack'[k].seg
      BY <1>1, <3>1, <3>2
    <3>5. QED
      BY <1>1, <1>9, <3>1, <3>3, <3>4
  <2>4. QED
    BY <1>1, <1>2, <2>1, <2>2, <2>3 DEF StackInv
<1>13. NumberInv'
  <2>1. \A b \in Entered : cfg'[b].secondary = cfg[b].secondary
    BY <1>5 DEF Entered
  <2>2. HasBus(seg)'
    <3>1. HasBus(seg)' <=> seg' = 0 \/ seg' \in Entered'
      BY DEF HasBus
    <3>2. QED
      BY <1>1, <1>6, <1>10, <3>1 DEF HasBus
  <2>3. QED
    BY <1>2, <1>6, <2>1, <2>2 DEF NumberInv
<1>14. RouteInv'
  <2>1. \A b \in Entered : b \in Funcs /\ cfg[b].secondary \in 1 .. max_bus
    BY DEF Entered, NumberInv
  <2>2. \A b \in Entered : cfg'[b].subordinate = IF b = seg THEN max_bus ELSE cfg[b].subordinate
    BY <1>5, <2>1
  <2>3. \A b \in Entered : cfg'[b].secondary = cfg[b].secondary /\ cfg[b].secondary <= max_bus
    BY <1>4, <1>5, <2>1
  <2>4. \A b \in Entered : cfg'[b].secondary <= cfg'[b].subordinate
    BY <2>2, <2>3 DEF RouteInv
  <2>5. \A b \in Entered : \A a \in Path[b] \ {b} :
          /\ a \in Entered
          /\ cfg'[a].secondary < cfg'[b].secondary
          /\ cfg'[b].secondary <= cfg'[a].subordinate
    BY <2>2, <2>3 DEF RouteInv
  <2>6. \A a \in Path[fr.seg] : a \in Path[seg] /\ a # seg
    <3>1. \A a \in Path[fr.seg] : a <= fr.seg
      BY <1>3, Tree
    <3>2. QED
      BY <1>3, <3>1
  <2>7. \A a \in Path[fr.seg] : a \in Entered /\ cfg'[a].subordinate = NBus - 1
    BY <2>2, <2>6 DEF RouteInv
  <2>8. QED
    BY <1>1, <1>2, <1>6, <2>4, <2>5, <2>7, SameMachine DEF RouteInv
<1>15. ListInv'
  <2> SUFFICES ASSUME NEW k \in 1 .. n - 1
               PROVE  List(Waiting(stack[k].seg), stack[k].next_head,
                           IF Inside(k) THEN stack[k].i - 1 ELSE stack[k].i, stack[k].seg)'
    BY <1>1, <1>2 DEF ListInv
  <2>1. List(Waiting(stack[k].seg), stack[k].next_head, stack[k].i - 1, stack[k].seg)
    BY <1>8, <1>9 DEF ListInv
  <2>2. \A s : s = stack[k].seg => BusOf(s)' = BusOf(s) /\ Waiting(s)' = Waiting(s)
    <3>1. HasBus(stack[k].seg)
      BY <1>8 DEF StackInv
    <3>2. QED
      BY <1>7, <3>1
  <2>3. \A c \in Waiting(stack[k].seg) : cfg'[c] = cfg[c]
    BY <1>1, <1>5 DEF Waiting, Children
  <2>4. (IF Inside(k) THEN stack[k].i - 1 ELSE stack[k].i)' = stack[k].i - 1
    BY <1>1, <1>9
  <2>5. stack'[k].seg = stack[k].seg /\ stack'[k].next_head = stack[k].next_head
    BY <1>1
  <2>6. QED
    BY <1>2, <2>1, <2>2, <2>3, <2>4, <2>5 DEF List
<1>16. CompleteInv'
  <2> SUFFICES ASSUME NEW c \in Bridges, HasBus(topo.parent[c])', c \notin Entered'
               PROVE  \E k \in 1 .. n - 1 : stack'[k].seg = topo.parent[c]
    BY <1>1, <1>2 DEF CompleteInv
  <2>1. HasBus(topo.parent[c]) /\ c \notin Entered
    BY <1>2, <1>6, <1>7
  <2>2. PICK k \in 1 .. n : stack[k].seg = topo.parent[c]
    BY <1>2, <2>1 DEF CompleteInv
  <2>3. k # n
    BY <1>1, <2>1, <2>2 DEF Waiting, Children
  <2>4. k \in 1 .. n - 1
    BY <1>1, <2>3
  <2>5. QED
    BY <1>1, <2>2, <2>4
<1>17. WindowInv'
  <2>1. \A c \in Entered : EndOf(c)' = EndOf(c)
    <3>1. \A c : EndOf(c)' = IF c \in Path'[seg'] THEN max_bus' ELSE cfg'[c].subordinate
      BY DEF EndOf
    <3>2. Path' = Path
      BY <1>2, SameMachine
    <3>3. \A a \in Path[fr.seg] : a <= fr.seg
      BY <1>3, Tree
    <3>4. \A c \in Entered : c # seg => /\ c \in Path'[seg'] <=> c \in Path[seg]
                                        /\ cfg'[c].subordinate = cfg[c].subordinate
      BY <1>1, <1>3, <1>5, <3>2 DEF Entered
    <3>5. seg \notin Path'[seg'] /\ cfg'[seg].subordinate = max_bus /\ EndOf(seg) = max_bus
      BY <1>1, <1>3, <1>5, <3>2, <3>3 DEF EndOf
    <3>6. QED
      BY <1>2, <3>1, <3>4, <3>5 DEF EndOf
  <2>2. \A c \in Entered : /\ cfg'[c].secondary = cfg[c].secondary
                           /\ cfg'[c].primary = cfg[c].primary
    BY <1>5 DEF Entered
  <2>3. \A c \in Entered : \A s : s = topo.parent[c] => BusOf(s)' = BusOf(s)
    BY <1>7, ParentHasBus
  <2>4. QED
    BY <1>2, <1>6, <2>1, <2>2, <2>3, SameMachine DEF WindowInv
<1>18. LineInv'
  <2>1. addend' = PathSum[fr.seg]
    <3>1. PathSum[seg] = PathSum[fr.seg] + Dev(topo.devfn[seg])
      BY <1>1, <1>3, Sums
    <3>2. PathSum[fr.seg] \in Int /\ Dev(topo.devfn[seg]) \in Int
      BY <1>3, Sums, Sizes DEF Dev
    <3>3. QED
      BY <1>1, <3>1, <3>2 DEF LineInv
  <2>2. \A f \in Funcs : Visited(f)' <=> Visited(f)
    <3>1. \A f \in Funcs : \A s : s = topo.parent[f] => (HasBus(s)' <=> HasBus(s))
      BY <1>7
    <3>2. QED
      BY <1>2, <3>1 DEF Visited
  <2>3. \A f \in Funcs : Expected(f)' = Expected(f)
    BY <1>2, SameMachine
  <2>4. PathSum' = PathSum
    BY <1>2, SameMachine
  <2>5. QED
    BY <1>1, <1>2, <1>5, <2>1, <2>2, <2>3, <2>4 DEF LineInv
<1>19. QED
  BY <1>11, <1>12, <1>13, <1>14, <1>15, <1>16, <1>17, <1>18 DEF BusIInv

\* Every step keeps the invariant.
LEMMA NextKeeps ==
  ASSUME BusIInv, [Next]_vars
  PROVE  BusIInv'
<1>1. CASE setup_pci
  BY <1>1, StartKeeps
<1>2. CASE do_setup_pci
  BY <1>2, ScanKeeps
<1>3. CASE EndScan
  BY <1>3, EndScanKeeps
<1>4. CASE EnterBridge
  BY <1>4, EnterKeeps
<1>5. CASE LeaveBridge
  BY <1>5, LeaveKeeps
<1>6. CASE setup_bios32
  BY <1>6, EndKeeps
<1>7. CASE UNCHANGED vars
  BY <1>7, StutterKeeps
<1>8. QED
  BY <1>1, <1>2, <1>3, <1>4, <1>5, <1>6, <1>7 DEF Next, Finished

\* The invariant holds in every state of the enumeration of any machine.
THEOREM BusInvariant == Spec => []BusIInv
<1>1. Init => BusIInv
  BY InitKeeps
<1>2. BusIInv /\ [Next]_vars => BusIInv'
  BY NextKeeps
<1>3. QED
  BY <1>1, <1>2, PTL DEF Spec

-----------------------------------------------------------------------------
(* What the invariant is for.                                              *)

\* A number in use has one segment, any other has none.
LEMMA RoutesUniqueHolds ==
  ASSUME BusIInv
  PROVE  RoutesUnique
<1> USE Hardware
<1> TypeInv /\ NumberInv /\ RouteInv
  BY DEF BusIInv
<1> SUFFICES ASSUME NEW b \in 0 .. NBus - 1
             PROVE  Cardinality(Reached(b)) = IF b <= max_bus THEN 1 ELSE 0
  BY DEF RoutesUnique
<1>1. b \in BusRange /\ b \in Nat /\ max_bus \in Nat
  BY Sizes DEF BusRange, TypeInv
<1>2. Reached(b) = {s \in Segments : HasBus(s) /\ b = BusOf(s)}
  BY <1>1, Routes DEF Reached
<1>3. CASE b <= max_bus
  <2>1. \E s \in Segments : HasBus(s) /\ b = BusOf(s)
    <3>1. CASE b = 0
      BY <3>1 DEF HasBus, BusOf
    <3>2. CASE b # 0
      <4>1. PICK c \in Entered : cfg[c].secondary = b
        BY <1>1, <1>3, <3>2 DEF NumberInv
      <4>2. c \in Segments /\ c # 0
        BY <4>1 DEF Entered
      <4>3. QED
        BY <4>1, <4>2 DEF HasBus, BusOf
    <3>3. QED
      BY <3>1, <3>2
  <2>2. PICK s \in Segments : HasBus(s) /\ b = BusOf(s)
    BY <2>1
  <2>3. Reached(b) = {s}
    BY <1>2, <2>2, Routes
  <2>4. QED
    BY <1>3, <2>3, FS_Singleton
<1>4. CASE ~(b <= max_bus)
  <2>1. \A s \in Segments : HasBus(s) => b # BusOf(s)
    BY <1>4, Routes
  <2>2. Reached(b) = {}
    BY <1>2, <2>1
  <2>3. QED
    BY <1>4, <2>2, FS_EmptySet
<1>5. QED
  BY <1>3, <1>4

\* At every step of the enumeration of any machine, a bus number that pci.c has
\* handed out leads to exactly one segment and any other number leads nowhere.
THEOREM BusRoutesUnique == Spec => []RoutesUnique
<1>1. BusIInv => RoutesUnique
  BY RoutesUniqueHolds
<1>2. QED
  BY <1>1, BusInvariant, PTL

\* The numbers that the active calls use are those of their segments.
LEMMA CyclesReachTargetHolds ==
  ASSUME BusIInv
  PROVE  CyclesReachTarget
<1> TypeInv /\ NumberInv /\ RouteInv /\ StackInv
  BY DEF BusIInv
<1>1. ASSUME pc = "scan"
      PROVE  Reached(bus) = {seg}
  <2>1. seg \in Segments /\ HasBus(seg) /\ bus = BusOf(seg)
    BY <1>1 DEF TypeInv, NumberInv
  <2>2. QED
    BY <2>1, Answers
<1>2. ASSUME NEW k \in DOMAIN stack
      PROVE  Reached(stack[k].save_bus) = {stack[k].seg}
  <2>1. k \in 1 .. Len(stack)
    BY DEF TypeInv
  <2>2. /\ stack[k].seg \in Segments /\ HasBus(stack[k].seg)
        /\ stack[k].save_bus = BusOf(stack[k].seg)
    BY <2>1, Frame DEF StackInv
  <2>3. QED
    BY <2>2, Answers
<1>3. QED
  BY <1>1, <1>2 DEF CyclesReachTarget

\* The cycles of every active call go to the segment it is meant to set up, with
\* bus a static and save_bus a local.
THEOREM BusCyclesReachTarget == Spec => []CyclesReachTarget
<1>1. BusIInv => CyclesReachTarget
  BY CyclesReachTargetHolds
<1>2. QED
  BY <1>1, BusInvariant, PTL

\* When the recursion has ended no bridge is left without a number: the first
\* one of those would be on a bus that has been scanned.
LEMMA AllEntered ==
  ASSUME BusIInv, pc = "done"
  PROVE  Entered = Bridges
<1> USE Hardware
<1> TypeInv /\ StackInv /\ CompleteInv
  BY DEF BusIInv
<1> DEFINE Bad == Bridges \ Entered
<1>1. ASSUME Bad # {}
      PROVE  FALSE
  <2>1. PICK b \in Bad : \A c \in Bad : b <= c
    <3>1. Bad \subseteq Nat
      OBVIOUS
    <3> HIDE DEF Bad
    <3>2. QED
      BY <1>1, <3>1, LeastNumber
  <2>2. b \in Nat /\ topo.parent[b] < b /\ topo.parent[b] \in Nat
    BY <2>1, Parents
  <2>3. topo.parent[b] \notin Bad
    BY <2>1, <2>2
  <2>4. HasBus(topo.parent[b])
    BY <2>1, <2>3 DEF HasBus
  <2>5. stack = <<>>
    BY DEF StackInv
  <2>6. QED
    BY <2>1, <2>4, <2>5 DEF CompleteInv
<1>2. QED
  BY <1>1 DEF Entered

\* The numbers behind a bridge are an interval once every call is back.
LEMMA WindowsExactHolds ==
  ASSUME BusIInv
  PROVE  WindowsExact
<1> USE Hardware
<1> TypeInv /\ StackInv /\ NumberInv /\ WindowInv
  BY DEF BusIInv
<1> SUFFICES ASSUME pc = "done"
             PROVE  /\ {cfg[b].secondary : b \in Bridges} = 1 .. NBridge
                    /\ max_bus = NBridge
                    /\ \A b \in Bridges :
                         /\ cfg[b].primary = BusOf(topo.parent[b])
                         /\ cfg[b].secondary .. cfg[b].subordinate =
                              {cfg[c].secondary : c \in Below(b)}
  BY DEF WindowsExact
<1>1. Entered = Bridges
  BY AllEntered
<1>2. max_bus = NBridge
  BY <1>1 DEF NumberInv
<1>3. {cfg[b].secondary : b \in Bridges} = 1 .. NBridge
  <2>1. \A b \in Bridges : cfg[b].secondary \in 1 .. NBridge
    BY <1>1, <1>2 DEF NumberInv
  <2>2. \A n \in 1 .. NBridge : \E b \in Bridges : cfg[b].secondary = n
    BY <1>1, <1>2 DEF NumberInv
  <2>3. QED
    BY <2>1, <2>2
<1>4. \A b \in Bridges : EndOf(b) = cfg[b].subordinate
  BY Tree DEF EndOf, StackInv
<1>5. ASSUME NEW b \in Bridges
      PROVE  cfg[b].secondary .. cfg[b].subordinate = {cfg[c].secondary : c \in Below(b)}
  <2>1. \A c \in Bridges :
          b \in Path[c] <=> cfg[c].secondary \in cfg[b].secondary .. cfg[b].subordinate
    BY <1>1, <1>4 DEF WindowInv
  <2>2. \A c \in Below(b) : cfg[c].secondary \in cfg[b].secondary .. cfg[b].subordinate
    BY <2>1 DEF Below
  <2>3. ASSUME NEW n \in cfg[b].secondary .. cfg[b].subordinate
        PROVE  \E c \in Below(b) : n = cfg[c].secondary
    <3>1. /\ cfg[b].secondary \in 1 .. NBridge /\ cfg[b].subordinate <= NBridge
          /\ cfg[b].subordinate \in Nat
      <4>1. cfg[b].subordinate \in BusRange
        BY DEF TypeInv, Registers
      <4>2. QED
        BY <1>1, <1>2, <1>4, <4>1, Sizes DEF NumberInv, WindowInv, BusRange
    <3>2. n \in 1 .. NBridge
      BY <3>1, Sizes
    <3>3. PICK c \in Bridges : cfg[c].secondary = n
      BY <1>1, <1>2, <3>2 DEF NumberInv
    <3>4. QED
      BY <2>1, <3>3 DEF Below
  <2>4. QED
    BY <2>2, <2>3
<1>6. \A b \in Bridges : cfg[b].primary = BusOf(topo.parent[b])
  BY <1>1 DEF WindowInv
<1>7. QED
  BY <1>2, <1>3, <1>5, <1>6

\* When setup_pci is done every bridge of any machine has a bus number of its own
\* and forwards exactly the numbers given out behind it.
THEOREM BusWindowsExact == Spec => []WindowsExact
<1>1. BusIInv => WindowsExact
  BY WindowsExactHolds
<1>2. QED
  BY <1>1, BusInvariant, PTL

\* Every function has been visited once the enumeration is done.
LEMMA LinesFollowPathHolds ==
  ASSUME BusIInv
  PROVE  LinesFollowPath
<1> USE Hardware
<1> SUFFICES ASSUME pc = "done", NEW f \in Funcs
             PROVE  cfg[f].line = Expected(f)
  BY DEF LinesFollowPath, Expected, Own
<1>1. Entered = Bridges
  BY AllEntered
<1>2. HasBus(topo.parent[f])
  BY <1>1 DEF HasBus, BusIInv
<1>3. Visited(f)
  BY <1>2 DEF Visited
<1>4. QED
  BY <1>3 DEF BusIInv, LineInv

\* The interrupt line of a function of any machine is its pin rotated by the
\* device numbers on the way to the root, whatever addend went through.
THEOREM BusLinesFollowPath == Spec => []LinesFollowPath
<1>1. BusIInv => LinesFollowPath
  BY LinesFollowPathHolds
<1>2. QED
  BY <1>1, BusInvariant, PTL

-----------------------------------------------------------------------------
(* The BIOS32 directory.                                                   *)

\* A kernel that looks for "_32_" and takes the sum of a directory's 16 bytes finds
\* setup_bios32's, in any firmware, when setup_pci is done.
DirectoryFound ==
  pc = "done" =>
    /\ <<bios32[1], bios32[2], bios32[3], bios32[4]>> = <<95, 51, 50, 95>>
    /\ \A b \in 1 .. 4 : bios32[4 + b] = BIOS32_ENTRY[b]
    /\ \A k \in 1 .. 16 : bios32[k] \in 0 .. 255
    /\ (bios32[1] + bios32[2] + bios32[3] + bios32[4] + bios32[5] + bios32[6] + bios32[7]
          + bios32[8] + bios32[9] + bios32[10] + bios32[11] + bios32[12] + bios32[13]
          + bios32[14] + bios32[15] + bios32[16]) % 256 = 0

\* The directory is there when setup_pci is done.
DirectoryInv == pc = "done" => bios32 = Directory

\* The sum of the bytes before the checksum, and the checksum.
Before(a, b, c, d) == 95 + 51 + 50 + 95 + a + b + c + d + 0 + 1
Rest(a, b, c, d) == (0 - Before(a, b, c, d)) % 256

NothingLeft(a, b, c, d) ==
  /\ Rest(a, b, c, d) \in 0 .. 255
  /\ (95 + 51 + 50 + 95 + a + b + c + d + 0 + 1 + Rest(a, b, c, d) + 0 + 0 + 0 + 0 + 0) % 256 = 0

\* Together, and with the zeros behind them, they leave no remainder.
LEMMA SumTakenOff ==
  ASSUME NEW a \in 0 .. 255, NEW b \in 0 .. 255, NEW c \in 0 .. 255, NEW d \in 0 .. 255
  PROVE  NothingLeft(a, b, c, d)
<1>1. Before(a, b, c, d) \in Nat
  BY DEF Before
<1>2. Rest(a, b, c, d) \in 0 .. 255 /\ (Before(a, b, c, d) + Rest(a, b, c, d)) % 256 = 0
  BY <1>1 DEF Rest
<1>3. 95 + 51 + 50 + 95 + a + b + c + d + 0 + 1 + Rest(a, b, c, d) + 0 + 0 + 0 + 0 + 0
        = Before(a, b, c, d) + Rest(a, b, c, d)
  BY <1>2 DEF Before
<1> QED BY <1>2, <1>3 DEF NothingLeft

\* Only setup_bios32 gets to the end of setup_pci, and stores the directory there.
THEOREM BusDirectoryFound == Spec => []DirectoryFound
<1>1. Init => DirectoryInv
  BY DEF Init, DirectoryInv
<1>2. DirectoryInv /\ [Next]_vars => DirectoryInv'
  BY DEF DirectoryInv, Next, vars, setup_pci, EnterBus, do_setup_pci, EndScan, EnterBridge,
         LeaveBridge, setup_bios32, Finished
<1>3. DirectoryInv => DirectoryFound
  <2> SUFFICES ASSUME bios32 = Directory
               PROVE  /\ <<bios32[1], bios32[2], bios32[3], bios32[4]>> = <<95, 51, 50, 95>>
                      /\ \A b \in 1 .. 4 : bios32[4 + b] = BIOS32_ENTRY[b]
                      /\ \A k \in 1 .. 16 : bios32[k] \in 0 .. 255
                      /\ (bios32[1] + bios32[2] + bios32[3] + bios32[4] + bios32[5]
                            + bios32[6] + bios32[7] + bios32[8] + bios32[9] + bios32[10]
                            + bios32[11] + bios32[12] + bios32[13] + bios32[14]
                            + bios32[15] + bios32[16]) % 256 = 0
    BY DEF DirectoryInv, DirectoryFound
  <2> DEFINE a == BIOS32_ENTRY[1]
             b == BIOS32_ENTRY[2]
             c == BIOS32_ENTRY[3]
             d == BIOS32_ENTRY[4]
             rest == Rest(a, b, c, d)
  <2>1. a \in 0 .. 255 /\ b \in 0 .. 255 /\ c \in 0 .. 255 /\ d \in 0 .. 255
    <3>1. \A k \in 1 .. 4 : BIOS32_ENTRY[k] \in 0 .. 255
      BY EntryAssumption
    <3>2. 1 \in 1 .. 4 /\ 2 \in 1 .. 4 /\ 3 \in 1 .. 4 /\ 4 \in 1 .. 4
      OBVIOUS
    <3> QED BY <3>1, <3>2
  <2>2. bios32 = <<95, 51, 50, 95, a, b, c, d, 0, 1, rest, 0, 0, 0, 0, 0>>
    BY DEF Directory, Rest, Before
  <2>0. \A k \in 1 .. 4 : k \in {1, 2, 3, 4}
    OBVIOUS
  <2> HIDE DEF a, b, c, d
  <2>3. /\ rest \in 0 .. 255
        /\ (95 + 51 + 50 + 95 + a + b + c + d + 0 + 1 + rest + 0 + 0 + 0 + 0 + 0) % 256 = 0
    <3>1. NothingLeft(a, b, c, d)
      BY <2>1, SumTakenOff
    <3> QED BY <3>1 DEF NothingLeft
  <2> HIDE DEF rest
  <2>4. /\ bios32[1] = 95 /\ bios32[2] = 51 /\ bios32[3] = 50 /\ bios32[4] = 95
        /\ bios32[5] = a /\ bios32[6] = b /\ bios32[7] = c /\ bios32[8] = d
        /\ bios32[9] = 0 /\ bios32[10] = 1 /\ bios32[11] = rest /\ bios32[12] = 0
        /\ bios32[13] = 0 /\ bios32[14] = 0 /\ bios32[15] = 0 /\ bios32[16] = 0
    BY <2>2
  <2>5. \A k \in 1 .. 4 : bios32[4 + k] = BIOS32_ENTRY[k]
    BY <2>0, <2>4 DEF a, b, c, d
  <2>6. \A k \in 1 .. 16 : bios32[k] \in 0 .. 255
    BY <2>1, <2>3, <2>4
  <2>7. <<bios32[1], bios32[2], bios32[3], bios32[4]>> = <<95, 51, 50, 95>>
    BY <2>4
  <2>8. (bios32[1] + bios32[2] + bios32[3] + bios32[4] + bios32[5]
           + bios32[6] + bios32[7] + bios32[8] + bios32[9] + bios32[10]
           + bios32[11] + bios32[12] + bios32[13] + bios32[14]
           + bios32[15] + bios32[16]) % 256 = 0
    BY <2>3, <2>4
  <2> QED BY <2>5, <2>6, <2>7, <2>8
<1>4. QED
  BY <1>1, <1>2, <1>3, PTL DEF Spec
=============================================================================
