--------------------------- MODULE BuildBDDProofs ---------------------------
(***************************************************************************)
(* Proofs about BuildBDD, for every network, whatever the recursion and    *)
(* wherever memory runs out: each BDD is the function of its node, the C   *)
(* stack overflows exactly on cycles, and references match their holders.  *)
(***************************************************************************)
EXTENDS BuildBDD, BnetProofs

Width(m) == Len(net.inputs[m])
Height(m) == Len(net.table[m])

\* What a pin, or a line, depends on has been built.
PinDone(m, l, p) == net.table[m][l][p] = "-" \/ dd[net.inputs[m][p]] # NoDD
LineDone(m, l) == \A p \in 1 .. Width(m) : PinDone(m, l, p)

\* The product of the first k pins of a line, the sum of the first k lines.
Product(m, l, k) == {a \in Assignments : \A p \in 1 .. k : PinMatches(m, net.table[m][l], p, a)}
Sum(m, k) == {a \in Assignments : \E l \in 1 .. k : Matches(m, net.table[m][l], a)}

Functions == SUBSET Assignments

Frames == [node : Gates(net), line : Nat \ {0}, pin : Nat \ {0},
           func : Functions, prod : Functions]

BuildTypeOK ==
  /\ net \in Nets
  /\ dd \in [NodesOf(net) -> Functions \cup {NoDD}]
  /\ nvars \in Nat
  /\ stack \in Seq(Frames)
  /\ next \in Nat \ {0}

\* The inputs are built by the loop over the .inputs line and by nothing else.
InputsInOrder ==
  pc = "build" =>
    /\ next <= Len(net.pis) + 1 => stack = <<>> /\ nvars = next - 1
    /\ \A i \in DOMAIN net.pis : dd[net.pis[i]] # NoDD <=> i < next

\* An activation holds the sum of the lines before and the product of the pins
\* before, and all that these read has been built.
FrameOK(fr) ==
  /\ fr.line <= Height(fr.node) + 1
  /\ \A l \in 1 .. fr.line - 1 : LineDone(fr.node, l)
  /\ fr.func = Sum(fr.node, fr.line - 1)
  /\ fr.line <= Height(fr.node) =>
        /\ fr.pin <= Width(fr.node) + 1
        /\ \A p \in 1 .. fr.pin - 1 : PinDone(fr.node, fr.line, p)
        /\ fr.prod = Product(fr.node, fr.line, fr.pin - 1)

FramesOK == pc = "build" => \A i \in DOMAIN stack : FrameOK(stack[i])

\* A node that is built depends on nodes that are.
NodeOK(m) ==
  /\ \A l \in 1 .. Height(m) : LineDone(m, l)
  /\ dd[m] = NodeFunction(m)

Living == pc \in {"build", "print", "free"}

NodesOK == Living => \A m \in NodesOf(net) : dd[m] # NoDD => NodeOK(m)

PrintedOK == pc = "free" => printed = dd[net.outputs[1]] /\ printed # NoDD

BuildInv ==
  /\ BuildTypeOK /\ InputsInOrder /\ FramesOK /\ NodesOK /\ PrintedOK

-----------------------------------------------------------------------------
(* What a network gives.                                                   *)

LEMMA NetFacts ==
  ASSUME net \in Nets
  PROVE  /\ \A m \in NodesOf(net) :
              /\ Width(m) \in Nat /\ Height(m) \in Nat
              /\ DOMAIN net.table[m] = 1 .. Height(m)
              /\ \A p \in 1 .. Width(m) : net.inputs[m][p] \in NodesOf(net)
              /\ \A l \in 1 .. Height(m) : DOMAIN net.table[m][l] = 1 .. Width(m)
              /\ net.type[m] \in NodeType
              /\ net.polarity[m] \in {0, 1}
              /\ net.type[m] = "INPUT" => net.polarity[m] = 0
              /\ m \notin Gates(net) => Width(m) = 0
         /\ Len(net.pis) \in Nat /\ DOMAIN net.pis = 1 .. Len(net.pis)
         /\ \A i \in DOMAIN net.pis : net.pis[i] \in NodesOf(net) /\ net.type[net.pis[i]] = "INPUT"
         /\ \A m \in NodesOf(net) : net.type[m] = "INPUT" => \E i \in DOMAIN net.pis : net.pis[i] = m
         /\ \A i, j \in DOMAIN net.pis : net.pis[i] = net.pis[j] => i = j
         /\ Len(net.outputs) \in Nat \ {0}
         /\ \A i \in 1 .. Len(net.outputs) : net.outputs[i] \in NodesOf(net)
         /\ \A f \in Functions : f # NoDD
<1>1. Readable(net)
  BY NetsAssumption
<1>2. ASSUME NEW m \in NodesOf(net)
      PROVE  /\ Width(m) \in Nat /\ Height(m) \in Nat
             /\ DOMAIN net.table[m] = 1 .. Height(m)
             /\ \A p \in 1 .. Width(m) : net.inputs[m][p] \in NodesOf(net)
             /\ \A l \in 1 .. Height(m) : DOMAIN net.table[m][l] = 1 .. Width(m)
             /\ net.type[m] \in NodeType
             /\ net.polarity[m] \in {0, 1}
             /\ net.type[m] = "INPUT" => net.polarity[m] = 0
             /\ m \notin Gates(net) => Width(m) = 0
  <2>1. net.inputs[m] \in Seq(NodesOf(net)) /\ net.table[m] \in Seq(Seq({"0", "1", "-"}))
    BY <1>1 DEF Readable
  <2>2. \A l \in 1 .. Height(m) : net.table[m][l] \in Seq({"0", "1", "-"})
                                  /\ Len(net.table[m][l]) = Width(m)
    BY SMTT(40), <1>1, <2>1 DEF Readable, Width, Height
  <2>3. net.type[m] \in NodeType /\ net.polarity[m] \in {0, 1}
    BY <1>1 DEF Readable
  <2>4. net.type[m] = "INPUT" => net.polarity[m] = 0
    BY <1>1 DEF Readable
  <2>5. m \notin Gates(net) => Width(m) = 0
    BY <1>1, <2>3 DEF Readable, Gates, NodeType, Width
  <2>6. QED
    BY <2>1, <2>2, <2>3, <2>4, <2>5 DEF Width, Height
<1>3. net.pis \in Seq(NodesOf(net)) /\ net.outputs \in Seq(NodesOf(net)) /\ net.outputs # <<>>
  BY <1>1 DEF Readable
<1>4. \A f \in Functions : f # NoDD
  BY NoDDAssumption DEF Functions, Assignments
<1>5. \A i \in DOMAIN net.pis : net.pis[i] \in NodesOf(net) /\ net.type[net.pis[i]] = "INPUT"
  BY <1>1, <1>3 DEF Readable
<1>6. \A m \in NodesOf(net) : net.type[m] = "INPUT" => \E i \in DOMAIN net.pis : net.pis[i] = m
  BY <1>1 DEF Readable
<1>7. \A i, j \in DOMAIN net.pis : net.pis[i] = net.pis[j] => i = j
  BY <1>1 DEF Readable
<1>8. Len(net.outputs) \in Nat \ {0} /\ \A i \in 1 .. Len(net.outputs) : net.outputs[i] \in NodesOf(net)
  BY <1>3
<1>9. QED
  BY <1>2, <1>3, <1>4, <1>5, <1>6, <1>7, <1>8

-----------------------------------------------------------------------------
(***************************************************************************)
(* Building more nodes changes nothing for what depends on built ones.     *)
(***************************************************************************)
Grows == net' = net /\ \A m \in NodesOf(net) : dd[m] # NoDD => dd'[m] = dd[m]

LEMMA PinKept ==
  ASSUME net \in Nets, Grows, NEW m \in NodesOf(net), NEW l \in 1 .. Height(m),
         NEW p \in 1 .. Width(m), PinDone(m, l, p)
  PROVE  /\ PinDone(m, l, p)'
         /\ \A a : PinMatches(m, net.table[m][l], p, a)' <=> PinMatches(m, net.table[m][l], p, a)
<1>1. net.inputs[m][p] \in NodesOf(net)
  BY NetFacts
<1>2. CASE net.table[m][l][p] = "-"
  BY <1>2 DEF Grows, PinDone, PinMatches
<1>3. CASE dd[net.inputs[m][p]] # NoDD
  BY <1>1, <1>3 DEF Grows, PinDone, PinMatches
<1>4. QED
  BY <1>2, <1>3 DEF PinDone

LEMMA LineKept ==
  ASSUME net \in Nets, Grows, NEW m \in NodesOf(net), NEW l \in 1 .. Height(m), LineDone(m, l)
  PROVE  /\ LineDone(m, l)'
         /\ \A a : Matches(m, net.table[m][l], a)' <=> Matches(m, net.table[m][l], a)
<1>1. net' = net /\ Width(m)' = Width(m)
  BY DEF Grows, Width
<1>2. DOMAIN net.table[m][l] = 1 .. Width(m)
  BY NetFacts
<1>3. QED
  BY <1>1, <1>2, PinKept DEF LineDone, Matches

LEMMA ProductKept ==
  ASSUME net \in Nets, Grows, NEW m \in NodesOf(net), NEW l \in 1 .. Height(m),
         NEW k \in 0 .. Width(m), \A p \in 1 .. k : PinDone(m, l, p)
  PROVE  Product(m, l, k)' = Product(m, l, k)
<1>1. net' = net /\ Assignments' = Assignments
  BY DEF Grows, Assignments
<1>2. Width(m) \in Nat
  BY NetFacts
<1>3. \A p \in 1 .. k : \A a :
          PinMatches(m, net.table[m][l], p, a)' <=> PinMatches(m, net.table[m][l], p, a)
  BY <1>2, PinKept
<1>4. QED
  BY <1>1, <1>3 DEF Product

LEMMA SumKept ==
  ASSUME net \in Nets, Grows, NEW m \in NodesOf(net), NEW k \in 0 .. Height(m),
         \A l \in 1 .. k : LineDone(m, l)
  PROVE  Sum(m, k)' = Sum(m, k)
<1>1. net' = net /\ Assignments' = Assignments
  BY DEF Grows, Assignments
<1>2. Height(m) \in Nat
  BY NetFacts
<1>3. \A l \in 1 .. k : \A a :
          Matches(m, net.table[m][l], a)' <=> Matches(m, net.table[m][l], a)
  BY <1>2, LineKept
<1>4. QED
  BY <1>1, <1>3 DEF Sum

LEMMA FrameKept ==
  ASSUME net \in Nets, Grows, NEW fr \in Frames, FrameOK(fr)
  PROVE  FrameOK(fr)'
<1> DEFINE m == fr.node
<1>1. m \in NodesOf(net) /\ fr.line \in Nat \ {0} /\ fr.pin \in Nat \ {0}
  BY DEF Frames, Gates
<1>2. Width(m) \in Nat /\ Height(m) \in Nat /\ Width(m)' = Width(m) /\ Height(m)' = Height(m)
  BY <1>1, NetFacts DEF Grows, Width, Height
<1>3. \A l \in 1 .. fr.line - 1 : LineDone(m, l)'
  BY <1>1, <1>2, LineKept DEF FrameOK
<1>4. fr.func = Sum(m, fr.line - 1)'
  <2>1. fr.line - 1 \in 0 .. Height(m)
    BY <1>1, <1>2 DEF FrameOK
  <2>2. QED
    BY <1>1, <2>1, SumKept DEF FrameOK
<1>5. ASSUME fr.line <= Height(m)
      PROVE  /\ fr.pin <= Width(m) + 1
             /\ \A p \in 1 .. fr.pin - 1 : PinDone(m, fr.line, p)'
             /\ fr.prod = Product(m, fr.line, fr.pin - 1)'
  <2>1. fr.line \in 1 .. Height(m) /\ fr.pin - 1 \in 0 .. Width(m)
    BY <1>1, <1>2, <1>5 DEF FrameOK
  <2>2. \A p \in 1 .. fr.pin - 1 : PinDone(m, fr.line, p) /\ p \in 1 .. Width(m)
    BY <1>1, <1>2, <1>5 DEF FrameOK
  <2>3. \A p \in 1 .. fr.pin - 1 : PinDone(m, fr.line, p)'
    BY <1>1, <2>1, <2>2, PinKept
  <2>4. QED
    BY <1>1, <1>5, <2>1, <2>2, <2>3, ProductKept DEF FrameOK
<1>6. QED
  BY <1>2, <1>3, <1>4, <1>5 DEF FrameOK

LEMMA FunctionKept ==
  ASSUME net \in Nets, Grows, NEW m \in NodesOf(net), \A l \in 1 .. Height(m) : LineDone(m, l)
  PROVE  /\ \A l \in 1 .. Height(m) : LineDone(m, l)'
         /\ NodeFunction(m)' = NodeFunction(m)
<1>1. net' = net /\ Assignments' = Assignments
  BY DEF Grows, Assignments
<1>2. DOMAIN net.table[m] = 1 .. Height(m)
  BY NetFacts
<1>3. \A l \in 1 .. Height(m) : LineDone(m, l)'
  BY LineKept
<1>4. \A l \in 1 .. Height(m) : \A a :
          Matches(m, net.table[m][l], a)' <=> Matches(m, net.table[m][l], a)
  BY LineKept
<1>5. QED
  BY <1>1, <1>2, <1>3, <1>4 DEF NodeFunction, Var

\* What remains to be shown of a step in which nodes are built.
LEMMA NodesKept ==
  ASSUME net \in Nets, Grows, NEW m \in NodesOf(net), dd[m] # NoDD, NodeOK(m)
  PROVE  NodeOK(m)'
<1>1. net' = net /\ Height(m)' = Height(m) /\ dd'[m] = dd[m]
  BY DEF Grows, Height
<1>2. QED
  BY <1>1, FunctionKept DEF NodeOK

-----------------------------------------------------------------------------
(* Beginning.                                                              *)

LEMMA BuildInit == Init => BuildInv
<1> SUFFICES ASSUME Init PROVE BuildInv
  OBVIOUS
<1> USE NetFacts DEF Init
<1>1. BuildTypeOK
  BY DEF BuildTypeOK
<1>2. InputsInOrder
  BY DEF InputsInOrder
<1>3. FramesOK /\ NodesOK /\ PrintedOK
  BY DEF FramesOK, NodesOK, PrintedOK
<1>4. QED
  BY <1>1, <1>2, <1>3 DEF BuildInv

-----------------------------------------------------------------------------
(* A call: Bnet_BuildNodeBDD(n) for a node without a BDD.                  *)

LEMMA LeafFunction ==
  ASSUME net \in Nets, nvars \in Nat, NEW n \in NodesOf(net) \ Gates(net),
         net.type[n] = "INPUT" => nvars + 1 \in DOMAIN net.pis /\ net.pis[nvars + 1] = n,
         NEW f, f = IF net.type[n] = "INPUT" THEN Var(nvars)
                    ELSE IF net.table[n] = <<>> THEN Zero ELSE One
  PROVE  /\ \A l \in 1 .. Height(n) : LineDone(n, l)
         /\ Polar(n, f) = NodeFunction(n)
         /\ Polar(n, f) \in Functions
<1>1. /\ Width(n) = 0 /\ Height(n) \in Nat
      /\ DOMAIN net.table[n] = 1 .. Height(n)
      /\ \A l \in 1 .. Height(n) : DOMAIN net.table[n][l] = 1 .. Width(n)
      /\ net.polarity[n] \in {0, 1}
  BY NetFacts
<1>2. \A l \in 1 .. Height(n) : LineDone(n, l) /\ \A a : Matches(n, net.table[n][l], a)
  BY <1>1 DEF LineDone, Matches
<1>3. f \in Functions
  BY DEF Functions, Var, Zero, One
<1>4. CASE net.type[n] = "INPUT"
  <2>1. net.polarity[n] = 0
    BY <1>4, NetFacts
  <2> DEFINE at == CHOOSE i \in DOMAIN net.pis : net.pis[i] = n
  <2>2. at = nvars + 1
    BY <1>4, NetFacts
  <2>3. NodeFunction(n) = Var(at - 1)
    BY <1>4 DEF NodeFunction
  <2> HIDE DEF at
  <2>4. at - 1 = nvars
    BY <2>2
  <2>5. NodeFunction(n) = Var(nvars)
    BY <2>3, <2>4
  <2>6. QED
    BY <1>2, <1>3, <1>4, <2>1, <2>5 DEF Polar
<1>5. CASE net.type[n] # "INPUT"
  <2>1. net.table[n] = <<>> <=> Height(n) = 0
    <3>1. net.table[n] \in Seq(Seq({"0", "1", "-"}))
      BY NetsAssumption DEF Readable
    <3>2. QED
      BY <3>1 DEF Height
  <2>2. (\E l \in DOMAIN net.table[n] : TRUE) <=> net.table[n] # <<>>
    BY <1>1, <2>1
  <2>3. NodeFunction(n) = {a \in Assignments : net.table[n] # <<>> <=> net.polarity[n] = 0}
    BY <1>1, <1>2, <1>5, <2>2 DEF NodeFunction
  <2>4. QED
    BY <1>1, <1>2, <1>3, <1>5, <2>3 DEF Polar, Not, Zero, One, Functions
<1>6. QED
  BY <1>4, <1>5

(***************************************************************************)
(* The frames and the built nodes stay good, when nodes are added.         *)
(***************************************************************************)
LEMMA AllKept ==
  ASSUME BuildInv, Grows, pc = "build"
  PROVE  /\ \A g \in Frames : FrameOK(g) => FrameOK(g)'
         /\ \A m \in NodesOf(net) : dd[m] # NoDD => NodeOK(m)'
         /\ \A i \in DOMAIN stack : stack[i] \in Frames /\ FrameOK(stack[i])
         /\ Frames' = Frames
<1>1. net \in Nets
  BY DEF BuildInv, BuildTypeOK
<1>2. \A g \in Frames : FrameOK(g) => FrameOK(g)'
  BY <1>1, FrameKept
<1>3. \A m \in NodesOf(net) : dd[m] # NoDD => NodeOK(m)'
  BY <1>1, NodesKept DEF BuildInv, NodesOK, Living
<1>4. \A i \in DOMAIN stack : stack[i] \in Frames /\ FrameOK(stack[i])
  BY DEF BuildInv, BuildTypeOK, FramesOK
<1>5. Frames' = Frames
  BY DEF Grows, Frames, Gates, NodesOf, Functions, Assignments
<1>6. QED
  BY <1>2, <1>3, <1>4, <1>5

LEMMA PushedOK ==
  ASSUME BuildInv, pc = "build", Grows, pc' = "build",
         NEW fr \in Frames, FrameOK(fr), stack' = Append(stack, fr)
  PROVE  stack' \in Seq(Frames') /\ FramesOK'
<1>1. stack \in Seq(Frames)
  BY DEF BuildInv, BuildTypeOK
<1>2. stack' \in Seq(Frames')
  BY <1>1, AllKept
<1>3. ASSUME NEW i \in DOMAIN stack' PROVE FrameOK(stack[i])'
  <2>1. stack'[i] = fr \/ (i \in DOMAIN stack /\ stack'[i] = stack[i])
    BY <1>1
  <2>2. stack'[i] \in Frames /\ FrameOK(stack'[i])
    BY <2>1, AllKept
  <2>3. QED
    BY <2>2, AllKept
<1>4. QED
  BY <1>2, <1>3 DEF FramesOK

LEMMA UpdatedOK ==
  ASSUME BuildInv, pc = "build", stack # <<>>, Grows, pc' = "build",
         NEW fr \in Frames, FrameOK(fr), stack' = Update(fr)
  PROVE  stack' \in Seq(Frames') /\ stack' # <<>> /\ FramesOK'
<1>1. stack \in Seq(Frames) /\ Len(stack) \in Nat \ {0}
  BY DEF BuildInv, BuildTypeOK
<1>2. /\ Pop \in Seq(Frames)
      /\ \A i \in DOMAIN Pop : i \in DOMAIN stack /\ Pop[i] = stack[i]
  BY <1>1 DEF Pop
<1>3. stack' \in Seq(Frames') /\ stack' # <<>>
  BY <1>2, AllKept DEF Update
<1>4. ASSUME NEW i \in DOMAIN stack' PROVE FrameOK(stack[i])'
  <2>1. stack'[i] = fr \/ (i \in DOMAIN Pop /\ stack'[i] = Pop[i])
    BY <1>2 DEF Update
  <2>2. stack'[i] \in Frames /\ FrameOK(stack'[i])
    BY <1>2, <2>1, AllKept
  <2>3. QED
    BY <2>2, AllKept
<1>5. QED
  BY <1>3, <1>4 DEF FramesOK

LEMMA CallLeafOK ==
  ASSUME BuildInv, pc = "build", NEW n \in NodesOf(net), CallLeaf(n), net' = net,
         net.type[n] = "INPUT" => nvars + 1 \in DOMAIN net.pis /\ net.pis[nvars + 1] = n
  PROVE  /\ Grows /\ dd' \in [NodesOf(net) -> Functions \cup {NoDD}]
         /\ \A m \in NodesOf(net) : m # n => dd'[m] = dd[m]
         /\ dd'[n] # NoDD
         /\ stack' \in Seq(Frames') /\ FramesOK' /\ NodesOK'
<1> DEFINE f == IF net.type[n] = "INPUT" THEN Var(nvars)
                ELSE IF net.table[n] = <<>> THEN Zero ELSE One
<1>1. /\ net \in Nets /\ nvars \in Nat /\ stack \in Seq(Frames)
      /\ dd \in [NodesOf(net) -> Functions \cup {NoDD}]
  BY DEF BuildInv, BuildTypeOK
<1>2. /\ n \notin Gates(net) /\ dd[n] = NoDD
      /\ dd' = [dd EXCEPT ![n] = Polar(n, f)] /\ stack' = stack /\ pc' = pc
  BY DEF CallLeaf
<1>3. /\ \A l \in 1 .. Height(n) : LineDone(n, l)
      /\ Polar(n, f) = NodeFunction(n)
      /\ Polar(n, f) \in Functions
  BY <1>1, <1>2, LeafFunction
<1> HIDE DEF f
<1>4. Grows /\ dd' \in [NodesOf(net) -> Functions \cup {NoDD}]
  BY <1>1, <1>2, <1>3 DEF Grows
<1>5. dd'[n] = NodeFunction(n) /\ dd'[n] # NoDD
  BY <1>1, <1>2, <1>3, NetFacts
<1>6. NodeOK(n)'
  <2>1. Height(n)' = Height(n)
    BY DEF Height
  <2>2. QED
    BY <1>1, <1>3, <1>4, <1>5, <2>1, FunctionKept DEF NodeOK
<1>7. NodesOK'
  <2>1. \A m \in NodesOf(net) : m # n => dd'[m] = dd[m]
    BY <1>1, <1>2
  <2>2. NodesOf(net') = NodesOf(net)
    OBVIOUS
  <2>3. QED
    BY <1>4, <1>6, <2>1, <2>2, AllKept DEF NodesOK
<1>8. stack' \in Seq(Frames') /\ FramesOK'
  BY <1>1, <1>2, <1>4, AllKept DEF FramesOK
<1>9. QED
  BY <1>1, <1>2, <1>4, <1>5, <1>7, <1>8

LEMMA CallGateOK ==
  ASSUME BuildInv, pc = "build", NEW n \in NodesOf(net), CallGate(n), net' = net
  PROVE  stack' \in Seq(Frames') /\ FramesOK' /\ NodesOK' /\ pc' # "free"
<1> DEFINE fr == [node |-> n, line |-> 1, pin |-> 1, func |-> Zero, prod |-> One]
<1>1. net \in Nets /\ n \in Gates(net) /\ dd' = dd /\ Grows /\ stack \in Seq(Frames)
  BY DEF CallGate, Grows, BuildInv, BuildTypeOK
<1>2. CASE Len(stack) = StackLimit
  <2>1. pc' = "overflow" /\ stack' = stack
    BY <1>2 DEF CallGate
  <2>2. QED
    BY <1>1, <2>1, AllKept DEF FramesOK, NodesOK, Living
<1>3. CASE Len(stack) # StackLimit
  <2>1. pc' = pc /\ stack' = Append(stack, fr)
    BY <1>3 DEF CallGate
  <2>2. fr \in Frames
    BY <1>1 DEF Frames, Functions, Zero, One
  <2>3. Width(n) \in Nat /\ Height(n) \in Nat
    BY <1>1, NetFacts
  <2>4. Sum(n, 0) = Zero /\ Product(n, 1, 0) = One
    BY DEF Sum, Product, Zero, One
  <2>5. FrameOK(fr)
    BY <2>3, <2>4 DEF FrameOK
  <2> HIDE DEF fr
  <2>6. stack' \in Seq(Frames') /\ FramesOK'
    BY <1>1, <2>1, <2>2, <2>5, PushedOK
  <2>7. NodesOK'
    BY <1>1, AllKept DEF NodesOK
  <2>8. QED
    BY <2>1, <2>6, <2>7
<1>4. QED
  BY <1>2, <1>3

\* A call made by the loop over the roots, or for a fanin.
LEMMA RootFacts ==
  ASSUME BuildInv, next <= Len(Roots)
  PROVE  /\ Roots[next] \in NodesOf(net)
         /\ next <= Len(net.pis) => Roots[next] = net.pis[next]
<1>1. net \in Nets /\ next \in Nat \ {0}
  BY DEF BuildInv, BuildTypeOK
<1>2. net.pis \in Seq(NodesOf(net)) /\ net.outputs \in Seq(NodesOf(net))
  BY <1>1, NetsAssumption DEF Readable
<1>3. Roots \in Seq(NodesOf(net))
  <2>1. ASSUME NEW S, NEW s \in Seq(S), NEW t \in Seq(S) PROVE s \o t \in Seq(S)
    OBVIOUS
  <2>2. QED
    BY <1>2, <2>1 DEF Roots
<1>4. next \in 1 .. Len(Roots)
  BY <1>1, <1>3
<1>5. Roots[next] \in NodesOf(net)
  BY <1>3, <1>4
<1>6. ASSUME next <= Len(net.pis) PROVE Roots[next] = net.pis[next]
  <2>1. ASSUME NEW S, NEW s \in Seq(S), NEW t \in Seq(S), NEW i \in 1 .. Len(s)
        PROVE  (s \o t)[i] = s[i]
    OBVIOUS
  <2>2. next \in 1 .. Len(net.pis)
    BY <1>1, <1>2, <1>6
  <2>3. QED
    BY <1>2, <2>1, <2>2 DEF Roots
<1>7. QED
  BY <1>5, <1>6

\* Once the loop over the inputs is over, no input is without a BDD.
LEMMA InputsBuilt ==
  ASSUME BuildInv, pc = "build", next > Len(net.pis),
         NEW n \in NodesOf(net), dd[n] = NoDD
  PROVE  net.type[n] # "INPUT"
<1>1. net \in Nets /\ next \in Nat \ {0}
  BY DEF BuildInv, BuildTypeOK
<1> SUFFICES ASSUME net.type[n] = "INPUT" PROVE FALSE
  OBVIOUS
<1>2. PICK i \in DOMAIN net.pis : net.pis[i] = n
  BY <1>1, NetFacts
<1>3. i < next
  BY <1>1, <1>2, NetFacts
<1>4. QED
  BY <1>2, <1>3 DEF BuildInv, InputsInOrder

LEMMA RootOK ==
  ASSUME BuildInv, Root
  PROVE  BuildInv'
<1> DEFINE n == Roots[next]
<1>1. /\ net \in Nets /\ next \in Nat \ {0} /\ nvars \in Nat
      /\ stack \in Seq(Frames) /\ dd \in [NodesOf(net) -> Functions \cup {NoDD}]
      /\ pc = "build" /\ stack = <<>> /\ next <= Len(Roots)
      /\ net' = net /\ next' = next + 1 /\ printed' = printed
  BY DEF BuildInv, BuildTypeOK, Root
<1>2. n \in NodesOf(net) /\ (next <= Len(net.pis) => n = net.pis[next])
  BY <1>1, RootFacts
<1>3. /\ \A i \in DOMAIN net.pis : dd[net.pis[i]] # NoDD <=> i < next
      /\ next <= Len(net.pis) + 1 => nvars = next - 1
  BY <1>1 DEF BuildInv, InputsInOrder
<1>4. Len(net.pis) \in Nat /\ DOMAIN net.pis = 1 .. Len(net.pis)
  BY <1>1, NetFacts
<1>5. dd[n] = NoDD => (net.type[n] = "INPUT" => /\ nvars + 1 \in DOMAIN net.pis
                                              /\ net.pis[nvars + 1] = n)
  <2>1. CASE next <= Len(net.pis)
    BY <1>1, <1>2, <1>3, <1>4, <2>1
  <2>2. CASE next > Len(net.pis)
    BY <1>1, <1>2, <2>2, InputsBuilt
  <2>3. QED
    BY <1>1, <1>4, <2>1, <2>2
<1> HIDE DEF n
<1>6. CASE CallLeaf(n)
  <2>1. /\ dd[n] = NoDD /\ n \notin Gates(net) /\ stack' = stack /\ pc' = pc
        /\ nvars' = IF net.type[n] = "INPUT" THEN nvars + 1 ELSE nvars
    BY <1>6 DEF CallLeaf
  <2>2. /\ Grows /\ dd' \in [NodesOf(net) -> Functions \cup {NoDD}]
        /\ \A m \in NodesOf(net) : m # n => dd'[m] = dd[m]
        /\ dd'[n] # NoDD
        /\ stack' \in Seq(Frames') /\ FramesOK' /\ NodesOK'
    BY <1>1, <1>2, <1>5, <1>6, <2>1, CallLeafOK
  <2>3. BuildTypeOK'
    <3>1. NodesOf(net') = NodesOf(net) /\ Functions' = Functions
      BY <1>1 DEF Functions, Assignments
    <3>2. QED
      BY <1>1, <2>1, <2>2, <3>1 DEF BuildTypeOK
  <2>4. InputsInOrder'
    <3>1. \A i \in DOMAIN net.pis : net.pis[i] \in NodesOf(net) /\ net.type[net.pis[i]] = "INPUT"
      BY <1>1, NetFacts
    <3>2. CASE next <= Len(net.pis)
      <4>1. n = net.pis[next] /\ next \in DOMAIN net.pis /\ net.type[n] = "INPUT"
        BY <1>1, <1>2, <1>4, <3>1, <3>2
      <4>2. \A i \in DOMAIN net.pis : net.pis[i] = n => i = next
        BY <1>1, <4>1, NetFacts
      <4>3. \A i \in DOMAIN net.pis : dd'[net.pis[i]] # NoDD <=> i < next + 1
        BY <1>1, <1>3, <1>4, <2>2, <3>1, <4>1, <4>2
      <4>4. nvars' = next
        BY <1>1, <1>3, <1>4, <2>1, <3>2, <4>1
      <4>5. QED
        BY <1>1, <1>4, <2>1, <4>3, <4>4 DEF InputsInOrder
    <3>3. CASE next > Len(net.pis)
      <4>1. net.type[n] # "INPUT"
        BY <1>1, <1>2, <2>1, <3>3, InputsBuilt
      <4>2. \A i \in DOMAIN net.pis : dd'[net.pis[i]] = dd[net.pis[i]]
        BY <2>2, <3>1, <4>1
      <4>3. \A i \in DOMAIN net.pis : dd'[net.pis[i]] # NoDD <=> i < next + 1
        BY <1>1, <1>3, <1>4, <3>3, <4>2
      <4>4. next' > Len(net.pis) + 1
        BY <1>1, <1>4, <3>3
      <4>5. QED
        BY <1>1, <1>4, <4>3, <4>4 DEF InputsInOrder
    <3>4. QED
      BY <1>1, <1>4, <3>2, <3>3
  <2>5. PrintedOK'
    BY <1>1, <2>1 DEF PrintedOK
  <2>6. QED
    BY <2>2, <2>3, <2>4, <2>5 DEF BuildInv
<1>7. CASE CallGate(n)
  <2>1. dd' = dd /\ nvars' = nvars /\ n \in Gates(net) /\ dd[n] = NoDD
    BY <1>7 DEF CallGate
  <2>2. stack' \in Seq(Frames') /\ FramesOK' /\ NodesOK' /\ pc' # "free"
    BY <1>1, <1>2, <1>7, CallGateOK
  <2>3. BuildTypeOK'
    <3>1. NodesOf(net') = NodesOf(net) /\ Functions' = Functions
      BY <1>1 DEF Functions, Assignments
    <3>2. QED
      BY <1>1, <2>1, <2>2, <3>1 DEF BuildTypeOK
  <2>4. next > Len(net.pis)
    <3>1. net.type[n] # "INPUT"
      BY <2>1 DEF Gates
    <3>2. QED
      BY <1>1, <1>2, <1>4, <3>1, NetFacts
  <2>5. InputsInOrder'
    BY <1>1, <1>3, <1>4, <2>1, <2>4 DEF InputsInOrder
  <2>6. PrintedOK'
    BY <2>2 DEF PrintedOK
  <2>7. QED
    BY <2>2, <2>3, <2>5, <2>6 DEF BuildInv
<1>8. CASE dd[n] # NoDD /\ UNCHANGED <<dd, nvars, refs, stack, pc>>
  <2>1. Grows
    BY <1>1, <1>8 DEF Grows
  <2>2. next > Len(net.pis)
    BY <1>1, <1>2, <1>3, <1>4, <1>8
  <2>3. BuildTypeOK'
    <3>1. NodesOf(net') = NodesOf(net) /\ Functions' = Functions /\ Frames' = Frames
      BY <1>1, <2>1, AllKept DEF Functions, Assignments
    <3>2. QED
      BY <1>1, <1>8, <3>1 DEF BuildTypeOK
  <2>4. InputsInOrder'
    BY <1>1, <1>3, <1>4, <1>8, <2>2 DEF InputsInOrder
  <2>5. FramesOK' /\ NodesOK' /\ PrintedOK'
    BY <1>1, <1>8, <2>1, AllKept DEF FramesOK, NodesOK, PrintedOK
  <2>6. QED
    BY <2>3, <2>4, <2>5 DEF BuildInv
<1>9. QED
  BY <1>6, <1>7, <1>8 DEF Root, Call, n

-----------------------------------------------------------------------------
(* The loops over the lines and the pins of the gate on top.               *)

LEMMA TopFacts ==
  ASSUME BuildInv, pc = "build", stack # <<>>
  PROVE  /\ net \in Nets /\ nvars \in Nat /\ next \in Nat /\ next > Len(net.pis) + 1
         /\ dd \in [NodesOf(net) -> Functions \cup {NoDD}]
         /\ Top \in Frames /\ FrameOK(Top)
         /\ Top.node \in NodesOf(net) /\ Top.line \in Nat \ {0} /\ Top.pin \in Nat \ {0}
         /\ Top.func \in Functions /\ Top.prod \in Functions
         /\ Width(Top.node) \in Nat /\ Height(Top.node) \in Nat
<1>1. /\ net \in Nets /\ nvars \in Nat /\ stack \in Seq(Frames) /\ next \in Nat
      /\ dd \in [NodesOf(net) -> Functions \cup {NoDD}]
  BY DEF BuildInv, BuildTypeOK
<1>2. next > Len(net.pis) + 1
  BY <1>1, NetFacts DEF BuildInv, InputsInOrder
<1>3. Top \in Frames /\ FrameOK(Top)
  BY <1>1 DEF Top, BuildInv, FramesOK
<1>4. Top.node \in NodesOf(net)
  BY <1>3 DEF Frames, Gates
<1>5. QED
  BY <1>1, <1>2, <1>3, <1>4, NetFacts DEF Frames

\* A step that only changes the top frame keeps the invariant, if the new
\* frame is good.
LEMMA TopStepOK ==
  ASSUME BuildInv, pc = "build", stack # <<>>, NEW fr \in Frames, FrameOK(fr),
         stack' = Update(fr), UNCHANGED <<net, dd, nvars, next, pc, printed>>
  PROVE  BuildInv'
<1>1. Grows /\ pc' = "build"
  BY DEF Grows
<1>2. stack' \in Seq(Frames') /\ stack' # <<>> /\ FramesOK'
  BY <1>1, UpdatedOK
<1>3. NodesOf(net') = NodesOf(net) /\ Functions' = Functions
  BY DEF Functions, Assignments
<1>4. BuildTypeOK'
  BY <1>2, <1>3 DEF BuildInv, BuildTypeOK
<1>5. InputsInOrder'
  BY <1>2, TopFacts, NetFacts DEF BuildInv, InputsInOrder
<1>6. NodesOK' /\ PrintedOK'
  BY <1>1, AllKept DEF NodesOK, PrintedOK
<1>7. QED
  BY <1>2, <1>4, <1>5, <1>6 DEF BuildInv

\* The next pin: what it adds to the product.
LEMMA NextProduct ==
  ASSUME NEW m, NEW l, NEW k \in Nat \ {0}
  PROVE  Product(m, l, k) =
           {a \in Product(m, l, k - 1) : PinMatches(m, net.table[m][l], k, a)}
<1>1. 1 .. k = 1 .. (k - 1) \cup {k}
  OBVIOUS
<1>2. QED
  BY <1>1 DEF Product

LEMMA NextSum ==
  ASSUME NEW m, NEW k \in Nat \ {0}
  PROVE  Sum(m, k) = Sum(m, k - 1) \cup {a \in Assignments : Matches(m, net.table[m][k], a)}
<1>1. 1 .. k = 1 .. (k - 1) \cup {k}
  OBVIOUS
<1>2. QED
  BY <1>1 DEF Sum

\* Pin k of the line in hand is done, with the new product prod.
LEMMA PinStepOK ==
  ASSUME BuildInv, pc = "build", stack # <<>>, InPin,
         PinDone(Top.node, Top.line, Top.pin), NEW prod,
         prod = {a \in Top.prod : PinMatches(Top.node, Line, Top.pin, a)},
         stack' = Update([Top EXCEPT !.prod = prod, !.pin = @ + 1]),
         UNCHANGED <<net, dd, nvars, next, pc, printed>>
  PROVE  BuildInv'
<1> DEFINE m == Top.node
           l == Top.line
           k == Top.pin
           fr == [Top EXCEPT !.prod = prod, !.pin = @ + 1]
<1>1. /\ Top \in Frames /\ FrameOK(Top) /\ l \in Nat \ {0} /\ k \in Nat \ {0}
      /\ Width(m) \in Nat /\ Height(m) \in Nat /\ Top.prod \in Functions
  BY TopFacts
<1>2. l <= Height(m) /\ k <= Width(m) /\ Line = net.table[m][l]
  BY DEF InPin, InLine, Line, Height, Width
<1>3. prod \in Functions
  BY <1>1 DEF Functions
<1>4. fr \in Frames /\ fr.node = m /\ fr.line = l /\ fr.pin = k + 1 /\ fr.prod = prod
      /\ fr.func = Top.func
  <2>1. PICK t \in Frames, pin \in Nat \ {0} : t = Top /\ pin = k + 1
    BY <1>1
  <2>2. PICK g : g = [t EXCEPT !.prod = prod, !.pin = pin]
    OBVIOUS
  <2>3. g = fr
    BY <2>1, <2>2
  <2> HIDE DEF fr, m, l, k
  <2>4. /\ g \in Frames /\ g.node = t.node /\ g.line = t.line
        /\ g.pin = pin /\ g.func = t.func /\ g.prod = prod
    BY <1>3, <2>2 DEF Frames
  <2>5. QED
    BY <2>1, <2>3, <2>4 DEF m, l
<1>5. /\ \A i \in 1 .. l - 1 : LineDone(m, i)
      /\ Top.func = Sum(m, l - 1)
      /\ \A p \in 1 .. k - 1 : PinDone(m, l, p)
      /\ Top.prod = Product(m, l, k - 1)
  BY <1>1, <1>2 DEF FrameOK
<1>6. prod = Product(m, l, k)
  BY <1>1, <1>2, <1>5, NextProduct
<1>7. \A p \in 1 .. k : PinDone(m, l, p)
  BY <1>1, <1>5
<1>8. FrameOK(fr)
  BY SMTT(40), <1>1, <1>2, <1>4, <1>5, <1>6, <1>7 DEF FrameOK
<1> HIDE DEF fr, m, l, k
<1>9. QED
  BY <1>4, <1>8, TopStepOK DEF fr

LEMMA SkipPinOK ==
  ASSUME BuildInv, SkipPin
  PROVE  BuildInv'
<1>1. /\ pc = "build" /\ stack # <<>> /\ InPin /\ Line[Top.pin] = "-"
      /\ stack' = Update([Top EXCEPT !.pin = @ + 1])
      /\ UNCHANGED <<net, dd, nvars, next, pc, printed>>
  BY DEF SkipPin, InPin, InLine, InGate
<1>2. Top \in Frames /\ Top.prod \in Functions
  BY <1>1, TopFacts
<1>3. PinDone(Top.node, Top.line, Top.pin)
  BY <1>1 DEF PinDone, Line
<1>4. Top.prod = {a \in Top.prod : PinMatches(Top.node, Line, Top.pin, a)}
  BY <1>1 DEF PinMatches
<1>5. [Top EXCEPT !.prod = Top.prod, !.pin = @ + 1] = [Top EXCEPT !.pin = @ + 1]
  BY <1>2 DEF Frames
<1>6. QED
  BY <1>1, <1>3, <1>4, <1>5, PinStepOK

LEMMA AndPinOK ==
  ASSUME BuildInv, AndPin
  PROVE  BuildInv'
<1> DEFINE literal == IF Line[Top.pin] = "1" THEN dd[Fanin] ELSE Not(dd[Fanin])
           tmp == Top.prod \cap literal
<1>1. /\ pc = "build" /\ stack # <<>> /\ InPin /\ Line[Top.pin] # "-" /\ dd[Fanin] # NoDD
      /\ stack' = Update([Top EXCEPT !.prod = tmp, !.pin = @ + 1])
      /\ UNCHANGED <<net, dd, nvars, next, pc, printed>>
  BY DEF AndPin, InPin, InLine, InGate
<1>2. /\ Top.prod \subseteq Assignments /\ Top.node \in NodesOf(net)
      /\ Top.pin \in Nat \ {0} /\ net \in Nets
  BY SMTT(40), <1>1, TopFacts DEF Functions
<1>3. PinDone(Top.node, Top.line, Top.pin)
  BY <1>1 DEF PinDone, Line, Fanin
<1>4. tmp = {a \in Top.prod : PinMatches(Top.node, Line, Top.pin, a)}
  BY ZenonT(40), <1>1, <1>2 DEF PinMatches, Fanin, Not
<1> HIDE DEF tmp
<1>5. QED
  BY <1>1, <1>3, <1>4, PinStepOK

LEMMA EndLineOK ==
  ASSUME BuildInv, EndLine
  PROVE  BuildInv'
<1> DEFINE m == Top.node
           l == Top.line
           tmp == Top.func \cup Top.prod
           fr == [Top EXCEPT !.func = tmp, !.line = @ + 1, !.pin = 1, !.prod = One]
<1>1. /\ pc = "build" /\ stack # <<>> /\ l <= Height(m) /\ Top.pin > Width(m)
      /\ stack' = Update(fr)
      /\ UNCHANGED <<net, dd, nvars, next, pc, printed>>
  BY DEF EndLine, InLine, InGate, Height, Width
<1>2. /\ Top \in Frames /\ FrameOK(Top) /\ l \in Nat \ {0} /\ Top.pin \in Nat \ {0}
      /\ Width(m) \in Nat /\ Height(m) \in Nat /\ m \in NodesOf(net) /\ net \in Nets
      /\ Top.func \in Functions /\ Top.prod \in Functions
  BY <1>1, TopFacts
<1>3. /\ \A i \in 1 .. l - 1 : LineDone(m, i)
      /\ Top.func = Sum(m, l - 1) /\ Top.pin - 1 = Width(m)
      /\ \A p \in 1 .. Width(m) : PinDone(m, l, p)
      /\ Top.prod = Product(m, l, Width(m))
  BY <1>1, <1>2 DEF FrameOK
<1>4. \A i \in 1 .. l : LineDone(m, i)
  BY <1>2, <1>3 DEF LineDone
<1>5. DOMAIN net.table[m][l] = 1 .. Width(m)
  BY <1>1, <1>2, NetFacts
<1>6. Top.prod = {a \in Assignments : Matches(m, net.table[m][l], a)}
  BY <1>3, <1>5 DEF Product, Matches
<1>7. tmp = Sum(m, l)
  BY <1>2, <1>3, <1>6, NextSum
<1>8. One = Product(m, l + 1, 0)
  BY DEF One, Product
<1>9. tmp \in Functions /\ One \in Functions
  BY <1>2 DEF Functions, One
<1>10. fr \in Frames /\ fr.node = m /\ fr.line = l + 1 /\ fr.pin = 1 /\ fr.prod = One
       /\ fr.func = tmp
  <2>1. PICK t \in Frames, func \in Functions, prod \in Functions,
            line \in Nat \ {0}, pin \in Nat \ {0} :
           t = Top /\ func = tmp /\ prod = One /\ line = l + 1 /\ pin = 1
    BY <1>2, <1>9
  <2>2. PICK g : g = [t EXCEPT !.func = func, !.line = line, !.pin = pin, !.prod = prod]
    OBVIOUS
  <2>3. g = fr
    BY <2>1, <2>2
  <2> HIDE DEF fr, m, l, tmp
  <2>4. /\ g \in Frames /\ g.node = t.node /\ g.line = line
        /\ g.pin = pin /\ g.func = func /\ g.prod = prod
    BY <2>2 DEF Frames
  <2>5. QED
    BY <2>1, <2>3, <2>4 DEF m
<1>11. FrameOK(fr)
  BY <1>1, <1>2, <1>4, <1>7, <1>8, <1>10 DEF FrameOK
<1> HIDE DEF fr
<1>12. QED
  BY <1>1, <1>10, <1>11, TopStepOK

\* The last line is done: the sum is the function of the gate.
LEMMA GateFunction ==
  ASSUME BuildInv, EndGate
  PROVE  /\ Top.node \in Gates(net)
         /\ \A l \in 1 .. Height(Top.node) : LineDone(Top.node, l)
         /\ Polar(Top.node, Top.func) = NodeFunction(Top.node)
         /\ Polar(Top.node, Top.func) \in Functions
<1> DEFINE m == Top.node
<1>1. /\ pc = "build" /\ stack # <<>> /\ Top.line > Height(m)
  BY DEF EndGate, InGate, Height
<1>2. /\ Top \in Frames /\ FrameOK(Top) /\ Top.line \in Nat \ {0} /\ Height(m) \in Nat
      /\ m \in NodesOf(net) /\ net \in Nets /\ Top.func \in Functions
  BY <1>1, TopFacts
<1>3. m \in Gates(net)
  BY <1>2 DEF Frames
<1>4. /\ \A l \in 1 .. Height(m) : LineDone(m, l)
      /\ Top.func = Sum(m, Height(m))
  BY <1>1, <1>2 DEF FrameOK
<1>5. net.type[m] # "INPUT" /\ net.polarity[m] \in {0, 1} /\ DOMAIN net.table[m] = 1 .. Height(m)
  BY <1>2, <1>3, NetFacts DEF Gates
<1>6. NodeFunction(m) = {a \in Assignments :
           (\E l \in 1 .. Height(m) : Matches(m, net.table[m][l], a)) <=> net.polarity[m] = 0}
  BY <1>5 DEF NodeFunction
<1>7. Polar(m, Top.func) = NodeFunction(m)
  BY <1>4, <1>5, <1>6 DEF Polar, Not, Sum
<1>8. Polar(m, Top.func) \in Functions
  BY <1>2 DEF Polar, Not, Functions
<1>9. QED
  BY <1>3, <1>4, <1>7, <1>8

LEMMA EndGateOK ==
  ASSUME BuildInv, EndGate
  PROVE  BuildInv'
<1>1. PICK m, f : m = Top.node /\ f = Polar(m, Top.func)
  OBVIOUS
<1>2. /\ pc = "build" /\ stack # <<>> /\ stack' = Pop /\ dd' = [dd EXCEPT ![m] = f]
      /\ UNCHANGED <<net, nvars, next, pc, printed>>
  BY <1>1 DEF EndGate, InGate
<1>3. /\ net \in Nets /\ nvars \in Nat /\ next \in Nat /\ next > Len(net.pis) + 1
      /\ dd \in [NodesOf(net) -> Functions \cup {NoDD}] /\ m \in NodesOf(net)
  BY <1>2, <1>1, TopFacts
<1>4. /\ m \in Gates(net) /\ f = NodeFunction(m) /\ f \in Functions
      /\ \A l \in 1 .. Height(m) : LineDone(m, l)
  BY <1>1, GateFunction
<1>5. dd[m] # NoDD => dd[m] = f
  BY <1>2, <1>3, <1>4 DEF BuildInv, NodesOK, Living, NodeOK
<1>6. Grows
  BY <1>2, <1>3, <1>5 DEF Grows
<1>7. NodeOK(m)'
  <2>1. Height(m)' = Height(m) /\ dd'[m] = f
    BY <1>2, <1>3 DEF Height
  <2>2. QED
    BY <1>3, <1>4, <1>6, <2>1, FunctionKept DEF NodeOK
<1>8. NodesOf(net') = NodesOf(net) /\ Functions' = Functions
  BY <1>2 DEF Functions, Assignments
<1>9. NodesOK'
  <2>1. \A n \in NodesOf(net) : n # m => dd'[n] = dd[n]
    BY <1>2, <1>3
  <2>2. QED
    BY <1>2, <1>6, <1>7, <1>8, <2>1, AllKept DEF NodesOK
<1>10. stack' \in Seq(Frames') /\ FramesOK'
  <2>1. stack \in Seq(Frames) /\ Len(stack) \in Nat \ {0}
    BY <1>2 DEF BuildInv, BuildTypeOK
  <2>2. /\ Pop \in Seq(Frames)
        /\ \A i \in DOMAIN Pop : i \in DOMAIN stack /\ Pop[i] = stack[i]
    BY <2>1 DEF Pop
  <2>3. QED
    BY <1>2, <1>6, <2>2, AllKept DEF FramesOK
<1>11. BuildTypeOK'
  BY <1>2, <1>3, <1>4, <1>8, <1>10 DEF BuildInv, BuildTypeOK
<1>12. InputsInOrder'
  <2>1. \A i \in DOMAIN net.pis : net.pis[i] \in NodesOf(net) /\ net.pis[i] # m
    BY <1>3, <1>4, NetFacts DEF Gates
  <2>2. \A i \in DOMAIN net.pis : dd'[net.pis[i]] = dd[net.pis[i]]
    BY <1>2, <1>3, <2>1
  <2>3. Len(net.pis) \in Nat
    BY <1>3, NetFacts
  <2>4. QED
    BY <1>2, <1>3, <2>2, <2>3 DEF BuildInv, InputsInOrder
<1>13. PrintedOK'
  BY <1>2 DEF PrintedOK
<1>14. QED
  BY <1>9, <1>10, <1>11, <1>12, <1>13 DEF BuildInv

LEMMA BuildFaninOK ==
  ASSUME BuildInv, BuildFanin
  PROVE  BuildInv'
<1> DEFINE m == Top.node
           n == Fanin
<1>1. /\ pc = "build" /\ stack # <<>> /\ Top.pin <= Width(m) /\ Call(n)
      /\ UNCHANGED <<net, next, printed>>
  BY DEF BuildFanin, InPin, InLine, InGate, Width
<1>2. /\ net \in Nets /\ nvars \in Nat /\ next \in Nat /\ next > Len(net.pis) + 1
      /\ dd \in [NodesOf(net) -> Functions \cup {NoDD}]
      /\ m \in NodesOf(net) /\ Top.pin \in Nat \ {0} /\ Width(m) \in Nat
  BY <1>1, TopFacts
<1>3. Len(net.pis) \in Nat
  BY <1>2, NetFacts
<1>4. n \in NodesOf(net)
  BY <1>1, <1>2, NetFacts DEF Fanin
<1>5. NodesOf(net') = NodesOf(net) /\ Functions' = Functions
  BY <1>1 DEF Functions, Assignments
<1> HIDE DEF n
<1>6. dd[n] = NoDD => net.type[n] # "INPUT"
  BY <1>1, <1>2, <1>3, <1>4, InputsBuilt
<1>7. CASE CallLeaf(n)
  <2>1. dd[n] = NoDD /\ pc' = pc /\ nvars' \in Nat
    BY <1>2, <1>7 DEF CallLeaf
  <2>2. /\ dd' \in [NodesOf(net) -> Functions \cup {NoDD}]
        /\ \A o \in NodesOf(net) : o # n => dd'[o] = dd[o]
        /\ stack' \in Seq(Frames') /\ FramesOK' /\ NodesOK'
    BY <1>1, <1>4, <1>6, <1>7, <2>1, CallLeafOK
  <2>3. BuildTypeOK'
    BY <1>1, <1>2, <1>5, <2>1, <2>2 DEF BuildInv, BuildTypeOK
  <2>4. InputsInOrder'
    <3>1. \A i \in DOMAIN net.pis : net.pis[i] \in NodesOf(net) /\ net.pis[i] # n
      BY <1>2, <1>6, <2>1, NetFacts
    <3>2. \A i \in DOMAIN net.pis : dd'[net.pis[i]] = dd[net.pis[i]]
      BY <2>2, <3>1
    <3>3. QED
      BY <1>1, <1>2, <1>3, <3>2 DEF BuildInv, InputsInOrder
  <2>5. QED
    BY <1>1, <2>1, <2>2, <2>3, <2>4 DEF BuildInv, PrintedOK
<1>8. CASE CallGate(n)
  <2>1. dd' = dd /\ nvars' = nvars
    BY <1>8 DEF CallGate
  <2>2. stack' \in Seq(Frames') /\ FramesOK' /\ NodesOK' /\ pc' # "free"
    BY <1>1, <1>4, <1>8, CallGateOK
  <2>3. BuildTypeOK'
    BY <1>1, <1>2, <1>5, <2>1, <2>2 DEF BuildInv, BuildTypeOK
  <2>4. InputsInOrder'
    BY <1>1, <1>2, <1>3, <2>1 DEF BuildInv, InputsInOrder
  <2>5. QED
    BY <2>2, <2>3, <2>4 DEF BuildInv, PrintedOK
<1>9. QED
  BY <1>1, <1>7, <1>8 DEF Call

-----------------------------------------------------------------------------
(* The end of the building, and what follows it.                           *)

\* The building may end at any point: the nodes built so far keep their BDDs.
LEMMA EndOK ==
  ASSUME BuildInv, Living, UNCHANGED <<net, dd, nvars, next>>, pc' # "build",
         stack' \in Seq(Frames'), PrintedOK'
  PROVE  BuildInv'
<1>1. net \in Nets /\ Grows /\ NodesOf(net') = NodesOf(net) /\ Functions' = Functions
  BY DEF BuildInv, BuildTypeOK, Grows, Functions, Assignments
<1>2. BuildTypeOK'
  BY <1>1 DEF BuildInv, BuildTypeOK
<1>3. NodesOK'
  BY <1>1, NodesKept DEF BuildInv, NodesOK
<1>4. QED
  BY <1>2, <1>3 DEF BuildInv, InputsInOrder, FramesOK

LEMMA StackKept ==
  ASSUME BuildInv, net' = net
  PROVE  Frames' = Frames /\ stack \in Seq(Frames') /\ <<>> \in Seq(Frames')
<1>1. Frames' = Frames
  BY DEF Frames, Gates, NodesOf, Functions, Assignments
<1>2. QED
  BY <1>1 DEF BuildInv, BuildTypeOK

LEMMA AfterOK ==
  ASSUME BuildInv, RootsDone \/ OutOfMemory \/ PrintCover \/ FreeNetwork \/ UNCHANGED vars
  PROVE  BuildInv'
<1>1. CASE RootsDone
  <2>1. /\ Living /\ pc' = "print" /\ UNCHANGED <<net, dd, nvars, next, stack>>
    BY <1>1 DEF RootsDone, Living
  <2>2. QED
    BY <2>1, StackKept, EndOK DEF PrintedOK
<1>2. CASE OutOfMemory
  <2>1. /\ Living /\ pc' \in {"print", "exit"} /\ UNCHANGED <<net, dd, nvars, next>> /\ stack' = <<>>
    BY <1>2 DEF OutOfMemory, Living
  <2>2. QED
    BY <2>1, StackKept, EndOK DEF PrintedOK
<1>3. CASE PrintCover
  <2>1. /\ Living /\ pc' \in {"crash", "free"} /\ UNCHANGED <<net, dd, nvars, next, stack>>
    BY <1>3 DEF PrintCover, Living
  <2>2. PrintedOK'
    BY <1>3, <2>1 DEF PrintCover, PrintedOK
  <2>3. QED
    BY <2>1, <2>2, StackKept, EndOK
<1>4. CASE FreeNetwork
  <2>1. /\ pc' = "done" /\ UNCHANGED <<net, nvars, stack, next>>
        /\ \E freed : dd' = [n \in NodesOf(net) |->
               IF n \in freed /\ net.type[n] = "INTERNAL" THEN NoDD ELSE dd[n]]
    BY <1>4 DEF FreeNetwork
  <2>2. net' = net /\ Functions' = Functions
    BY <2>1 DEF Functions, Assignments
  <2>3. BuildTypeOK'
    BY <2>1, <2>2, StackKept DEF BuildInv, BuildTypeOK
  <2>4. QED
    BY <2>1, <2>3 DEF BuildInv, InputsInOrder, FramesOK, NodesOK, Living, PrintedOK
<1>5. CASE UNCHANGED vars
  <2>1. /\ UNCHANGED <<net, dd, nvars, next, stack, pc, printed>>
    BY <1>5 DEF vars
  <2>2. net \in Nets /\ Grows /\ Functions' = Functions
    BY <2>1 DEF BuildInv, BuildTypeOK, Grows, Functions, Assignments
  <2>3. BuildTypeOK'
    BY <2>1, <2>2, StackKept DEF BuildInv, BuildTypeOK
  <2>4. FramesOK'
    BY <2>1, <2>2, AllKept DEF FramesOK
  <2>5. NodesOK'
    BY <2>1, <2>2, NodesKept DEF BuildInv, NodesOK, Living
  <2>6. InputsInOrder' /\ PrintedOK'
    BY <2>1 DEF BuildInv, InputsInOrder, PrintedOK
  <2>7. QED
    BY <2>3, <2>4, <2>5, <2>6 DEF BuildInv
<1>6. QED
  BY <1>1, <1>2, <1>3, <1>4, <1>5

-----------------------------------------------------------------------------
(***************************************************************************)
(* The invariant of print_MFFC_covers: what an activation holds, what a    *)
(* built node depends on, and which inputs have their variable.            *)
(***************************************************************************)
THEOREM BuildInvariant == Spec => []BuildInv
<1>1. Init => BuildInv
  BY BuildInit
<1>2. BuildInv /\ [Next]_vars => BuildInv'
  <2> SUFFICES ASSUME BuildInv, [Next]_vars PROVE BuildInv'
    OBVIOUS
  <2>1. CASE Root
    BY <2>1, RootOK
  <2>2. CASE SkipPin
    BY <2>2, SkipPinOK
  <2>3. CASE BuildFanin
    BY <2>3, BuildFaninOK
  <2>4. CASE AndPin
    BY <2>4, AndPinOK
  <2>5. CASE EndLine
    BY <2>5, EndLineOK
  <2>6. CASE EndGate
    BY <2>6, EndGateOK
  <2>7. CASE RootsDone \/ OutOfMemory \/ PrintCover \/ FreeNetwork \/ UNCHANGED vars
    BY <2>7, AfterOK
  <2>8. QED
    BY <2>1, <2>2, <2>3, <2>4, <2>5, <2>6, <2>7 DEF Next, Progress
<1>3. QED
  BY <1>1, <1>2, PTL DEF Spec

(***************************************************************************)
(* Whatever the network, and wherever memory runs out, the BDD of each     *)
(* node is the function of its table over the inputs in .inputs order, and *)
(* the printed cover is that of the first output.                          *)
(***************************************************************************)
THEOREM EveryBddIsItsFunction == Spec => []ComputesNodeFunctions
<1>1. BuildInv => ComputesNodeFunctions
  <2> SUFFICES ASSUME BuildInv PROVE ComputesNodeFunctions
    OBVIOUS
  <2>1. net \in Nets
    BY DEF BuildInv, BuildTypeOK
  <2>2. net.outputs[1] \in NodesOf(net)
    BY <2>1, NetFacts
  <2>3. ASSUME Living, NEW m \in NodesOf(net), dd[m] # NoDD PROVE dd[m] = NodeFunction(m)
    BY <2>3 DEF BuildInv, NodesOK, NodeOK
  <2>4. ASSUME pc = "free" PROVE printed = NodeFunction(net.outputs[1])
    BY <2>2, <2>3, <2>4 DEF BuildInv, PrintedOK, Living
  <2>5. QED
    BY <2>3, <2>4 DEF ComputesNodeFunctions, Living
<1>2. QED
  BY <1>1, BuildInvariant, PTL

-----------------------------------------------------------------------------
(***************************************************************************)
(* The recursion: who waits for whom, and what a cycle does.  First the    *)
(* nodes that are needed: Needed is a recursive function of the number of  *)
(* steps, over the steps 0 to the number of nodes.                         *)
(***************************************************************************)
Size == Len(net.nodes)

LEMMA SizeFacts ==
  ASSUME net \in Nets
  PROVE  /\ Size \in Nat /\ DOMAIN net.nodes = 1 .. Size
         /\ IsFiniteSet(NodesOf(net)) /\ Cardinality(NodesOf(net)) <= Size
         /\ Cardinality(NodesOf(net)) \in Nat
<1>1. Size \in Nat /\ DOMAIN net.nodes = 1 .. Size
  BY NetsAssumption DEF Readable, Size
<1>2. IsFiniteSet(1 .. Size) /\ Cardinality(1 .. Size) = Size
  BY <1>1, FS_Interval
<1>3. NodesOf(net) = {net.nodes[i] : i \in 1 .. Size}
  BY <1>1 DEF NodesOf
<1> DEFINE f == [i \in 1 .. Size |-> net.nodes[i]]
<1>4. f \in Surjection(1 .. Size, NodesOf(net))
  BY <1>3, Zenon DEF Surjection
<1>5. IsFiniteSet(NodesOf(net)) /\ Cardinality(NodesOf(net)) <= Cardinality(1 .. Size)
  BY <1>2, <1>4, FS_Surjection
<1>6. QED
  BY <1>1, <1>2, <1>5, FS_CardinalityType

LEMMA WithinIsFunction ==
  ASSUME net \in Nets, NEW S
  PROVE  NeededWithin(S) =
           [k \in 0 .. Size |-> IF k = 0 THEN S
                                ELSE NeededWithin(S)[k - 1]
                                     \cup UNION {Needs(m) : m \in NeededWithin(S)[k - 1]}]
<1> DEFINE More(X) == X \cup UNION {Needs(m) : m \in X}
           Step(f, n) == [k \in 0 .. n |-> IF k = 0 THEN S ELSE More(f[k - 1])]
           T == {n \in 0 .. Size : \E f : f = Step(f, n)}
<1>1. Size \in Nat
  BY SizeFacts
<1>2. 0 \in T
  <2>1. [k \in 0 .. 0 |-> S] = Step([k \in 0 .. 0 |-> S], 0)
    OBVIOUS
  <2>2. \E f : f = Step(f, 0)
    BY <2>1
  <2>3. QED
    BY <1>1, <2>2
<1> HIDE DEF More
<1>3. ASSUME NEW n \in 0 .. Size - 1, n \in T PROVE n + 1 \in T
  <2>1. PICK f : f = Step(f, n)
    BY <1>3
  <2> DEFINE g == [k \in 0 .. n + 1 |-> IF k <= n THEN f[k] ELSE More(f[n])]
  <2>2. \A k \in 0 .. n + 1 : g[k] = IF k = 0 THEN S ELSE More(g[k - 1])
    <3>1. ASSUME NEW k \in 0 .. n, k # 0 PROVE g[k] = More(g[k - 1])
      <4>1. k - 1 \in 0 .. n /\ k \in 0 .. n + 1 /\ k - 1 \in 0 .. n + 1
        BY <3>1
      <4>2. f[k] = More(f[k - 1])
        BY <2>1, <3>1
      <4>3. QED
        BY <4>1, <4>2
    <3>2. g[0] = S
      BY <2>1
    <3>3. g[n + 1] = More(g[n])
      OBVIOUS
    <3>4. \A k \in 0 .. n + 1 : k = n + 1 \/ k \in 0 .. n
      OBVIOUS
    <3>5. n + 1 # 0 /\ (n + 1) - 1 = n
      OBVIOUS
    <3> HIDE DEF g
    <3>6. QED
      BY <3>1, <3>2, <3>3, <3>4, <3>5
  <2>3. g = Step(g, n + 1)
    <3>1. g = [k \in 0 .. n + 1 |-> g[k]]
      OBVIOUS
    <3> HIDE DEF g
    <3>2. QED
      BY <2>2, <3>1
  <2>4. n + 1 \in 0 .. Size
    BY <1>1
  <2>5. QED
    BY <2>3, <2>4
<1>4. T = 0 .. Size
  <2>1. T \in SUBSET (0 .. Size)
    OBVIOUS
  <2> HIDE DEF T
  <2>2. QED
    BY <1>1, <1>2, <1>3, <2>1, UpTo
<1>5. \E f : f = Step(f, Size)
  <2>1. Size \in T
    BY <1>1, <1>4
  <2>2. QED
    BY <2>1
<1>6. NeededWithin(S) = CHOOSE f : f = Step(f, Size)
  BY DEF NeededWithin, More, Size
<1>7. NeededWithin(S) = Step(NeededWithin(S), Size)
  BY <1>5, <1>6
<1>8. QED
  BY <1>7 DEF More

LEMMA WithinSteps ==
  ASSUME net \in Nets, NEW S
  PROVE  /\ NeededWithin(S)[0] = S
         /\ \A k \in 0 .. Size - 1 :
               NeededWithin(S)[k + 1] =
                   NeededWithin(S)[k] \cup UNION {Needs(m) : m \in NeededWithin(S)[k]}
<1>1. Size \in Nat
  BY SizeFacts
<1>2. PICK w : w = NeededWithin(S)
  OBVIOUS
<1>3. w = [k \in 0 .. Size |-> IF k = 0 THEN S
                               ELSE w[k - 1] \cup UNION {Needs(m) : m \in w[k - 1]}]
  BY <1>2, WithinIsFunction
<1>4. w[0] = S
  BY <1>1, <1>3
<1>5. ASSUME NEW k \in 0 .. Size - 1
      PROVE  w[k + 1] = w[k] \cup UNION {Needs(m) : m \in w[k]}
  <2>1. k + 1 \in 0 .. Size /\ k + 1 # 0 /\ (k + 1) - 1 = k
    BY <1>1
  <2>2. QED
    BY <1>3, <2>1
<1>6. QED
  BY <1>2, <1>4, <1>5

\* A set that holds what its nodes need holds all that is needed.
LEMMA ClosedHoldsNeeded ==
  ASSUME net \in Nets, NEW S, NEW C, S \subseteq C, \A m \in C : Needs(m) \subseteq C
  PROVE  Needed(S) \subseteq C
<1> DEFINE T == {k \in 0 .. Size : NeededWithin(S)[k] \subseteq C}
<1>1. Size \in Nat
  BY SizeFacts
<1>2. 0 \in T
  BY <1>1, WithinSteps
<1>3. ASSUME NEW k \in 0 .. Size - 1, k \in T PROVE k + 1 \in T
  <2>1. NeededWithin(S)[k + 1] =
            NeededWithin(S)[k] \cup UNION {Needs(m) : m \in NeededWithin(S)[k]}
    BY WithinSteps
  <2>2. NeededWithin(S)[k + 1] \subseteq C
    BY <1>3, <2>1
  <2>3. QED
    BY <1>1, <2>2
<1>4. T = 0 .. Size
  <2>1. T \in SUBSET (0 .. Size)
    OBVIOUS
  <2> HIDE DEF T
  <2>2. QED
    BY <1>1, <1>2, <1>3, <2>1, UpTo
<1>5. Size \in T
  BY <1>1, <1>4
<1>6. QED
  BY <1>5 DEF Needed, Size

\* The end of a path of needs is needed.
LEMMA PathIsNeeded ==
  ASSUME net \in Nets, NEW S, NEW j \in 0 .. Size, NEW p, p[0] \in S,
         \A i \in 0 .. j - 1 : p[i + 1] \in Needs(p[i])
  PROVE  p[j] \in Needed(S)
<1>1. Size \in Nat /\ j \in Nat
  BY SizeFacts
<1> DEFINE T == {i \in 0 .. j : p[i] \in NeededWithin(S)[i]}
<1>2. 0 \in T
  BY <1>1, WithinSteps
<1>3. ASSUME NEW i \in 0 .. j - 1, i \in T PROVE i + 1 \in T
  <2>1. i \in 0 .. Size - 1 /\ i + 1 \in 0 .. j
    BY <1>1
  <2>2. p[i + 1] \in NeededWithin(S)[i + 1]
    BY <1>3, <2>1, WithinSteps
  <2>3. QED
    BY <2>1, <2>2
<1>4. j \in T
  <2>1. T \in SUBSET (0 .. j)
    OBVIOUS
  <2>2. j \in 0 .. j
    BY <1>1
  <2> HIDE DEF T
  <2>3. QED
    BY <1>1, <1>2, <1>3, <2>1, <2>2, UpTo
<1> DEFINE U == {i \in 0 .. Size - j : p[j] \in NeededWithin(S)[j + i]}
<1>5. 0 \in U
  BY <1>1, <1>4
<1>6. ASSUME NEW i \in 0 .. (Size - j) - 1, i \in U PROVE i + 1 \in U
  <2>1. j + i \in 0 .. Size - 1 /\ i + 1 \in 0 .. Size - j /\ j + (i + 1) = (j + i) + 1
    BY <1>1
  <2>2. p[j] \in NeededWithin(S)[(j + i) + 1]
    BY <1>6, <2>1, WithinSteps
  <2>3. QED
    BY <2>1, <2>2
<1>7. Size - j \in U
  <2>1. U \in SUBSET (0 .. Size - j) /\ Size - j \in Nat /\ Size - j \in 0 .. Size - j
    BY <1>1
  <2> HIDE DEF U
  <2>2. QED
    BY <1>5, <1>6, <2>1, UpTo
<1>8. j + (Size - j) = Size
  BY <1>1
<1>9. QED
  BY <1>7, <1>8 DEF Needed, Size

\* What a node needs has been built before it.
LEMMA BuiltIsClosed ==
  ASSUME BuildInv, Living, NEW m \in Built
  PROVE  Needs(m) \subseteq Built
<1>1. net \in Nets /\ m \in NodesOf(net) /\ dd[m] # NoDD
  BY DEF BuildInv, BuildTypeOK, Built
<1>2. \A l \in 1 .. Height(m) : LineDone(m, l)
  BY <1>1 DEF BuildInv, NodesOK, NodeOK
<1>3. /\ DOMAIN net.inputs[m] = 1 .. Width(m) /\ DOMAIN net.table[m] = 1 .. Height(m)
      /\ \A p \in 1 .. Width(m) : net.inputs[m][p] \in NodesOf(net)
  <2>1. net.inputs[m] \in Seq(NodesOf(net))
    BY <1>1, NetsAssumption DEF Readable
  <2>2. QED
    BY <1>1, <2>1, NetFacts DEF Width
<1>4. QED
  BY <1>2, <1>3 DEF Needs, LineDone, PinDone, Built

-----------------------------------------------------------------------------
(***************************************************************************)
(* The recursion.  An activation below the top waits for the BDD of the    *)
(* node above it, at a pin that its line constrains; no node on the stack  *)
(* has a BDD, and the lowest is the output whose turn it is.               *)
(***************************************************************************)
Waits(fr, n) ==
  /\ fr.line <= Height(fr.node) /\ fr.pin <= Width(fr.node)
  /\ net.table[fr.node][fr.line][fr.pin] # "-"
  /\ net.inputs[fr.node][fr.pin] = n

ChainOK ==
  pc = "build" =>
    /\ \A i \in DOMAIN stack : dd[stack[i].node] = NoDD
    /\ \A i \in DOMAIN stack : i # Len(stack) => Waits(stack[i], stack[i + 1].node)
    /\ stack # <<>> => stack[1].node \in {net.outputs[i] : i \in DOMAIN net.outputs}
                       /\ stack[1].node = Roots[next - 1]

\* The roots whose turn is over have their BDDs.
RootsOK ==
  /\ next <= Len(Roots) + 1
  /\ pc = "build" => \A i \in 1 .. next - 1 :
                        dd[Roots[i]] # NoDD \/ (stack # <<>> /\ i = next - 1)
  /\ pc = "print" => \A i \in 1 .. next - 1 : dd[Roots[i]] # NoDD

\* No built node needs itself.
AcyclicOK == Living => \A m \in Built : m \notin Needed(Needs(m))

RecInv == BuildInv /\ ChainOK /\ RootsOK /\ AcyclicOK /\ OverflowsOnCycles

\* The roots in terms of the two lists they are taken from.
IsBehind(r, s, t, S) ==
  /\ r \in Seq(S) /\ Len(r) = Len(s) + Len(t) /\ Len(r) \in Nat
  /\ \A i \in 1 .. Len(r) : r[i] \in S
  /\ \A i \in 1 .. Len(r) : i > Len(s) => r[i] \in {t[j] : j \in DOMAIN t}
  /\ \A j \in DOMAIN t : \E i \in 1 .. Len(r) : r[i] = t[j]

LEMMA OneBehindTheOther ==
  ASSUME NEW S, NEW s \in Seq(S), NEW t \in Seq(S)
  PROVE  IsBehind(s \o t, s, t, S)
<1>1. PICK r : r = s \o t
  OBVIOUS
<1>2. /\ r \in Seq(S) /\ Len(r) = Len(s) + Len(t) /\ Len(r) \in Nat
      /\ Len(s) \in Nat /\ Len(t) \in Nat /\ DOMAIN t = 1 .. Len(t)
      /\ \A i \in 1 .. Len(r) : r[i] \in S
      /\ \A i \in 1 .. Len(r) : i > Len(s) => r[i] = t[i - Len(s)]
  BY <1>1
<1>3. ASSUME NEW i \in 1 .. Len(r), i > Len(s) PROVE r[i] \in {t[j] : j \in DOMAIN t}
  <2>1. i - Len(s) \in DOMAIN t
    BY <1>2, <1>3
  <2>2. QED
    BY <1>2, <1>3, <2>1
<1>4. ASSUME NEW j \in DOMAIN t PROVE \E i \in 1 .. Len(r) : r[i] = t[j]
  <2>1. Len(s) + j \in 1 .. Len(r) /\ Len(s) + j > Len(s) /\ (Len(s) + j) - Len(s) = j
    BY <1>2
  <2>2. QED
    BY <1>2, <2>1
<1>5. IsBehind(r, s, t, S)
  BY <1>2, <1>3, <1>4 DEF IsBehind
<1>6. QED
  BY <1>1, <1>5

LEMMA RootsFacts ==
  ASSUME net \in Nets
  PROVE  /\ Roots \in Seq(NodesOf(net))
         /\ Len(Roots) = Len(net.pis) + Len(net.outputs) /\ Len(Roots) \in Nat
         /\ \A i \in 1 .. Len(Roots) : Roots[i] \in NodesOf(net)
         /\ \A i \in 1 .. Len(Roots) : i > Len(net.pis) =>
               Roots[i] \in {net.outputs[j] : j \in DOMAIN net.outputs}
         /\ \A j \in DOMAIN net.outputs : \E i \in 1 .. Len(Roots) : Roots[i] = net.outputs[j]
<1>1. net.pis \in Seq(NodesOf(net)) /\ net.outputs \in Seq(NodesOf(net))
  BY NetsAssumption DEF Readable
<1>2. PICK s, t, S : s = net.pis /\ t = net.outputs /\ S = NodesOf(net)
  OBVIOUS
<1>3. IsBehind(s \o t, s, t, S)
  BY <1>1, <1>2, OneBehindTheOther
<1>4. IsBehind(Roots, net.pis, net.outputs, NodesOf(net))
  BY <1>2, <1>3 DEF Roots
<1>5. QED
  BY <1>4 DEF IsBehind

\* What a constrained pin reads is needed.
LEMMA WaitsNeeds ==
  ASSUME net \in Nets, NEW fr \in Frames, NEW n, Waits(fr, n)
  PROVE  n \in Needs(fr.node)
<1>1. fr.node \in NodesOf(net) /\ fr.line \in Nat \ {0} /\ fr.pin \in Nat \ {0}
  BY DEF Frames, Gates
<1>2. /\ DOMAIN net.inputs[fr.node] = 1 .. Width(fr.node)
      /\ DOMAIN net.table[fr.node] = 1 .. Height(fr.node)
      /\ Width(fr.node) \in Nat /\ Height(fr.node) \in Nat
  <2>1. net.inputs[fr.node] \in Seq(NodesOf(net))
    BY <1>1, NetsAssumption DEF Readable
  <2>2. QED
    BY <1>1, <2>1, NetFacts DEF Width
<1>3. fr.line \in DOMAIN net.table[fr.node] /\ fr.pin \in DOMAIN net.inputs[fr.node]
  BY <1>1, <1>2 DEF Waits
<1>4. QED
  BY <1>3 DEF Waits, Needs

(***************************************************************************)
(* A call for one activation more than the network has nodes: two of them  *)
(* are of one node, which therefore needs itself.                          *)
(***************************************************************************)
LEMMA OverflowIsLoop ==
  ASSUME RecInv, pc = "build", Len(stack) = StackLimit, NEW n \in NodesOf(net),
         stack # <<>> => Waits(Top, n)
  PROVE  Loops
<1>1. net \in Nets /\ stack \in Seq(Frames) /\ Len(stack) \in Nat
  BY DEF RecInv, BuildInv, BuildTypeOK
<1>2. /\ Size \in Nat /\ Len(stack) >= Size
      /\ IsFiniteSet(NodesOf(net)) /\ Cardinality(NodesOf(net)) <= Size
      /\ Cardinality(NodesOf(net)) \in Nat
  BY <1>1, SizeFacts, StackAssumption DEF Size
<1>3. Size # 0
  BY <1>1, <1>2, SizeFacts DEF NodesOf
<1>4. stack # <<>> /\ Len(stack) \in Nat \ {0} /\ DOMAIN stack = 1 .. Len(stack)
      /\ Top = stack[Len(stack)] /\ \A i \in 1 .. Len(stack) : stack[i] \in Frames
  BY <1>1, <1>2, <1>3 DEF Top
<1> DEFINE p == [i \in 1 .. Size + 1 |-> IF i <= Len(stack) THEN stack[i].node ELSE n]
<1>5. p \in [1 .. Size + 1 -> NodesOf(net)]
  <2>1. \A i \in 1 .. Len(stack) : stack[i].node \in NodesOf(net)
    BY <1>4 DEF Frames, Gates
  <2>2. QED
    BY <1>2, <2>1
<1>6. ASSUME NEW i \in 1 .. Size PROVE p[i + 1] \in Needs(p[i])
  <2>1. i \in 1 .. Size + 1 /\ i + 1 \in 1 .. Size + 1 /\ i \in 1 .. Len(stack)
    BY <1>2
  <2>2. p[i] = stack[i].node
    BY <2>1
  <2>3. CASE i = Len(stack)
    <3>1. p[i + 1] = n
      BY <2>1, <2>3, <1>2
    <3>2. QED
      BY <1>1, <1>4, <2>1, <2>2, <2>3, <3>1, WaitsNeeds
  <2>4. CASE i # Len(stack)
    <3>1. i + 1 <= Len(stack)
      BY <2>1, <2>4, <1>2
    <3>2. p[i + 1] = stack[i + 1].node
      BY <2>1, <3>1
    <3>3. Waits(stack[i], stack[i + 1].node)
      BY <1>4, <2>1, <2>4 DEF RecInv, ChainOK
    <3>4. QED
      BY <1>1, <1>4, <2>1, <2>2, <3>2, <3>3, WaitsNeeds
  <2>5. QED
    BY <2>3, <2>4
<1>7. p[1] \in {net.outputs[i] : i \in DOMAIN net.outputs}
  <2>1. 1 \in 1 .. Size + 1 /\ 1 <= Len(stack)
    BY <1>2, <1>4
  <2>2. p[1] = stack[1].node
    BY <2>1
  <2>3. QED
    BY <1>4, <2>2 DEF RecInv, ChainOK
<1> HIDE DEF p
<1>8. \E x, y \in 1 .. Size + 1 : x < y /\ p[x] = p[y]
  <2>1. IsFiniteSet(1 .. Size + 1) /\ Cardinality(1 .. Size + 1) = Size + 1
    BY <1>2, FS_Interval
  <2>2. Cardinality(NodesOf(net)) < Cardinality(1 .. Size + 1)
    BY <1>2, <2>1
  <2>3. \E x, y \in 1 .. Size + 1 : x # y /\ p[x] = p[y]
    BY <1>2, <1>5, <2>1, <2>2, FS_PigeonHole
  <2>4. QED
    BY <1>2, <2>3
<1>9. PICK x, y \in 1 .. Size + 1 : x < y /\ p[x] = p[y]
  BY <1>8
<1>10. p[x] \in Needed({net.outputs[i] : i \in DOMAIN net.outputs})
  <2> DEFINE q == [i \in 0 .. x - 1 |-> p[i + 1]]
  <2>1. x - 1 \in 0 .. Size /\ 0 \in 0 .. x - 1 /\ x - 1 \in 0 .. x - 1 /\ (x - 1) + 1 = x
    BY <1>2
  <2>2. q[0] = p[1] /\ q[x - 1] = p[x]
    BY <2>1
  <2>3. ASSUME NEW i \in 0 .. (x - 1) - 1 PROVE q[i + 1] \in Needs(q[i])
    <3>1. i \in 0 .. x - 1 /\ i + 1 \in 0 .. x - 1 /\ i + 1 \in 1 .. Size
      BY <1>2
    <3>2. QED
      BY <3>1, <1>6
  <2> HIDE DEF q
  <2>4. QED
    BY <1>1, <1>7, <2>1, <2>2, <2>3, PathIsNeeded
<1>11. p[y] \in Needed(Needs(p[x]))
  <2> DEFINE j == (y - x) - 1
             q == [i \in 0 .. j |-> p[(x + 1) + i]]
  <2>1. /\ j \in 0 .. Size /\ 0 \in 0 .. j /\ j \in 0 .. j
        /\ (x + 1) + j = y /\ (x + 1) + 0 = x + 1 /\ x \in 1 .. Size
    BY <1>2, <1>9
  <2>2. q[0] = p[x + 1] /\ q[j] = p[y]
    BY <2>1
  <2>3. q[0] \in Needs(p[x])
    BY <2>1, <2>2, <1>6
  <2>4. ASSUME NEW i \in 0 .. j - 1 PROVE q[i + 1] \in Needs(q[i])
    <3>1. /\ i \in 0 .. j /\ i + 1 \in 0 .. j /\ (x + 1) + i \in 1 .. Size
          /\ (x + 1) + (i + 1) = ((x + 1) + i) + 1
      BY <1>2, <1>9, <2>1
    <3>2. q[i] = p[(x + 1) + i] /\ q[i + 1] = p[((x + 1) + i) + 1]
      BY <3>1
    <3> HIDE DEF q
    <3>3. QED
      BY <3>1, <3>2, <1>6
  <2> HIDE DEF q, j
  <2>5. QED
    BY <1>1, <2>1, <2>2, <2>3, <2>4, PathIsNeeded
<1>12. QED
  BY <1>9, <1>10, <1>11 DEF Loops

(***************************************************************************)
(* When every output has been built there is no loop.                      *)
(***************************************************************************)
LEMMA AllBuiltNoLoop ==
  ASSUME RecInv, Living,
         \A i \in DOMAIN net.outputs : dd[net.outputs[i]] # NoDD
  PROVE  ~Loops
<1>1. net \in Nets
  BY DEF RecInv, BuildInv, BuildTypeOK
<1>2. {net.outputs[i] : i \in DOMAIN net.outputs} \subseteq Built
  <2>1. \A i \in DOMAIN net.outputs : net.outputs[i] \in NodesOf(net)
    <3>1. net.outputs \in Seq(NodesOf(net))
      BY <1>1, NetsAssumption DEF Readable
    <3>2. QED
      BY <3>1
  <2>2. QED
    BY <2>1 DEF Built
<1>3. \A m \in Built : Needs(m) \subseteq Built
  BY BuiltIsClosed DEF RecInv
<1>4. Needed({net.outputs[i] : i \in DOMAIN net.outputs}) \subseteq Built
  BY <1>1, <1>2, <1>3, ClosedHoldsNeeded
<1>5. QED
  BY <1>4 DEF Loops, RecInv, AcyclicOK

-----------------------------------------------------------------------------
(* What the steps of the recursion do to the three conjuncts.              *)

LEMMA RecFacts ==
  ASSUME RecInv
  PROVE  /\ net \in Nets /\ stack \in Seq(Frames) /\ Len(stack) \in Nat
         /\ DOMAIN stack = 1 .. Len(stack)
         /\ \A i \in 1 .. Len(stack) : stack[i] \in Frames /\ stack[i].node \in Gates(net)
                                       /\ stack[i].node \in NodesOf(net)
         /\ dd \in [NodesOf(net) -> Functions \cup {NoDD}]
         /\ next \in Nat \ {0} /\ Len(Roots) \in Nat
         /\ \A i \in 1 .. Len(Roots) : Roots[i] \in NodesOf(net)
<1>1. /\ net \in Nets /\ stack \in Seq(Frames) /\ next \in Nat \ {0}
      /\ dd \in [NodesOf(net) -> Functions \cup {NoDD}]
  BY DEF RecInv, BuildInv, BuildTypeOK
<1>2. /\ Len(stack) \in Nat /\ DOMAIN stack = 1 .. Len(stack)
      /\ \A i \in 1 .. Len(stack) : stack[i] \in Frames
  BY <1>1
<1>3. \A fr \in Frames : fr.node \in Gates(net) /\ fr.node \in NodesOf(net)
  BY DEF Frames, Gates
<1>4. QED
  BY <1>1, <1>2, <1>3, RootsFacts


StepsFromAny ==
  net \in Nets =>
    \A S : /\ NeededWithin(S)[0] = S
           /\ \A k \in 0 .. Size - 1 :
                 NeededWithin(S)[k + 1] =
                     NeededWithin(S)[k] \cup UNION {Needs(m) : m \in NeededWithin(S)[k]}

LEMMA StepsAlways == StepsFromAny
  BY WithinSteps DEF StepsFromAny

\* Who waits, and what is needed, is a matter of the network alone.
LEMMA NeedsKept ==
  ASSUME net \in Nets, net' = net
  PROVE  /\ \A S : Needed(S)' = Needed(S)
         /\ \A m : Needs(m)' = Needs(m)
         /\ \A fr, n : Waits(fr, n)' <=> Waits(fr, n)
         /\ Roots' = Roots /\ (Loops' <=> Loops)
         /\ \A S : (\A m \in S : m \notin Needed(Needs(m)))
                   => \A m \in S : (m \notin Needed(Needs(m)))'
<1>1. \A m : Needs(m)' = Needs(m)
  BY DEF Needs
<1>2. Size \in Nat /\ Size' = Size /\ Size \in 0 .. Size
  BY SizeFacts DEF Size
<1>3. ASSUME NEW S PROVE NeededWithin(S)'[Size] = NeededWithin(S)[Size]
  <2> DEFINE T == {k \in 0 .. Size : NeededWithin(S)'[k] = NeededWithin(S)[k]}
  <2>1. /\ NeededWithin(S)[0] = S
        /\ \A k \in 0 .. Size - 1 :
              NeededWithin(S)[k + 1] =
                  NeededWithin(S)[k] \cup UNION {Needs(m) : m \in NeededWithin(S)[k]}
    BY WithinSteps
  <2>2. /\ NeededWithin(S)'[0] = S
        /\ \A k \in 0 .. Size - 1 :
              NeededWithin(S)'[k + 1] =
                  NeededWithin(S)'[k] \cup UNION {Needs(m) : m \in NeededWithin(S)'[k]}
    <3>1. StepsFromAny'
      BY StepsAlways, PTL
    <3>2. QED
      BY <3>1, <1>1, <1>2 DEF StepsFromAny
  <2>3. 0 \in T
    BY <1>2, <2>1, <2>2
  <2>4. ASSUME NEW k \in 0 .. Size - 1, k \in T PROVE k + 1 \in T
    <3>1. NeededWithin(S)'[k] = NeededWithin(S)[k] /\ k + 1 \in 0 .. Size
      BY <1>2, <2>4
    <3>2. NeededWithin(S)'[k + 1] = NeededWithin(S)[k + 1]
      BY <2>1, <2>2, <3>1
    <3>3. QED
      BY <3>1, <3>2
  <2>5. T \in SUBSET (0 .. Size)
    OBVIOUS
  <2>6. T = 0 .. Size
    <3> HIDE DEF T
    <3>1. QED
      BY <1>2, <2>3, <2>4, <2>5, UpTo
  <2>7. QED
    BY <1>2, <2>6
<1>4. \A S : Needed(S)' = Needed(S)
  BY <1>2, <1>3 DEF Needed, Size
<1>5. \A fr, n : Waits(fr, n)' <=> Waits(fr, n)
  BY DEF Waits, Height, Width
<1>6. Roots' = Roots
  BY DEF Roots
<1>7. QED
  BY <1>1, <1>4, <1>5, <1>6 DEF Loops

\* The stack without its top, with another top, and with one more.
LEMMA StackFacts ==
  ASSUME NEW S, stack \in Seq(S)
  PROVE  /\ stack # <<>> =>
              /\ Len(stack) \in Nat \ {0} /\ Len(Pop) = Len(stack) - 1 /\ Pop \in Seq(S)
              /\ \A i \in 1 .. Len(stack) - 1 : Pop[i] = stack[i]
              /\ stack = Append(Pop, Top)
         /\ \A fr \in S :
              /\ stack # <<>> =>
                   /\ Len(Update(fr)) = Len(stack) /\ Update(fr) \in Seq(S)
                   /\ Update(fr) # <<>> /\ Update(fr)[Len(stack)] = fr
                   /\ \A i \in 1 .. Len(stack) - 1 : Update(fr)[i] = stack[i]
              /\ Len(Append(stack, fr)) = Len(stack) + 1 /\ Append(stack, fr) \in Seq(S)
              /\ Append(stack, fr)[Len(stack) + 1] = fr /\ Append(stack, fr) # <<>>
              /\ \A i \in 1 .. Len(stack) : Append(stack, fr)[i] = stack[i]
<1>1. ASSUME stack # <<>>
      PROVE  /\ Len(stack) \in Nat \ {0} /\ Len(Pop) = Len(stack) - 1 /\ Pop \in Seq(S)
             /\ \A i \in 1 .. Len(stack) - 1 : Pop[i] = stack[i]
  <2>1. Len(stack) \in Nat \ {0} /\ 1 \in Int /\ Len(stack) - 1 \in 0 .. Len(stack)
        /\ \A i \in 1 .. Len(stack) : stack[i] \in S
    BY <1>1
  <2>2. Pop = [i \in 1 .. Len(stack) - 1 |-> stack[i]]
    BY <2>1 DEF Pop
  <2>3. Pop \in Seq(S) /\ Len(Pop) = Len(stack) - 1
    BY <2>1, <2>2, Len(stack) - 1 \in Nat
  <2>4. QED
    BY <2>1, <2>2, <2>3
<1>2. ASSUME stack # <<>> PROVE stack = Append(Pop, Top)
  BY <1>2 DEF Pop, Top
<1>3. ASSUME stack # <<>>, NEW fr \in S
      PROVE  /\ Len(Update(fr)) = Len(stack) /\ Update(fr) \in Seq(S)
             /\ Update(fr) # <<>> /\ Update(fr)[Len(stack)] = fr
             /\ \A i \in 1 .. Len(stack) - 1 : Update(fr)[i] = stack[i]
  <2>1. /\ Len(stack) \in Nat \ {0} /\ Len(Pop) = Len(stack) - 1 /\ Pop \in Seq(S)
        /\ \A i \in 1 .. Len(stack) - 1 : Pop[i] = stack[i]
    BY <1>1, <1>3
  <2>2. QED
    BY <2>1, <1>3 DEF Update
<1>4. ASSUME NEW fr \in S
      PROVE  /\ Len(Append(stack, fr)) = Len(stack) + 1 /\ Append(stack, fr) \in Seq(S)
             /\ Append(stack, fr)[Len(stack) + 1] = fr /\ Append(stack, fr) # <<>>
             /\ \A i \in 1 .. Len(stack) : Append(stack, fr)[i] = stack[i]
  BY <1>4
<1>5. QED
  BY <1>1, <1>2, <1>3, <1>4

\* Another frame of the same node on top: SkipPin, AndPin, EndLine.
LEMMA RecTopStep ==
  ASSUME RecInv, pc = "build", stack # <<>>, NEW fr \in Frames, fr.node = Top.node,
         stack' = Update(fr), UNCHANGED <<net, dd, next, pc>>
  PROVE  ChainOK' /\ RootsOK' /\ AcyclicOK' /\ OverflowsOnCycles'
<1>1. /\ net \in Nets /\ stack \in Seq(Frames) /\ Len(stack) \in Nat \ {0}
      /\ DOMAIN stack = 1 .. Len(stack)
  BY RecFacts
<1>2. /\ stack' \in Seq(Frames) /\ Len(stack') = Len(stack) /\ stack' # <<>>
      /\ stack'[Len(stack)] = fr /\ \A i \in 1 .. Len(stack) - 1 : stack'[i] = stack[i]
      /\ DOMAIN stack' = 1 .. Len(stack)
  <2>1. /\ Update(fr) \in Seq(Frames) /\ Len(Update(fr)) = Len(stack) /\ Update(fr) # <<>>
        /\ Update(fr)[Len(stack)] = fr
        /\ \A i \in 1 .. Len(stack) - 1 : Update(fr)[i] = stack[i]
    BY ZenonT(40), <1>1, StackFacts
  <2>2. QED
    BY <1>1, <2>1
<1>3. \A i \in 1 .. Len(stack) : stack'[i].node = stack[i].node
  BY <1>1, <1>2 DEF Top
<1>4. ChainOK'
  <2>1. \A i \in DOMAIN stack' : dd'[stack'[i].node] = NoDD
    BY <1>1, <1>2, <1>3 DEF RecInv, ChainOK
  <2>2. \A i \in DOMAIN stack' : i # Len(stack') => Waits(stack[i], stack[i + 1].node)'
    <3> SUFFICES ASSUME NEW i \in 1 .. Len(stack), i # Len(stack)
                 PROVE  Waits(stack[i], stack[i + 1].node)'
      BY <1>2
    <3>1. i \in 1 .. Len(stack) - 1 /\ i + 1 \in 1 .. Len(stack)
      BY <1>1
    <3>2. Waits(stack[i], stack[i + 1].node)
      BY <1>1 DEF RecInv, ChainOK
    <3>3. stack'[i] = stack[i] /\ stack'[i + 1].node = stack[i + 1].node
      BY <1>2, <1>3, <3>1
    <3>4. QED
      BY SMTT(40), <3>2, <3>3 DEF Waits, Height, Width
  <2>3. stack'[1].node \in {net.outputs[i] : i \in DOMAIN net.outputs}
        /\ stack'[1].node = Roots[next - 1]
    BY <1>1, <1>3 DEF RecInv, ChainOK
  <2>4. Roots' = Roots
    BY <1>1, NeedsKept
  <2>5. QED
    BY <2>1, <2>2, <2>3, <2>4 DEF ChainOK
<1>5. RootsOK'
  BY <1>1, <1>2, NeedsKept DEF RecInv, RootsOK
<1>6. AcyclicOK'
  <2>1. Built' = Built
    BY DEF Built
  <2>2. QED
    BY <1>1, <2>1, NeedsKept DEF RecInv, AcyclicOK, Living
<1>7. OverflowsOnCycles'
  BY <1>1, NeedsKept DEF RecInv, OverflowsOnCycles
<1>8. QED
  BY <1>4, <1>5, <1>6, <1>7

\* Where a call comes from: the loop over the roots, or a pin of the gate on top.
CallFrom(n) ==
  IF stack = <<>>
  THEN next <= Len(Roots) /\ n = Roots[next] /\ next' = next + 1
  ELSE Waits(Top, n) /\ next' = next

\* A gate is called: its activation waits for nothing yet.
LEMMA RecCallGate ==
  ASSUME RecInv, pc = "build", NEW n \in NodesOf(net), CallGate(n), net' = net, CallFrom(n)
  PROVE  ChainOK' /\ RootsOK' /\ AcyclicOK' /\ OverflowsOnCycles'
<1>1. /\ net \in Nets /\ stack \in Seq(Frames) /\ Len(stack) \in Nat
      /\ DOMAIN stack = 1 .. Len(stack) /\ next \in Nat \ {0} /\ Len(Roots) \in Nat
  BY RecFacts
<1>2. /\ dd' = dd /\ n \in Gates(net) /\ dd[n] = NoDD /\ Roots' = Roots /\ (Loops' <=> Loops)
      /\ next' <= Len(Roots) + 1
  BY <1>1, NeedsKept DEF CallGate, CallFrom, RecInv, RootsOK
<1>3. CASE Len(stack) = StackLimit
  <2>1. pc' = "overflow"
    BY <1>3 DEF CallGate
  <2>2. Loops
    BY <1>3, OverflowIsLoop DEF CallFrom
  <2>3. QED
    BY <1>2, <2>1, <2>2 DEF ChainOK, RootsOK, AcyclicOK, Living, OverflowsOnCycles
<1>4. CASE Len(stack) # StackLimit
  <2> DEFINE fr == [node |-> n, line |-> 1, pin |-> 1, func |-> Zero, prod |-> One]
  <2>1. pc' = "build" /\ stack' = Append(stack, fr)
    BY <1>4 DEF CallGate
  <2>2. fr \in Frames /\ fr.node = n
    BY <1>2 DEF Frames, Functions, Zero, One
  <2> HIDE DEF fr
  <2>3. /\ Len(Append(stack, fr)) = Len(stack) + 1 /\ Append(stack, fr) \in Seq(Frames)
        /\ Append(stack, fr)[Len(stack) + 1] = fr /\ Append(stack, fr) # <<>>
        /\ \A i \in 1 .. Len(stack) : Append(stack, fr)[i] = stack[i]
    BY ZenonT(40), <1>1, <2>2, StackFacts
  <2>4. /\ Len(stack') = Len(stack) + 1 /\ DOMAIN stack' = 1 .. Len(stack) + 1 /\ stack' # <<>>
        /\ stack'[Len(stack) + 1].node = n
        /\ \A i \in 1 .. Len(stack) : stack'[i] = stack[i]
    BY <2>1, <2>2, <2>3
  <2>5. \A i \in DOMAIN stack' : dd'[stack'[i].node] = NoDD
    <3>1. \A i \in 1 .. Len(stack) : dd[stack[i].node] = NoDD
      BY <1>1 DEF RecInv, ChainOK
    <3>2. \A i \in 1 .. Len(stack) + 1 : i \in 1 .. Len(stack) \/ i = Len(stack) + 1
      BY <1>1
    <3>3. QED
      BY <1>2, <2>4, <3>1, <3>2
  <2>6. \A i \in DOMAIN stack' : i # Len(stack') => Waits(stack[i], stack[i + 1].node)'
    <3> SUFFICES ASSUME NEW i \in 1 .. Len(stack)
                 PROVE  Waits(stack[i], stack[i + 1].node)'
      BY <1>1, <2>4
    <3>1. CASE i = Len(stack)
      <4>1. Waits(stack[i], n)
        BY <1>1, <3>1 DEF CallFrom, Top
      <4>2. stack'[i] = stack[i] /\ stack'[i + 1].node = n
        BY <2>4, <3>1
      <4>3. QED
        BY <4>1, <4>2 DEF Waits, Height, Width
    <3>2. CASE i # Len(stack)
      <4>1. i + 1 \in 1 .. Len(stack)
        <5>1. Len(stack) \in Nat /\ i \in 1 .. Len(stack)
          BY <1>1
        <5>2. QED
          BY <5>1, <3>2
      <4>2. Waits(stack[i], stack[i + 1].node)
        BY <1>1, <3>2 DEF RecInv, ChainOK
      <4>3. stack'[i] = stack[i] /\ stack'[i + 1].node = stack[i + 1].node
        BY <2>4, <4>1
      <4>4. QED
        BY <4>2, <4>3 DEF Waits, Height, Width
    <3>3. QED
      BY <3>1, <3>2
  <2>7. stack'[1].node \in {net.outputs[i] : i \in DOMAIN net.outputs}
        /\ stack'[1].node = Roots[next' - 1]
    <3>1. CASE stack = <<>>
      <4>1. stack'[1].node = n /\ next' - 1 = next /\ n = Roots[next] /\ next <= Len(Roots)
        BY <1>1, <2>4, <3>1 DEF CallFrom
      <4>2. next > Len(net.pis)
        <5>1. net.type[n] # "INPUT"
          BY <1>2 DEF Gates
        <5>2. Len(net.pis) \in Nat /\ \A i \in 1 .. Len(net.pis) : net.type[net.pis[i]] = "INPUT"
          BY <1>1, NetFacts
        <5>3. next <= Len(net.pis) => n = net.pis[next]
          BY <4>1, RootFacts DEF RecInv
        <5>4. QED
          BY <1>1, <5>1, <5>2, <5>3
      <4>3. next \in 1 .. Len(Roots)
        BY <1>1, <4>1
      <4>4. QED
        BY <1>1, <4>1, <4>2, <4>3, RootsFacts
    <3>2. CASE stack # <<>>
      <4>1. stack'[1] = stack[1]
        BY <1>1, <2>4, <3>2
      <4>2. QED
        BY <3>2, <4>1 DEF RecInv, ChainOK, CallFrom
    <3>3. QED
      BY <3>1, <3>2
  <2>8. ChainOK'
    BY <1>2, <2>5, <2>6, <2>7 DEF ChainOK
  <2>9. RootsOK'
    <3>1. \A i \in 1 .. next' - 1 : dd[Roots[i]] # NoDD \/ i = next' - 1
      <4>1. CASE stack = <<>>
        <5>1. \A i \in 1 .. next' - 1 : i \in 1 .. next - 1 \/ i = next' - 1
          BY <1>1, <4>1 DEF CallFrom
        <5>2. QED
          BY <4>1, <5>1 DEF RecInv, RootsOK
      <4>2. CASE stack # <<>>
        BY <4>2 DEF RecInv, RootsOK, CallFrom
      <4>3. QED
        BY <4>1, <4>2
    <3>2. QED
      BY <1>2, <2>1, <2>4, <3>1 DEF RootsOK
  <2>10. AcyclicOK'
    <3>1. Built' = Built
      BY <1>2 DEF Built
    <3>2. QED
      BY <1>1, <3>1, NeedsKept DEF RecInv, AcyclicOK, Living
  <2>11. QED
    BY <2>1, <2>8, <2>9, <2>10 DEF OverflowsOnCycles
<1>5. QED
  BY <1>3, <1>4

\* A constant or an input is called: it needs nothing.
LEMMA RecCallLeaf ==
  ASSUME RecInv, pc = "build", NEW n \in NodesOf(net), CallLeaf(n), net' = net, CallFrom(n),
         Grows, dd' \in [NodesOf(net) -> Functions \cup {NoDD}], dd'[n] # NoDD,
         \A m \in NodesOf(net) : m # n => dd'[m] = dd[m]
  PROVE  ChainOK' /\ RootsOK' /\ AcyclicOK' /\ OverflowsOnCycles'
<1>1. /\ net \in Nets /\ stack \in Seq(Frames) /\ Len(stack) \in Nat
      /\ DOMAIN stack = 1 .. Len(stack) /\ next \in Nat \ {0} /\ Len(Roots) \in Nat
      /\ \A i \in 1 .. Len(Roots) : Roots[i] \in NodesOf(net)
      /\ \A i \in 1 .. Len(stack) : stack[i].node \in Gates(net) /\ stack[i].node \in NodesOf(net)
  BY RecFacts
<1>2. /\ stack' = stack /\ pc' = "build" /\ n \notin Gates(net) /\ dd[n] = NoDD
      /\ Roots' = Roots /\ next' <= Len(Roots) + 1
  BY <1>1, NeedsKept DEF CallLeaf, CallFrom, RecInv, RootsOK
<1>3. ChainOK'
  <2>1. \A i \in DOMAIN stack : dd'[stack[i].node] = NoDD
    BY SMTT(40), <1>1, <1>2 DEF RecInv, ChainOK
  <2>2. \A i \in DOMAIN stack : i # Len(stack) => Waits(stack[i], stack[i + 1].node)'
    BY <1>2 DEF RecInv, ChainOK, Waits, Height, Width
  <2>3. stack # <<>> => next' = next
    BY DEF CallFrom
  <2>4. QED
    BY <1>2, <2>1, <2>2, <2>3 DEF RecInv, ChainOK
<1>4. RootsOK'
  <2>1. \A i \in 1 .. next' - 1 : dd'[Roots[i]] # NoDD \/ (stack # <<>> /\ i = next' - 1)
    <3>1. CASE stack = <<>>
      <4>1. ASSUME NEW i \in 1 .. next' - 1 PROVE dd'[Roots[i]] # NoDD
        <5>1. i \in 1 .. next - 1 \/ i = next
          BY <1>1, <3>1 DEF CallFrom
        <5>2. CASE i = next
          BY <3>1, <5>2 DEF CallFrom
        <5>3. CASE i \in 1 .. next - 1
          <6>1. dd[Roots[i]] # NoDD
            BY <3>1, <5>3 DEF RecInv, RootsOK
          <6>2. i \in 1 .. Len(Roots)
            BY <1>1, <3>1, <5>3 DEF CallFrom
          <6>3. QED
            BY <1>1, <6>1, <6>2 DEF Grows
        <5>4. QED
          BY <5>1, <5>2, <5>3
      <4>2. QED
        BY <4>1
    <3>2. CASE stack # <<>>
      <4>1. next' = next
        BY <3>2 DEF CallFrom
      <4>2. ASSUME NEW i \in 1 .. next - 1, dd[Roots[i]] # NoDD PROVE dd'[Roots[i]] # NoDD
        <5>1. i \in 1 .. Len(Roots)
          <6>1. next <= Len(Roots) + 1
            BY DEF RecInv, RootsOK
          <6>2. QED
            BY <1>1, <6>1
        <5>2. QED
          BY <1>1, <4>2, <5>1 DEF Grows
      <4>3. QED
        BY <3>2, <4>1, <4>2 DEF RecInv, RootsOK
    <3>3. QED
      BY <3>1, <3>2
  <2>2. QED
    BY <1>2, <2>1 DEF RootsOK
<1>5. AcyclicOK'
  <2>1. Built' = Built \cup {n}
    BY <1>2 DEF Built
  <2>2. n \notin Needed(Needs(n))
    <3>1. Needs(n) = {}
      <4>1. net.inputs[n] \in Seq(NodesOf(net)) /\ Len(net.inputs[n]) = 0
        BY <1>1, <1>2, NetFacts, NetsAssumption DEF Readable, Width
      <4>2. DOMAIN net.inputs[n] = {}
        BY <4>1
      <4>3. QED
        BY <4>2 DEF Needs
    <3>2. PICK C : C = {}
      OBVIOUS
    <3>3. C \subseteq C /\ \A m \in C : Needs(m) \subseteq C
      BY <3>2
    <3>4. Needed(C) \subseteq C
      BY <1>1, <3>3, ClosedHoldsNeeded
    <3>5. QED
      BY <3>1, <3>2, <3>4
  <2>3. \A m \in Built : m \notin Needed(Needs(m))
    BY DEF RecInv, AcyclicOK, Living
  <2>4. \A m \in Built \cup {n} : m \notin Needed(Needs(m))
    BY <2>2, <2>3
  <2>5. QED
    BY <1>1, <2>1, <2>4, NeedsKept DEF AcyclicOK
<1>6. QED
  BY <1>2, <1>3, <1>4, <1>5 DEF OverflowsOnCycles

\* A gate is done.  No other activation is of the same node: it would be waiting
\* at a pin of a line that is done.
LEMMA RecEndGate ==
  ASSUME RecInv, EndGate
  PROVE  ChainOK' /\ RootsOK' /\ AcyclicOK' /\ OverflowsOnCycles'
<1>1. PICK m, f : m = Top.node /\ f = Polar(m, Top.func)
  OBVIOUS
<1>2. /\ pc = "build" /\ pc' = "build" /\ stack # <<>> /\ stack' = Pop
      /\ dd' = [dd EXCEPT ![m] = f] /\ net' = net /\ next' = next
  BY <1>1 DEF EndGate, InGate
<1>3. /\ net \in Nets /\ stack \in Seq(Frames) /\ Len(stack) \in Nat \ {0}
      /\ DOMAIN stack = 1 .. Len(stack) /\ next \in Nat \ {0} /\ Len(Roots) \in Nat
      /\ dd \in [NodesOf(net) -> Functions \cup {NoDD}]
      /\ \A i \in 1 .. Len(Roots) : Roots[i] \in NodesOf(net)
      /\ \A i \in 1 .. Len(stack) : stack[i] \in Frames /\ stack[i].node \in NodesOf(net)
  BY <1>2, RecFacts
<1>4. /\ m \in NodesOf(net) /\ f \in Functions /\ f # NoDD
      /\ \A l \in 1 .. Height(m) : LineDone(m, l)
  <2>1. m \in Gates(net) /\ f \in Functions /\ \A l \in 1 .. Height(m) : LineDone(m, l)
    BY <1>1, GateFunction DEF RecInv
  <2>2. QED
    BY <1>3, <2>1, NetFacts DEF Gates
<1>5. /\ Roots' = Roots /\ dd[m] = NoDD /\ dd'[m] = f
      /\ \A n \in NodesOf(net) : n # m => dd'[n] = dd[n]
  BY <1>1, <1>2, <1>3, <1>4, NeedsKept DEF RecInv, ChainOK, Top
<1>6. /\ stack' \in Seq(Frames) /\ Len(stack') = Len(stack) - 1
      /\ DOMAIN stack' = 1 .. Len(stack) - 1
      /\ \A i \in 1 .. Len(stack) - 1 : stack'[i] = stack[i]
  <2>1. /\ Pop \in Seq(Frames) /\ Len(Pop) = Len(stack) - 1
        /\ \A i \in 1 .. Len(stack) - 1 : Pop[i] = stack[i]
    BY ZenonT(40), <1>2, <1>3, StackFacts
  <2>2. QED
    BY <1>2, <2>1
<1>7. Len(stack) \in Nat \ {0}
  BY <1>3
<1>8. ASSUME NEW i \in 1 .. Len(stack) - 1 PROVE stack[i].node # m
  <2>1. i \in 1 .. Len(stack) /\ i + 1 \in 1 .. Len(stack) /\ i # Len(stack)
    BY <1>7
  <2>2. Waits(stack[i], stack[i + 1].node) /\ dd[stack[i + 1].node] = NoDD
    BY ZenonT(40), <1>2, <1>3, <2>1 DEF RecInv, ChainOK
  <2>3. SUFFICES ASSUME stack[i].node = m PROVE FALSE
    OBVIOUS
  <2>4. /\ stack[i].line \in 1 .. Height(m) /\ stack[i].pin \in 1 .. Width(m)
        /\ net.table[m][stack[i].line][stack[i].pin] # "-"
        /\ dd[net.inputs[m][stack[i].pin]] = NoDD
    <3>1. stack[i].line \in Nat \ {0} /\ stack[i].pin \in Nat \ {0}
      BY ZenonT(40), <1>3, <2>1 DEF Frames
    <3>2. Height(m) \in Nat /\ Width(m) \in Nat
      BY <1>3, <1>4, NetFacts
    <3>3. QED
      BY <2>2, <2>3, <3>1, <3>2 DEF Waits
  <2>5. QED
    BY <1>4, <2>4 DEF LineDone, PinDone
<1>9. ChainOK'
  <2>1. \A i \in DOMAIN stack' : dd'[stack'[i].node] = NoDD
    <3>1. ASSUME NEW i \in 1 .. Len(stack) - 1 PROVE dd'[stack'[i].node] = NoDD
      <4>1. i \in 1 .. Len(stack)
        BY <1>3
      <4>2. dd[stack[i].node] = NoDD
        BY <1>2, <1>3, <4>1 DEF RecInv, ChainOK
      <4>3. QED
        BY <1>3, <1>5, <1>6, <1>8, <4>1, <4>2
    <3>2. QED
      BY <1>6, <3>1
  <2>2. \A i \in DOMAIN stack' : i # Len(stack') => Waits(stack[i], stack[i + 1].node)'
    <3> SUFFICES ASSUME NEW i \in 1 .. Len(stack) - 1, i # Len(stack) - 1
                 PROVE  Waits(stack[i], stack[i + 1].node)'
      BY <1>6
    <3>1. i \in 1 .. Len(stack) /\ i # Len(stack) /\ i + 1 \in 1 .. Len(stack) - 1
      BY <1>7
    <3>2. Waits(stack[i], stack[i + 1].node)
      BY ZenonT(40), <1>2, <1>3, <3>1 DEF RecInv, ChainOK
    <3>3. stack'[i] = stack[i] /\ stack'[i + 1] = stack[i + 1]
      BY <1>6, <3>1
    <3>4. QED
      BY <1>2, <3>2, <3>3 DEF Waits, Height, Width
  <2>3. stack' # <<>> => stack'[1] = stack[1]
    <3>1. stack' # <<>> => 1 \in 1 .. Len(stack) - 1
      BY <1>3, <1>6
    <3>2. QED
      BY <1>6, <3>1
  <2>4. QED
    BY <1>2, <1>5, <2>1, <2>2, <2>3 DEF RecInv, ChainOK
<1>10. RootsOK'
  <2>1. next <= Len(Roots) + 1
    BY DEF RecInv, RootsOK
  <2>2. ASSUME NEW i \in 1 .. next - 1
        PROVE  dd'[Roots[i]] # NoDD \/ (stack' # <<>> /\ i = next - 1)
    <3>1. Roots[i] \in NodesOf(net)
      BY <1>3, <2>1
    <3>2. dd[Roots[i]] # NoDD \/ i = next - 1
      BY <1>2 DEF RecInv, RootsOK
    <3>3. CASE stack' = <<>>
      <4>1. Len(stack) = 1
        <5>1. Len(stack') = 0 /\ Len(stack') = Len(stack) - 1
          BY <1>6, <3>3
        <5>2. QED
          BY <1>7, <5>1
      <4>2. Roots[next - 1] = m
        BY <1>1, <1>2, <4>1 DEF RecInv, ChainOK, Top
      <4>3. QED
        BY <1>4, <1>5, <3>1, <3>2, <4>2
    <3>4. CASE stack' # <<>>
      BY <1>4, <1>5, <3>1, <3>2, <3>4
    <3>5. QED
      BY <3>3, <3>4
  <2>3. QED
    BY <1>2, <1>5, <2>1, <2>2 DEF RootsOK
<1>11. AcyclicOK'
  <2>1. Built' = Built \cup {m} /\ m \notin Built
    BY <1>2, <1>4, <1>5 DEF Built
  <2>2. Needs(m) \subseteq Built
    <3>1. /\ DOMAIN net.inputs[m] = 1 .. Width(m) /\ DOMAIN net.table[m] = 1 .. Height(m)
          /\ \A p \in 1 .. Width(m) : net.inputs[m][p] \in NodesOf(net)
      <4>1. net.inputs[m] \in Seq(NodesOf(net))
        BY <1>3, <1>4, NetsAssumption DEF Readable
      <4>2. QED
        BY <1>3, <1>4, <4>1, NetFacts DEF Width
    <3>2. QED
      BY <1>4, <3>1 DEF Needs, LineDone, PinDone, Built
  <2>3. \A n \in Built : Needs(n) \subseteq Built
    BY <1>2, BuiltIsClosed DEF RecInv, Living
  <2>4. m \notin Needed(Needs(m))
    BY <1>3, <2>1, <2>2, <2>3, ClosedHoldsNeeded
  <2>5. \A n \in Built \cup {m} : n \notin Needed(Needs(n))
    BY <1>2, <2>4 DEF RecInv, AcyclicOK, Living
  <2>6. QED
    BY <1>2, <1>3, <2>1, <2>5, NeedsKept DEF AcyclicOK
<1>12. QED
  BY <1>2, <1>9, <1>10, <1>11 DEF OverflowsOnCycles

LEMMA RecInit == Init => RecInv
<1> SUFFICES ASSUME Init PROVE RecInv
  OBVIOUS
<1>1. BuildInv /\ net \in Nets /\ pc = "build" /\ stack = <<>> /\ next = 1
  BY BuildInit DEF Init
<1>2. Len(Roots) \in Nat
  BY <1>1, RootsFacts
<1>3. Built = {}
  BY DEF Init, Built
<1>4. QED
  BY <1>1, <1>2, <1>3 DEF RecInv, ChainOK, RootsOK, AcyclicOK, OverflowsOnCycles

LEMMA RecRoot ==
  ASSUME RecInv, Root
  PROVE  ChainOK' /\ RootsOK' /\ AcyclicOK' /\ OverflowsOnCycles'
<1> DEFINE n == Roots[next]
<1>1. /\ net \in Nets /\ next \in Nat \ {0} /\ Len(Roots) \in Nat
      /\ pc = "build" /\ stack = <<>> /\ next <= Len(Roots)
      /\ net' = net /\ next' = next + 1 /\ BuildInv
  BY RecFacts DEF Root, RecInv
<1>2. n \in NodesOf(net) /\ (next <= Len(net.pis) => n = net.pis[next])
  BY <1>1, RootFacts
<1>3. CallFrom(n)
  BY <1>1 DEF CallFrom
<1>4. dd[n] = NoDD => (net.type[n] = "INPUT" => /\ nvars + 1 \in DOMAIN net.pis
                                              /\ net.pis[nvars + 1] = n)
  <2>1. Len(net.pis) \in Nat /\ DOMAIN net.pis = 1 .. Len(net.pis) /\ nvars \in Nat
    BY <1>1, NetFacts DEF BuildInv, BuildTypeOK
  <2>2. next <= Len(net.pis) + 1 => nvars = next - 1
    BY <1>1 DEF BuildInv, InputsInOrder
  <2>3. CASE next <= Len(net.pis)
    <3>1. nvars + 1 = next /\ next \in DOMAIN net.pis
      BY <1>1, <2>1, <2>2, <2>3
    <3>2. QED
      BY <1>2, <2>3, <3>1
  <2>4. CASE next > Len(net.pis)
    BY <1>1, <1>2, <2>4, InputsBuilt
  <2>5. QED
    BY <1>1, <2>1, <2>3, <2>4
<1> HIDE DEF n
<1>5. CASE CallLeaf(n)
  <2>1. dd[n] = NoDD
    BY <1>5 DEF CallLeaf
  <2>2. /\ Grows /\ dd' \in [NodesOf(net) -> Functions \cup {NoDD}] /\ dd'[n] # NoDD
        /\ \A m \in NodesOf(net) : m # n => dd'[m] = dd[m]
    BY <1>1, <1>2, <1>4, <1>5, <2>1, CallLeafOK
  <2>3. QED
    BY <1>1, <1>2, <1>3, <1>5, <2>2, RecCallLeaf
<1>6. CASE CallGate(n)
  BY <1>1, <1>2, <1>3, <1>6, RecCallGate
<1>7. CASE dd[n] # NoDD /\ UNCHANGED <<dd, nvars, refs, stack, pc>>
  <2>1. Roots' = Roots /\ Built' = Built
    BY <1>1, <1>7, NeedsKept DEF Built
  <2>2. ChainOK'
    BY <1>1, <1>7 DEF ChainOK
  <2>3. RootsOK'
    <3>1. \A i \in 1 .. next' - 1 : i \in 1 .. next - 1 \/ i = next
      BY <1>1
    <3>2. \A i \in 1 .. next' - 1 : dd[Roots[i]] # NoDD
      BY <1>1, <1>7, <3>1 DEF RecInv, RootsOK, n
    <3>3. next' <= Len(Roots) + 1
      BY <1>1
    <3>4. QED
      BY <1>1, <1>7, <2>1, <3>2, <3>3 DEF RootsOK
  <2>4. AcyclicOK'
    BY <1>1, <1>7, <2>1, NeedsKept DEF RecInv, AcyclicOK, Living
  <2>5. QED
    BY <1>1, <1>7, <2>2, <2>3, <2>4 DEF OverflowsOnCycles
<1>8. QED
  BY <1>5, <1>6, <1>7 DEF Root, Call, n

LEMMA RecBuildFanin ==
  ASSUME RecInv, BuildFanin
  PROVE  ChainOK' /\ RootsOK' /\ AcyclicOK' /\ OverflowsOnCycles'
<1> DEFINE n == Fanin
<1>1. /\ BuildInv /\ pc = "build" /\ stack # <<>> /\ Call(n) /\ net' = net /\ next' = next
      /\ Top.line <= Height(Top.node) /\ Top.pin <= Width(Top.node)
      /\ net.table[Top.node][Top.line][Top.pin] # "-"
  BY DEF RecInv, BuildFanin, InPin, InLine, InGate, Line, Height, Width
<1>2. /\ net \in Nets /\ next \in Nat /\ next > Len(net.pis) + 1 /\ Len(net.pis) \in Nat
      /\ Top.node \in NodesOf(net) /\ Top.pin \in Nat \ {0} /\ Width(Top.node) \in Nat
  BY <1>1, TopFacts, NetFacts
<1>3. n \in NodesOf(net) /\ n = net.inputs[Top.node][Top.pin]
  BY <1>1, <1>2, NetFacts DEF Fanin
<1> HIDE DEF n
<1>4. CallFrom(n)
  BY SMTT(40), <1>1, <1>3 DEF CallFrom, Waits
<1>5. CASE CallLeaf(n)
  <2>1. dd[n] = NoDD
    BY <1>5 DEF CallLeaf
  <2>2. net.type[n] # "INPUT"
    BY SMTT(40), <1>1, <1>2, <1>3, <2>1, InputsBuilt
  <2>3. /\ Grows /\ dd' \in [NodesOf(net) -> Functions \cup {NoDD}] /\ dd'[n] # NoDD
        /\ \A m \in NodesOf(net) : m # n => dd'[m] = dd[m]
    BY <1>1, <1>3, <1>5, <2>2, CallLeafOK
  <2>4. QED
    BY <1>1, <1>3, <1>4, <1>5, <2>3, RecCallLeaf
<1>6. CASE CallGate(n)
  BY <1>1, <1>3, <1>4, <1>6, RecCallGate
<1>7. QED
  BY <1>1, <1>5, <1>6 DEF Call

\* The steps that only change the top activation.
LEMMA RecTop ==
  ASSUME RecInv, SkipPin \/ AndPin \/ EndLine
  PROVE  ChainOK' /\ RootsOK' /\ AcyclicOK' /\ OverflowsOnCycles'
<1>1. pc = "build" /\ stack # <<>> /\ UNCHANGED <<net, dd, next, pc>>
  BY DEF SkipPin, AndPin, EndLine, InPin, InLine, InGate
<1>2. /\ Top \in Frames /\ Top.line \in Nat \ {0} /\ Top.pin \in Nat \ {0}
      /\ Top.func \in Functions /\ Top.prod \in Functions
  BY <1>1, TopFacts DEF RecInv
<1>3. PICK line \in Nat \ {0}, pin \in Nat \ {0}, func \in Functions, prod \in Functions :
         stack' = Update([Top EXCEPT !.line = line, !.pin = pin, !.func = func, !.prod = prod])
  <2>1. CASE SkipPin
    <3>1. stack' = Update([Top EXCEPT !.line = Top.line, !.pin = Top.pin + 1,
                                      !.func = Top.func, !.prod = Top.prod])
      BY <1>2, <2>1 DEF SkipPin, Frames
    <3>2. Top.pin + 1 \in Nat \ {0}
      BY <1>2
    <3>3. QED
      BY <1>2, <3>1, <3>2
  <2>2. CASE AndPin
    <3> DEFINE tmp == Top.prod \cap IF Line[Top.pin] = "1" THEN dd[Fanin] ELSE Not(dd[Fanin])
    <3>1. stack' = Update([Top EXCEPT !.prod = tmp, !.pin = @ + 1])
      BY <2>2 DEF AndPin
    <3>2. tmp \in Functions /\ Top.pin + 1 \in Nat \ {0}
      BY <1>2 DEF Functions
    <3> HIDE DEF tmp
    <3>3. stack' = Update([Top EXCEPT !.line = Top.line, !.pin = Top.pin + 1,
                                      !.func = Top.func, !.prod = tmp])
      BY <1>2, <3>1 DEF Frames
    <3>4. QED
      BY <1>2, <3>2, <3>3
  <2>3. CASE EndLine
    <3> DEFINE tmp == Top.func \cup Top.prod
    <3>1. stack' = Update([Top EXCEPT !.func = tmp, !.line = @ + 1, !.pin = 1, !.prod = One])
      BY <2>3 DEF EndLine
    <3>2. tmp \in Functions /\ One \in Functions /\ Top.line + 1 \in Nat \ {0} /\ 1 \in Nat \ {0}
      BY <1>2 DEF Functions, One
    <3> HIDE DEF tmp
    <3>3. stack' = Update([Top EXCEPT !.line = Top.line + 1, !.pin = 1,
                                      !.func = tmp, !.prod = One])
      BY <1>2, <3>1 DEF Frames
    <3>4. QED
      BY <1>2, <3>2, <3>3
  <2>4. QED
    BY <2>1, <2>2, <2>3
<1>4. PICK fr : fr = [Top EXCEPT !.line = line, !.pin = pin, !.func = func, !.prod = prod]
  OBVIOUS
<1>5. fr \in Frames /\ fr.node = Top.node
  BY <1>2, <1>4 DEF Frames
<1>6. QED
  BY <1>1, <1>3, <1>4, <1>5, RecTopStep

\* No step after the building builds, and if memory has not run out all the
\* outputs are built by then.
LEMMA RecAfter ==
  ASSUME RecInv, RootsDone \/ OutOfMemory \/ PrintCover \/ FreeNetwork \/ UNCHANGED vars
  PROVE  ChainOK' /\ RootsOK' /\ AcyclicOK' /\ OverflowsOnCycles'
<1>1. /\ net \in Nets /\ next \in Nat \ {0} /\ Len(Roots) \in Nat
      /\ \A i \in 1 .. Len(Roots) : Roots[i] \in NodesOf(net)
  BY RecFacts
<1>2. net' = net /\ next' = next
  BY DEF RootsDone, OutOfMemory, PrintCover, FreeNetwork, vars
<1>3. Roots' = Roots /\ (Loops' <=> Loops)
  BY <1>1, <1>2, NeedsKept
<1>4. dd' = dd => (Living => AcyclicOK')
  <2>1. dd' = dd => Built' = Built
    BY <1>2 DEF Built
  <2>2. QED
    BY <1>1, <1>2, <2>1, NeedsKept DEF RecInv, AcyclicOK
<1>5. CASE RootsDone
  BY <1>2, <1>3, <1>4, <1>5
     DEF RootsDone, RecInv, ChainOK, RootsOK, Living, OverflowsOnCycles
<1>6. CASE OutOfMemory
  BY <1>2, <1>3, <1>4, <1>6
     DEF OutOfMemory, RecInv, ChainOK, RootsOK, Living, OverflowsOnCycles
<1>7. CASE PrintCover
  <2>1. pc = "print" /\ pc' \in {"crash", "free"} /\ dd' = dd /\ stack' = stack
    BY <1>7 DEF PrintCover
  <2>2. next > Len(Roots) => ~Loops
    <3>1. SUFFICES ASSUME next > Len(Roots) PROVE ~Loops
      OBVIOUS
    <3>2. \A i \in 1 .. Len(Roots) : dd[Roots[i]] # NoDD
      <4>1. next = Len(Roots) + 1
        BY <1>1, <3>1 DEF RecInv, RootsOK
      <4>2. QED
        BY <1>1, <2>1, <4>1 DEF RecInv, RootsOK
    <3>3. \A j \in DOMAIN net.outputs : dd[net.outputs[j]] # NoDD
      BY <1>1, <3>2, RootsFacts
    <3>4. QED
      BY <2>1, <3>3, AllBuiltNoLoop DEF Living
  <2>3. OverflowsOnCycles'
    BY <1>2, <1>3, <2>1, <2>2 DEF OverflowsOnCycles
  <2>4. QED
    BY <1>2, <1>3, <1>4, <2>1, <2>3 DEF RecInv, ChainOK, RootsOK, Living
<1>8. CASE FreeNetwork
  BY <1>2, <1>3, <1>8
     DEF FreeNetwork, RecInv, ChainOK, RootsOK, AcyclicOK, Living, OverflowsOnCycles
<1>9. CASE UNCHANGED vars
  <2>1. UNCHANGED <<net, dd, stack, next, pc>>
    BY <1>9 DEF vars
  <2>2. ChainOK'
    BY <1>3, <2>1 DEF RecInv, ChainOK, Waits, Height, Width
  <2>3. AcyclicOK'
    BY <1>4, <2>1 DEF AcyclicOK, Living
  <2>4. QED
    BY <1>3, <2>1, <2>2, <2>3 DEF RecInv, RootsOK, OverflowsOnCycles
<1>10. QED
  BY <1>5, <1>6, <1>7, <1>8, <1>9

LEMMA RecStep ==
  ASSUME RecInv, [Next]_vars
  PROVE  RecInv'
<1>1. BuildInv'
  <2>1. BuildInv
    BY DEF RecInv
  <2>2. QED
    BY <2>1, RootOK, SkipPinOK, BuildFaninOK, AndPinOK, EndLineOK, EndGateOK, AfterOK
       DEF Next, Progress
<1>2. ChainOK' /\ RootsOK' /\ AcyclicOK' /\ OverflowsOnCycles'
  BY RecRoot, RecTop, RecBuildFanin, RecEndGate, RecAfter DEF Next, Progress
<1>3. QED
  BY <1>1, <1>2 DEF RecInv

(***************************************************************************)
(* Who waits for whom, which roots are built, and that no built node needs *)
(* itself, whatever the network.                                           *)
(***************************************************************************)
THEOREM RecursionInvariant == Spec => []RecInv
<1>1. Init => RecInv
  BY RecInit
<1>2. RecInv /\ [Next]_vars => RecInv'
  BY RecStep
<1>3. QED
  BY <1>1, <1>2, PTL DEF Spec

(***************************************************************************)
(* Whatever the network, Bnet_BuildNodeBDD overflows the C stack only when *)
(* the pins that the tables constrain lead from an output into a cycle,    *)
(* and a program that has built every output has met none.                 *)
(***************************************************************************)
THEOREM OverflowExactlyOnCycles == Spec => []OverflowsOnCycles
<1>1. RecInv => OverflowsOnCycles
  BY DEF RecInv
<1>2. QED
  BY <1>1, RecursionInvariant, PTL

-----------------------------------------------------------------------------
(***************************************************************************)
(* The references: what Cudd_Ref and Cudd_RecursiveDeref do to the bag.    *)
(***************************************************************************)
Copies(bag, r) == IF BagIn(r, bag) THEN bag[r] ELSE 0

\* 1 for the BDD r, 0 for another.
Is(f, r) == IF Regular(f) = r THEN 1 ELSE 0

LEMMA CopiesType ==
  ASSUME NEW bag, IsABag(bag), NEW r
  PROVE  Copies(bag, r) \in Nat
  BY DEF IsABag, Copies, BagIn, BagToSet

LEMMA RefCounts ==
  ASSUME NEW bag, IsABag(bag), NEW f
  PROVE  /\ IsABag(Ref(bag, f))
         /\ \A r : Copies(Ref(bag, f), r) = Copies(bag, r) + Is(f, r)
<1> DEFINE x == Regular(f)
<1>1. bag \in [DOMAIN bag -> {n \in Nat : n > 0}]
  BY DEF IsABag
<1>2. Ref(bag, f) = [e \in DOMAIN bag \cup {x} |->
                        (IF e \in DOMAIN bag THEN bag[e] ELSE 0) + (IF e \in {x} THEN 1 ELSE 0)]
  BY DEF Ref, (+), SetToBag
<1> HIDE DEF x
<1>3. Ref(bag, f) \in [DOMAIN bag \cup {x} -> {n \in Nat : n > 0}]
  BY <1>1, <1>2
<1>4. IsABag(Ref(bag, f))
  BY <1>3 DEF IsABag
<1>5. ASSUME NEW r PROVE Copies(Ref(bag, f), r) = Copies(bag, r) + (IF x = r THEN 1 ELSE 0)
  BY <1>1, <1>2 DEF Copies, BagIn, BagToSet
<1>6. QED
  BY <1>4, <1>5 DEF Is, x

LEMMA DerefCounts ==
  ASSUME NEW bag, IsABag(bag), NEW f, Copies(bag, Regular(f)) > 0
  PROVE  /\ IsABag(Deref(bag, f))
         /\ \A r : Copies(Deref(bag, f), r) = Copies(bag, r) - Is(f, r)
<1> DEFINE x == Regular(f)
           less == [e \in DOMAIN bag |-> IF e \in {x} THEN bag[e] - 1 ELSE bag[e]]
<1>1. bag \in [DOMAIN bag -> {n \in Nat : n > 0}]
  BY DEF IsABag
<1>2. Deref(bag, f) = [e \in {d \in DOMAIN less : less[d] > 0} |-> less[e]]
  BY DEF Deref, (-), SetToBag
<1>3. x \in DOMAIN bag
  BY DEF Copies, BagIn, BagToSet
<1> HIDE DEF x
<1>4. \A e \in DOMAIN bag : less[e] = (IF x = e THEN bag[e] - 1 ELSE bag[e])
  BY <1>1
<1>5. less \in [DOMAIN bag -> Nat] /\ DOMAIN less = DOMAIN bag
  BY <1>1
<1> HIDE DEF less
<1>6. IsABag(Deref(bag, f))
  <2>1. Deref(bag, f) \in [{d \in DOMAIN less : less[d] > 0} -> {n \in Nat : n > 0}]
    BY <1>2, <1>5
  <2>2. QED
    BY <2>1 DEF IsABag
<1>7. ASSUME NEW r PROVE Copies(Deref(bag, f), r) = Copies(bag, r) - (IF x = r THEN 1 ELSE 0)
  <2>1. CASE r \in DOMAIN bag
    BY <1>1, <1>2, <1>4, <1>5, <2>1 DEF Copies, BagIn, BagToSet
  <2>2. CASE r \notin DOMAIN bag
    BY <1>2, <1>3, <1>5, <2>2 DEF Copies, BagIn, BagToSet
  <2>3. QED
    BY <2>1, <2>2
<1>8. QED
  BY <1>6, <1>7 DEF Is, x

-----------------------------------------------------------------------------
(***************************************************************************)
(* The holders: those on the stack, activation by activation, and the      *)
(* nodes.                                                                  *)
(***************************************************************************)
Lines(m, k, r) == Cardinality(LinesWith(m, k, r))

FrameRefs(fr, r) ==
  Is(fr.func, r) + (IF Open(fr) THEN Is(fr.prod, r) ELSE 0) + Lines(fr.node, fr.line - 1, r)

StackRefs(s, r) ==
  Cardinality(BySums(s, r)) + Cardinality(ByProducts(s, r)) + Cardinality(LeftByFrames(s, r))

NodeRefs(r) == Cardinality(ByNodes(r)) + Cardinality(LeftByNodes(r))

\* Two finite sets with nothing in common.
LEMMA Apart ==
  ASSUME NEW S, NEW T, IsFiniteSet(S), IsFiniteSet(T), S \cap T = {}
  PROVE  /\ IsFiniteSet(S \cup T) /\ Cardinality(S \cup T) = Cardinality(S) + Cardinality(T)
         /\ Cardinality(S) \in Nat /\ Cardinality(T) \in Nat
<1>1. PICK U : U = S \cap T
  OBVIOUS
<1>2. Cardinality(U) = 0
  BY <1>1, FS_EmptySet
<1>3. Cardinality(S) \in Nat /\ Cardinality(T) \in Nat
  BY FS_CardinalityType
<1>4. /\ IsFiniteSet(S \cup T)
      /\ Cardinality(S \cup T) = Cardinality(S) + Cardinality(T) - Cardinality(U)
  BY <1>1, FS_Union
<1>5. QED
  BY <1>2, <1>3, <1>4

LEMMA PairsCounted ==
  ASSUME NEW i, NEW P, IsFiniteSet(P)
  PROVE  IsFiniteSet({i} \X P) /\ Cardinality({i} \X P) = Cardinality(P)
<1>1. IsFiniteSet({i}) /\ Cardinality({i}) = 1
  BY FS_Singleton
<1>2. Cardinality(P) \in Nat
  BY FS_CardinalityType
<1>3. IsFiniteSet({i} \X P) /\ Cardinality({i} \X P) = 1 * Cardinality(P)
  BY <1>1, FS_Product
<1>4. QED
  BY <1>2, <1>3

LEMMA LinesFinite ==
  ASSUME NEW m, NEW k \in Int, NEW r
  PROVE  IsFiniteSet(LinesWith(m, k, r)) /\ Lines(m, k, r) \in Nat
<1>1. IsFiniteSet(1 .. k)
  BY FS_Interval
<1>2. LinesWith(m, k, r) \in SUBSET (1 .. k)
  BY DEF LinesWith
<1>3. IsFiniteSet(LinesWith(m, k, r))
  BY <1>1, <1>2, FS_Subset
<1>4. QED
  BY <1>3, FS_CardinalityType DEF Lines

\* An element more.
LEMMA OneMore ==
  ASSUME NEW S, IsFiniteSet(S), NEW x, x \notin S, NEW P \in BOOLEAN
  PROVE  /\ IsFiniteSet(S \cup (IF P THEN {x} ELSE {}))
         /\ Cardinality(S \cup (IF P THEN {x} ELSE {})) =
               Cardinality(S) + (IF P THEN 1 ELSE 0)
<1>1. CASE P
  <2>1. S \cup (IF P THEN {x} ELSE {}) = S \cup {x}
    BY <1>1
  <2>2. QED
    BY <1>1, <2>1, FS_AddElement
<1>2. CASE ~P
  <2>1. S \cup (IF P THEN {x} ELSE {}) = S
    BY <1>2
  <2>2. Cardinality(S) \in Nat
    BY FS_CardinalityType
  <2>3. QED
    BY <1>2, <2>1, <2>2
<1>3. QED
  BY <1>1, <1>2

\* The holders on a stack of which some frames are the top.
LEMMA StackRefsFinite ==
  ASSUME NEW s \in Seq(Frames), NEW r
  PROVE  /\ IsFiniteSet(BySums(s, r)) /\ IsFiniteSet(ByProducts(s, r))
         /\ IsFiniteSet(LeftByFrames(s, r))
         /\ StackRefs(s, r) \in Nat
<1>1. Len(s) \in Nat /\ DOMAIN s = 1 .. Len(s) /\ \A i \in DOMAIN s : s[i] \in Frames
  OBVIOUS
<1>2. IsFiniteSet(DOMAIN s)
  BY <1>1, FS_Interval
<1>3. BySums(s, r) \in SUBSET DOMAIN s /\ ByProducts(s, r) \in SUBSET DOMAIN s
  BY DEF BySums, ByProducts
<1>4. IsFiniteSet(BySums(s, r)) /\ IsFiniteSet(ByProducts(s, r))
  BY <1>2, <1>3, FS_Subset
<1>5. IsFiniteSet(LeftByFrames(s, r))
  <2> DEFINE Of(i) == {i} \X LinesWith(s[i].node, s[i].line - 1, r)
             all == {Of(i) : i \in DOMAIN s}
  <2>1. \A i \in DOMAIN s : IsFiniteSet(Of(i))
    <3> SUFFICES ASSUME NEW i \in DOMAIN s PROVE IsFiniteSet(Of(i))
      OBVIOUS
    <3>1. s[i].line - 1 \in Int
      BY <1>1 DEF Frames
    <3>2. QED
      BY <3>1, LinesFinite, PairsCounted
  <2> HIDE DEF Of
  <2>2. IsFiniteSet(all)
    <3> DEFINE g == [i \in DOMAIN s |-> Of(i)]
    <3>1. g \in Surjection(DOMAIN s, all)
      BY Zenon DEF Surjection
    <3>2. QED
      BY <1>2, <3>1, FS_Surjection
  <2>3. \A T \in all : IsFiniteSet(T)
    BY <2>1
  <2>4. LeftByFrames(s, r) = UNION all
    BY DEF LeftByFrames, Of
  <2> HIDE DEF all
  <2>5. QED
    BY <2>2, <2>3, <2>4, FS_UNION
<1>6. QED
  BY <1>4, <1>5, FS_CardinalityType DEF StackRefs

LEMMA StackRefsAppend ==
  ASSUME NEW t \in Seq(Frames), NEW fr \in Frames, NEW r
  PROVE  /\ StackRefs(Append(t, fr), r) = StackRefs(t, r) + FrameRefs(fr, r)
         /\ FrameRefs(fr, r) \in Nat
<1> DEFINE k == Len(t) + 1
           s == Append(t, fr)
<1>1. /\ Len(t) \in Nat /\ DOMAIN t = 1 .. Len(t) /\ k \in Nat /\ k \notin DOMAIN t
      /\ DOMAIN s = DOMAIN t \cup {k} /\ s[k] = fr /\ \A i \in DOMAIN t : s[i] = t[i]
  OBVIOUS
<1>2. fr.line - 1 \in Int
  BY DEF Frames
<1> HIDE DEF k, s
<1>3. Cardinality(BySums(s, r)) = Cardinality(BySums(t, r)) + Is(fr.func, r)
  <2>1. PICK P \in BOOLEAN : P <=> Regular(fr.func) = r
    OBVIOUS
  <2>2. BySums(s, r) = BySums(t, r) \cup (IF P THEN {k} ELSE {})
    BY <1>1, <2>1 DEF BySums
  <2>3. k \notin BySums(t, r) /\ IsFiniteSet(BySums(t, r))
    BY <1>1, StackRefsFinite DEF BySums
  <2>4. Cardinality(BySums(s, r)) = Cardinality(BySums(t, r)) + (IF P THEN 1 ELSE 0)
    BY <2>2, <2>3, OneMore
  <2>5. QED
    BY <2>1, <2>4 DEF Is
<1>4. Cardinality(ByProducts(s, r)) =
        Cardinality(ByProducts(t, r)) + (IF Open(fr) THEN Is(fr.prod, r) ELSE 0)
  <2>1. PICK P \in BOOLEAN : P <=> Open(fr) /\ Regular(fr.prod) = r
    OBVIOUS
  <2>2. ByProducts(s, r) = ByProducts(t, r) \cup (IF P THEN {k} ELSE {})
    BY <1>1, <2>1 DEF ByProducts
  <2>3. k \notin ByProducts(t, r) /\ IsFiniteSet(ByProducts(t, r))
    BY <1>1, StackRefsFinite DEF ByProducts
  <2>4. Cardinality(ByProducts(s, r)) = Cardinality(ByProducts(t, r)) + (IF P THEN 1 ELSE 0)
    BY <2>2, <2>3, OneMore
  <2>5. QED
    BY <2>1, <2>4 DEF Is
<1>5. Cardinality(LeftByFrames(s, r)) =
        Cardinality(LeftByFrames(t, r)) + Lines(fr.node, fr.line - 1, r)
  <2> DEFINE new == {k} \X LinesWith(fr.node, fr.line - 1, r)
  <2>1. IsFiniteSet(new) /\ Cardinality(new) = Lines(fr.node, fr.line - 1, r)
    BY <1>2, LinesFinite, PairsCounted DEF Lines
  <2>2. LeftByFrames(s, r) = LeftByFrames(t, r) \cup new
    <3> DEFINE Of(q, i) == {i} \X LinesWith(q[i].node, q[i].line - 1, r)
    <3>1. \A i \in DOMAIN t : Of(s, i) = Of(t, i)
      BY <1>1
    <3>2. Of(s, k) = new
      BY <1>1
    <3>3. /\ LeftByFrames(s, r) = UNION {Of(s, i) : i \in DOMAIN s}
          /\ LeftByFrames(t, r) = UNION {Of(t, i) : i \in DOMAIN t}
      BY DEF LeftByFrames
    <3> HIDE DEF Of, new
    <3>4. QED
      BY <1>1, <3>1, <3>2, <3>3
  <2>3. LeftByFrames(t, r) \cap new = {}
    BY <1>1 DEF LeftByFrames
  <2>4. IsFiniteSet(LeftByFrames(t, r))
    BY StackRefsFinite
  <2> HIDE DEF new
  <2>5. QED
    BY <2>1, <2>2, <2>3, <2>4, Apart
<1>6. /\ Cardinality(BySums(t, r)) \in Nat /\ Cardinality(ByProducts(t, r)) \in Nat
      /\ Cardinality(LeftByFrames(t, r)) \in Nat /\ Lines(fr.node, fr.line - 1, r) \in Nat
      /\ Is(fr.func, r) \in Nat /\ Is(fr.prod, r) \in Nat
  BY <1>2, LinesFinite, StackRefsFinite, FS_CardinalityType DEF Is
<1>7. QED
  BY SMTT(40), <1>3, <1>4, <1>5, <1>6 DEF StackRefs, FrameRefs, s

\* The holders among the nodes.
LEMMA NodeRefsFinite ==
  ASSUME net \in Nets, NEW r
  PROVE  /\ IsFiniteSet(ByNodes(r)) /\ IsFiniteSet(LeftByNodes(r)) /\ NodeRefs(r) \in Nat
<1>1. IsFiniteSet(NodesOf(net)) /\ ByNodes(r) \in SUBSET NodesOf(net)
  BY SizeFacts DEF ByNodes, Built
<1>2. IsFiniteSet(ByNodes(r))
  BY <1>1, FS_Subset
<1>3. IsFiniteSet(LeftByNodes(r))
  <2> DEFINE Of(m) == {m} \X LinesWith(m, Len(net.table[m]), r)
             D == Built \cap Gates(net)
             all == {Of(m) : m \in D}
  <2>1. \A m \in D : IsFiniteSet(Of(m))
    <3> SUFFICES ASSUME NEW m \in D PROVE IsFiniteSet(Of(m))
      OBVIOUS
    <3>1. Len(net.table[m]) \in Int
      BY NetFacts DEF Built, Height
    <3>2. QED
      BY <3>1, LinesFinite, PairsCounted
  <2>2. IsFiniteSet(D)
    <3>1. D \in SUBSET NodesOf(net)
      BY DEF Built
    <3>2. QED
      BY <1>1, <3>1, FS_Subset
  <2>3. LeftByNodes(r) = UNION all
    BY DEF LeftByNodes
  <2> HIDE DEF Of, D
  <2>4. IsFiniteSet(all)
    <3> DEFINE g == [m \in D |-> Of(m)]
    <3>1. g \in Surjection(D, all)
      BY Zenon DEF Surjection
    <3>2. QED
      BY <2>2, <3>1, FS_Surjection
  <2>5. \A T \in all : IsFiniteSet(T)
    BY <2>1
  <2> HIDE DEF all
  <2>6. QED
    BY <2>3, <2>4, <2>5, FS_UNION
<1>4. QED
  BY <1>2, <1>3, FS_CardinalityType DEF NodeRefs

-----------------------------------------------------------------------------
(* Building more nodes changes nothing for what is held on the stack.      *)

LEMMA LinesKept ==
  ASSUME net \in Nets, Grows, NEW m \in NodesOf(net), NEW k \in 0 .. Height(m),
         \A l \in 1 .. k : LineDone(m, l)
  PROVE  \A r : LinesWith(m, k, r)' = LinesWith(m, k, r) /\ Lines(m, k, r)' = Lines(m, k, r)
<1>1. net' = net /\ Assignments' = Assignments /\ Height(m) \in Nat
  BY NetFacts DEF Grows, Assignments
<1>2. ASSUME NEW l \in 1 .. k PROVE LineProduct(m, l)' = LineProduct(m, l)
  <2>1. l \in 1 .. Height(m)
    BY <1>1
  <2>2. \A a : Matches(m, net.table[m][l], a)' <=> Matches(m, net.table[m][l], a)
    BY <1>2, <2>1, LineKept
  <2>3. QED
    BY <1>1, <2>2 DEF LineProduct
<1>3. \A f : Regular(f)' = Regular(f)
  BY <1>1 DEF Regular, Not
<1>4. \A r : LinesWith(m, k, r)' = LinesWith(m, k, r)
  BY <1>2, <1>3 DEF LinesWith
<1>5. QED
  BY <1>4 DEF Lines

LEMMA RegularKept ==
  ASSUME net' = net
  PROVE  /\ Functions' = Functions /\ \A f : Regular(f)' = Regular(f)
         /\ \A f, r : Is(f, r)' = Is(f, r)
  BY DEF Functions, Assignments, Regular, Not, Is

LEMMA StackRefsKept ==
  ASSUME net \in Nets, Grows, NEW s \in Seq(Frames), \A i \in DOMAIN s : FrameOK(s[i]), NEW r
  PROVE  StackRefs(s, r)' = StackRefs(s, r)
<1>1. net' = net /\ \A f : Regular(f)' = Regular(f)
  BY RegularKept DEF Grows
<1>2. BySums(s, r)' = BySums(s, r) /\ ByProducts(s, r)' = ByProducts(s, r)
  BY <1>1 DEF BySums, ByProducts, Open
<1>3. \A i \in DOMAIN s : LinesWith(s[i].node, s[i].line - 1, r)'
                            = LinesWith(s[i].node, s[i].line - 1, r)
  <2> SUFFICES ASSUME NEW i \in DOMAIN s
               PROVE  LinesWith(s[i].node, s[i].line - 1, r)'
                        = LinesWith(s[i].node, s[i].line - 1, r)
    OBVIOUS
  <2>1. PICK fr \in Frames : fr = s[i]
    OBVIOUS
  <2>2. fr.node \in NodesOf(net) /\ fr.line \in Nat \ {0} /\ FrameOK(fr)
    BY <2>1 DEF Frames, Gates
  <2>3. Height(fr.node) \in Nat
    BY <2>2, NetFacts
  <2>4. fr.line - 1 \in 0 .. Height(fr.node) /\ \A l \in 1 .. fr.line - 1 : LineDone(fr.node, l)
    BY <2>2, <2>3 DEF FrameOK
  <2>5. PICK k : k = fr.line - 1
    OBVIOUS
  <2>6. LinesWith(fr.node, k, r)' = LinesWith(fr.node, k, r)
    BY <2>2, <2>4, <2>5, LinesKept
  <2>7. QED
    BY <2>1, <2>5, <2>6
<1>4. LeftByFrames(s, r)' = LeftByFrames(s, r)
  BY <1>3 DEF LeftByFrames
<1>5. QED
  BY <1>2, <1>4 DEF StackRefs

\* Nothing is built.
LEMMA NodeRefsKept ==
  ASSUME UNCHANGED <<net, dd>>, NEW r
  PROVE  NodeRefs(r)' = NodeRefs(r)
<1>1. Built' = Built
  BY DEF Built
<1>2. \A m, k : LinesWith(m, k, r)' = LinesWith(m, k, r)
  BY DEF LinesWith, Regular, Not, Assignments, LineProduct, Matches, PinMatches
<1>3. ByNodes(r)' = ByNodes(r)
  BY <1>1, RegularKept DEF ByNodes
<1>4. LeftByNodes(r)' = LeftByNodes(r)
  BY <1>1, <1>2 DEF LeftByNodes
<1>5. QED
  BY <1>3, <1>4 DEF NodeRefs

\* A node is built: it holds its BDD, and a gate leaves the products of its lines.
LEMMA NodeRefsBuilt ==
  ASSUME BuildInv, Living, NEW n \in NodesOf(net), dd[n] = NoDD,
         \A l \in 1 .. Height(n) : LineDone(n, l),
         NEW f \in Functions, dd' = [dd EXCEPT ![n] = f], net' = net, NEW r
  PROVE  NodeRefs(r)' = NodeRefs(r) + Is(f, r)
                        + (IF n \in Gates(net) THEN Lines(n, Height(n), r) ELSE 0)
<1>1. /\ net \in Nets /\ dd \in [NodesOf(net) -> Functions \cup {NoDD}] /\ f # NoDD
      /\ Height(n) \in Nat /\ n \notin Built
  BY NetFacts DEF BuildInv, BuildTypeOK, Built
<1>2. /\ Grows /\ dd'[n] = f /\ Built' = Built \cup {n}
      /\ \A m \in Built : m \in NodesOf(net) /\ m # n /\ dd'[m] = dd[m]
  BY <1>1 DEF Grows, Built
<1>3. \A m \in Built : /\ Height(m) \in Nat
                       /\ LinesWith(m, Height(m), r)' = LinesWith(m, Height(m), r)
  <2> SUFFICES ASSUME NEW m \in Built
               PROVE  /\ Height(m) \in Nat
                      /\ LinesWith(m, Height(m), r)' = LinesWith(m, Height(m), r)
    OBVIOUS
  <2>1. m \in NodesOf(net) /\ \A l \in 1 .. Height(m) : LineDone(m, l)
    BY DEF Built, BuildInv, NodesOK, NodeOK
  <2>2. PICK k : k = Height(m)
    OBVIOUS
  <2>3. k \in Nat /\ k \in 0 .. Height(m) /\ Height(m)' = k
    BY <1>1, <1>2, <2>1, <2>2, NetFacts DEF Height
  <2>4. LinesWith(m, k, r)' = LinesWith(m, k, r)
    BY <1>1, <1>2, <2>1, <2>2, <2>3, LinesKept
  <2>5. QED
    BY <2>2, <2>3, <2>4
<1>4. LinesWith(n, Height(n), r)' = LinesWith(n, Height(n), r)
  <2>1. PICK k : k = Height(n)
    OBVIOUS
  <2>2. k \in 0 .. Height(n) /\ Height(n)' = k
    BY <1>1, <2>1 DEF Height
  <2>3. LinesWith(n, k, r)' = LinesWith(n, k, r)
    BY <1>1, <1>2, <2>1, <2>2, LinesKept
  <2>4. QED
    BY <2>1, <2>2, <2>3
<1>5. Cardinality(ByNodes(r)') = Cardinality(ByNodes(r)) + Is(f, r)
  <2>1. PICK P \in BOOLEAN : P <=> Regular(f) = r
    OBVIOUS
  <2>2. ByNodes(r)' = ByNodes(r) \cup (IF P THEN {n} ELSE {})
    BY <1>2, <2>1, RegularKept DEF ByNodes
  <2>3. n \notin ByNodes(r) /\ IsFiniteSet(ByNodes(r))
    BY <1>1, NodeRefsFinite DEF ByNodes
  <2>4. Cardinality(ByNodes(r)') = Cardinality(ByNodes(r)) + (IF P THEN 1 ELSE 0)
    BY <2>2, <2>3, OneMore
  <2>5. QED
    BY <2>1, <2>4 DEF Is
<1>6. Cardinality(LeftByNodes(r)') =
        Cardinality(LeftByNodes(r)) + (IF n \in Gates(net) THEN Lines(n, Height(n), r) ELSE 0)
  <2> DEFINE Of(m) == {m} \X LinesWith(m, Height(m), r)
  <2>1. LeftByNodes(r) = UNION {Of(m) : m \in Built \cap Gates(net)}
    BY DEF LeftByNodes, Height
  <2>2. LeftByNodes(r)' = UNION {Of(m) : m \in (Built \cup {n}) \cap Gates(net)}
    <3>1. \A m \in Built \cup {n} :
             ({m} \X LinesWith(m, Len(net.table[m]), r))' = Of(m)
      BY <1>3, <1>4 DEF Height
    <3>2. LeftByNodes(r)' =
            UNION {({m} \X LinesWith(m, Len(net.table[m]), r))' :
                      m \in (Built \cup {n}) \cap Gates(net)}
      BY <1>2 DEF LeftByNodes
    <3> HIDE DEF Of
    <3>3. QED
      BY <3>1, <3>2
  <2>3. IsFiniteSet(LeftByNodes(r)) /\ Cardinality(LeftByNodes(r)) \in Nat
    BY <1>1, NodeRefsFinite, FS_CardinalityType
  <2>4. CASE n \in Gates(net)
    <3>1. LeftByNodes(r)' = LeftByNodes(r) \cup Of(n)
      <4> HIDE DEF Of
      <4>1. QED
        BY <2>1, <2>2, <2>4
    <3>2. LeftByNodes(r) \cap Of(n) = {}
      BY <1>1, <2>1
    <3>3. IsFiniteSet(Of(n)) /\ Cardinality(Of(n)) = Lines(n, Height(n), r)
      BY <1>1, LinesFinite, PairsCounted DEF Lines
    <3> HIDE DEF Of
    <3>4. QED
      BY <2>3, <2>4, <3>1, <3>2, <3>3, Apart
  <2>5. CASE n \notin Gates(net)
    <3>1. LeftByNodes(r)' = LeftByNodes(r)
      <4>1. (Built \cup {n}) \cap Gates(net) = Built \cap Gates(net)
        BY <2>5
      <4> HIDE DEF Of
      <4>2. QED
        BY <2>1, <2>2, <4>1
    <3>2. QED
      BY <2>3, <2>5, <3>1
  <2>6. QED
    BY <2>4, <2>5
<1>7. /\ Cardinality(ByNodes(r)) \in Nat /\ Cardinality(LeftByNodes(r)) \in Nat
      /\ Is(f, r) \in Nat /\ Lines(n, Height(n), r) \in Nat
  BY <1>1, NodeRefsFinite, FS_CardinalityType, LinesFinite DEF Is
<1>8. QED
  BY <1>5, <1>6, <1>7 DEF NodeRefs

-----------------------------------------------------------------------------
(***************************************************************************)
(* The accounts, in these terms, and what a step must do to them.          *)
(***************************************************************************)
Regulars == {Regular(f) : f \in Functions}

AccountOK ==
  Living => /\ IsABag(refs)
            /\ \A r \in Regulars : Copies(refs, r) = NodeRefs(r) + StackRefs(stack, r)

RefsInv == RecInv /\ AccountOK

LEMMA StackRefsSame ==
  ASSUME UNCHANGED <<net, dd>>
  PROVE  \A s, r : StackRefs(s, r)' = StackRefs(s, r)
<1>1. \A m, k, r : LinesWith(m, k, r)' = LinesWith(m, k, r)
  BY DEF LinesWith, Regular, Not, Assignments, LineProduct, Matches, PinMatches
<1>2. \A s, r : BySums(s, r)' = BySums(s, r) /\ ByProducts(s, r)' = ByProducts(s, r)
  BY RegularKept DEF BySums, ByProducts, Open
<1>3. \A s, r : LeftByFrames(s, r)' = LeftByFrames(s, r)
  BY <1>1 DEF LeftByFrames
<1>4. QED
  BY <1>2, <1>3 DEF StackRefs

LEMMA RefsFacts ==
  ASSUME RefsInv, Living
  PROVE  /\ BuildInv /\ net \in Nets /\ stack \in Seq(Frames) /\ IsABag(refs)
         /\ \A r : /\ Copies(refs, r) \in Nat /\ NodeRefs(r) \in Nat /\ StackRefs(stack, r) \in Nat
         /\ \A f : \A r : Is(f, r) \in {0, 1}
         /\ \A f \in Functions : Regular(f) \in Regulars /\ Is(f, Regular(f)) = 1
<1>1. BuildInv /\ net \in Nets /\ stack \in Seq(Frames) /\ IsABag(refs)
  BY DEF RefsInv, RecInv, AccountOK, BuildInv, BuildTypeOK
<1>2. \A r : Copies(refs, r) \in Nat /\ NodeRefs(r) \in Nat /\ StackRefs(stack, r) \in Nat
  BY <1>1, CopiesType, NodeRefsFinite, StackRefsFinite
<1>3. QED
  BY <1>1, <1>2 DEF Is, Regulars

\* What the top activation holds is held.
LEMMA TopHeld ==
  ASSUME RefsInv, pc = "build", stack # <<>>
  PROVE  /\ Pop \in Seq(Frames) /\ Top \in Frames
         /\ \A r : /\ FrameRefs(Top, r) \in Nat /\ StackRefs(Pop, r) \in Nat
                   /\ StackRefs(stack, r) = StackRefs(Pop, r) + FrameRefs(Top, r)
         /\ \A r \in Regulars : Copies(refs, r) >= FrameRefs(Top, r)
<1>1. Living /\ BuildInv /\ stack \in Seq(Frames)
  BY RefsFacts DEF Living
<1>2. Top \in Frames
  BY <1>1, TopFacts
<1>3. Pop \in Seq(Frames) /\ stack = Append(Pop, Top)
  BY <1>1, StackFacts
<1>4. ASSUME NEW r
      PROVE  /\ FrameRefs(Top, r) \in Nat /\ StackRefs(Pop, r) \in Nat
             /\ StackRefs(stack, r) = StackRefs(Pop, r) + FrameRefs(Top, r)
  <2>1. PICK t \in Seq(Frames), fr \in Frames : t = Pop /\ fr = Top /\ stack = Append(t, fr)
    BY <1>2, <1>3
  <2>2. /\ StackRefs(Append(t, fr), r) = StackRefs(t, r) + FrameRefs(fr, r)
        /\ FrameRefs(fr, r) \in Nat /\ StackRefs(t, r) \in Nat
    BY StackRefsAppend, StackRefsFinite
  <2>3. QED
    BY <2>1, <2>2
<1>5. ASSUME NEW r \in Regulars PROVE Copies(refs, r) >= FrameRefs(Top, r)
  <2>1. Copies(refs, r) = NodeRefs(r) + StackRefs(stack, r) /\ NodeRefs(r) \in Nat
    BY <1>1, RefsFacts DEF RefsInv, AccountOK
  <2>2. QED
    BY <2>1, <1>4
<1>6. QED
  BY <1>2, <1>3, <1>4, <1>5

\* The top activation exchanges what it holds.
LEMMA AccountTop ==
  ASSUME RefsInv, pc = "build", stack # <<>>, NEW fr \in Frames, stack' = Update(fr),
         UNCHANGED <<net, dd, pc>>, IsABag(refs'),
         \A r \in Regulars :
            Copies(refs', r) + FrameRefs(Top, r) = Copies(refs, r) + FrameRefs(fr, r)
  PROVE  AccountOK'
<1>1. /\ Regulars' = Regulars /\ Living
      /\ \A r : NodeRefs(r)' = NodeRefs(r) /\ \A s : StackRefs(s, r)' = StackRefs(s, r)
  BY RegularKept, NodeRefsKept, StackRefsSame DEF Regulars, Living
<1>2. ASSUME NEW r \in Regulars
      PROVE  Copies(refs', r) = NodeRefs(r) + StackRefs(stack', r)
  <2>1. /\ StackRefs(stack, r) = StackRefs(Pop, r) + FrameRefs(Top, r)
        /\ FrameRefs(Top, r) \in Nat /\ StackRefs(Pop, r) \in Nat /\ Pop \in Seq(Frames)
    BY TopHeld
  <2>2. PICK t \in Seq(Frames) : t = Pop /\ stack' = Append(t, fr)
    BY <2>1 DEF Update
  <2>3. StackRefs(Append(t, fr), r) = StackRefs(t, r) + FrameRefs(fr, r)
        /\ FrameRefs(fr, r) \in Nat
    BY StackRefsAppend
  <2>4. /\ Copies(refs, r) = NodeRefs(r) + StackRefs(stack, r)
        /\ NodeRefs(r) \in Nat /\ Copies(refs, r) \in Nat /\ Copies(refs', r) \in Nat
    BY <1>1, RefsFacts, CopiesType DEF RefsInv, AccountOK
  <2>5. Copies(refs', r) + FrameRefs(Top, r) = Copies(refs, r) + FrameRefs(fr, r)
    BY <1>2
  <2>6. StackRefs(stack', r) = StackRefs(Pop, r) + FrameRefs(fr, r)
    BY <2>2, <2>3
  <2>7. PICK c \in Nat, d \in Nat, n \in Nat, p \in Nat, h \in Nat, g \in Nat :
          /\ c = Copies(refs, r) /\ d = Copies(refs', r) /\ n = NodeRefs(r)
          /\ p = StackRefs(Pop, r) /\ h = FrameRefs(Top, r) /\ g = FrameRefs(fr, r)
    BY <2>1, <2>3, <2>4
  <2>8. c = n + (p + h) /\ d + h = c + g
    BY <2>1, <2>4, <2>5, <2>7
  <2>9. d = n + (p + g)
    BY <2>8
  <2>10. QED
    BY <2>6, <2>7, <2>9
<1>3. \A r \in Regulars' : Copies(refs', r) = NodeRefs(r)' + StackRefs(stack, r)'
  <2>1. PICK s : s = stack'
    OBVIOUS
  <2>2. \A r : StackRefs(s, r)' = StackRefs(s, r)
    BY <1>1
  <2>3. QED
    BY <1>1, <1>2, <2>1, <2>2
<1>4. QED
  BY <1>3 DEF AccountOK, Copies

\* One line more.
LEMMA NextLines ==
  ASSUME NEW m, NEW k \in Nat \ {0}, NEW r
  PROVE  Lines(m, k, r) = Lines(m, k - 1, r) + Is(LineProduct(m, k), r)
<1>1. 1 .. k = 1 .. (k - 1) \cup {k} /\ k \notin 1 .. (k - 1)
  OBVIOUS
<1>2. PICK P \in BOOLEAN : P <=> Regular(LineProduct(m, k)) = r
  OBVIOUS
<1>3. /\ LinesWith(m, k, r) = LinesWith(m, k - 1, r) \cup (IF P THEN {k} ELSE {})
      /\ k \notin LinesWith(m, k - 1, r)
  BY <1>1, <1>2 DEF LinesWith
<1>4. IsFiniteSet(LinesWith(m, k - 1, r))
  BY LinesFinite
<1>5. Cardinality(LinesWith(m, k, r)) =
        Cardinality(LinesWith(m, k - 1, r)) + (IF P THEN 1 ELSE 0)
  BY <1>3, <1>4, OneMore
<1>6. QED
  BY <1>2, <1>5 DEF Lines, Is

LEMMA AccountSkipPin ==
  ASSUME RefsInv, SkipPin
  PROVE  AccountOK'
<1> DEFINE fr == [Top EXCEPT !.pin = @ + 1]
<1>1. /\ pc = "build" /\ stack # <<>> /\ stack' = Update(fr) /\ refs' = refs
      /\ UNCHANGED <<net, dd, pc>> /\ BuildInv /\ Living
  BY DEF SkipPin, InPin, InLine, InGate, RefsInv, RecInv, Living
<1>2. Top \in Frames /\ Top.pin \in Nat \ {0}
  BY <1>1, TopFacts
<1>3. /\ fr \in Frames /\ fr.node = Top.node /\ fr.line = Top.line /\ fr.func = Top.func
      /\ fr.prod = Top.prod
  BY <1>2 DEF Frames
<1> HIDE DEF fr
<1>4. \A r : FrameRefs(fr, r) = FrameRefs(Top, r)
  BY <1>3 DEF FrameRefs, Open
<1>5. QED
  BY <1>1, <1>3, <1>4, RefsFacts, AccountTop

LEMMA AccountAndPin ==
  ASSUME RefsInv, AndPin
  PROVE  AccountOK'
<1> DEFINE tmp == Top.prod \cap IF Line[Top.pin] = "1" THEN dd[Fanin] ELSE Not(dd[Fanin])
           fr == [Top EXCEPT !.prod = tmp, !.pin = @ + 1]
<1>1. /\ pc = "build" /\ stack # <<>> /\ stack' = Update(fr)
      /\ refs' = Deref(Ref(refs, tmp), Top.prod)
      /\ UNCHANGED <<net, dd, pc>> /\ BuildInv /\ Living /\ Open(Top)
  BY DEF AndPin, InPin, InLine, InGate, RefsInv, RecInv, Living, Open
<1>2. /\ Top \in Frames /\ Top.pin \in Nat \ {0} /\ Top.line \in Nat \ {0}
      /\ Top.prod \in Functions
  BY <1>1, TopFacts
<1>3. tmp \in Functions
  BY <1>2 DEF Functions
<1> HIDE DEF tmp
<1>4. /\ fr \in Frames /\ fr.node = Top.node /\ fr.line = Top.line /\ fr.func = Top.func
      /\ fr.prod = tmp /\ Open(fr)
  <2>1. fr \in Frames /\ fr.node = Top.node /\ fr.line = Top.line /\ fr.func = Top.func
        /\ fr.prod = tmp
    <3>1. PICK t \in Frames, prod \in Functions, pin \in Nat \ {0} :
             t = Top /\ prod = tmp /\ pin = Top.pin + 1
      BY <1>2, <1>3
    <3>2. PICK g : g = [t EXCEPT !.prod = prod, !.pin = pin]
      OBVIOUS
    <3>3. g = fr
      BY <3>1, <3>2
    <3> HIDE DEF fr
    <3>4. /\ g \in Frames /\ g.node = t.node /\ g.line = t.line
          /\ g.pin = pin /\ g.func = t.func /\ g.prod = prod
      BY <3>2 DEF Frames
    <3>5. QED
      BY <3>1, <3>3, <3>4
  <2>2. QED
    BY <1>1, <2>1 DEF Open
<1> HIDE DEF fr
<1>5. PICK l \in Int : l = Top.line - 1
  BY <1>2
<1>6. \A r : /\ FrameRefs(Top, r) = Is(Top.func, r) + Is(Top.prod, r) + Lines(Top.node, l, r)
             /\ FrameRefs(fr, r) = Is(Top.func, r) + Is(tmp, r) + Lines(Top.node, l, r)
             /\ Lines(Top.node, l, r) \in Nat
  BY <1>1, <1>4, <1>5, LinesFinite DEF FrameRefs
<1>7. /\ IsABag(refs)
      /\ \A f, r : Is(f, r) \in {0, 1}
      /\ \A r : Copies(refs, r) \in Nat
      /\ Regular(Top.prod) \in Regulars /\ Is(Top.prod, Regular(Top.prod)) = 1
  BY <1>1, <1>2, RefsFacts
<1>8. IsABag(Ref(refs, tmp)) /\ \A r : Copies(Ref(refs, tmp), r) = Copies(refs, r) + Is(tmp, r)
  BY <1>7, RefCounts
<1>9. Copies(refs, Regular(Top.prod)) > 0
  <2>1. Copies(refs, Regular(Top.prod)) >= FrameRefs(Top, Regular(Top.prod))
    BY <1>1, <1>7, TopHeld
  <2>2. QED
    BY <1>6, <1>7, <2>1
<1>10. Copies(Ref(refs, tmp), Regular(Top.prod)) > 0
  BY <1>7, <1>8, <1>9
<1>11. /\ IsABag(refs')
       /\ \A r : Copies(refs', r) = (Copies(refs, r) + Is(tmp, r)) - Is(Top.prod, r)
  BY <1>1, <1>8, <1>10, DerefCounts
<1>12. \A r : Copies(refs', r) + FrameRefs(Top, r) = Copies(refs, r) + FrameRefs(fr, r)
  BY <1>6, <1>7, <1>11
<1>13. QED
  BY <1>1, <1>4, <1>11, <1>12, AccountTop

\* The product of a line that is done is left to the account of the lines.
LEMMA AccountEndLine ==
  ASSUME RefsInv, EndLine
  PROVE  AccountOK'
<1> DEFINE m == Top.node
           l == Top.line
           tmp == Top.func \cup Top.prod
           sum == Deref(Ref(refs, tmp), Top.func)
           fr == [Top EXCEPT !.func = tmp, !.line = @ + 1, !.pin = 1, !.prod = One]
           more == l < Height(m)
<1>1. /\ pc = "build" /\ stack # <<>> /\ stack' = Update(fr)
      /\ refs' = (IF more THEN Ref(sum, One) ELSE sum)
      /\ UNCHANGED <<net, dd, pc>> /\ BuildInv /\ Living /\ Open(Top)
      /\ l <= Height(m) /\ Top.pin > Width(m)
  BY DEF EndLine, InLine, InGate, RefsInv, RecInv, Living, Open, Height, Width
<1>2. /\ Top \in Frames /\ FrameOK(Top) /\ l \in Nat \ {0} /\ Top.pin \in Nat \ {0}
      /\ Width(m) \in Nat /\ Height(m) \in Nat /\ m \in NodesOf(net) /\ net \in Nets
      /\ Top.func \in Functions /\ Top.prod \in Functions
  BY <1>1, TopFacts
<1>3. tmp \in Functions /\ One \in Functions
  BY <1>2 DEF Functions, One
<1>4. Top.prod = LineProduct(m, l)
  <2>1. Top.pin - 1 = Width(m) /\ Top.prod = Product(m, l, Width(m))
    BY <1>1, <1>2 DEF FrameOK
  <2>2. DOMAIN net.table[m][l] = 1 .. Width(m)
    BY <1>1, <1>2, NetFacts
  <2>3. QED
    BY <2>1, <2>2 DEF Product, Matches, LineProduct
<1> HIDE DEF tmp, sum
<1>5. fr \in Frames /\ fr.node = m /\ fr.line = l + 1 /\ fr.prod = One /\ fr.func = tmp
  <2>1. PICK t \in Frames, func \in Functions, prod \in Functions,
            line \in Nat \ {0}, pin \in Nat \ {0} :
           t = Top /\ func = tmp /\ prod = One /\ line = l + 1 /\ pin = 1
    BY <1>2, <1>3
  <2>2. PICK g : g = [t EXCEPT !.func = func, !.line = line, !.pin = pin, !.prod = prod]
    OBVIOUS
  <2>3. g = fr
    BY <2>1, <2>2
  <2> HIDE DEF fr, m, l
  <2>4. /\ g \in Frames /\ g.node = t.node /\ g.line = line
        /\ g.pin = pin /\ g.func = func /\ g.prod = prod
    BY <2>2 DEF Frames
  <2>5. QED
    BY <2>1, <2>3, <2>4 DEF m
<1>6. Open(fr) <=> more
  BY <1>2, <1>5 DEF Open, Height
<1> HIDE DEF fr, more
<1>7. PICK k \in Int : k = l - 1
  BY <1>2
<1>8. \A r : /\ FrameRefs(Top, r) = Is(Top.func, r) + Is(Top.prod, r) + Lines(m, k, r)
             /\ FrameRefs(fr, r) = Is(tmp, r) + (IF more THEN Is(One, r) ELSE 0) + Lines(m, l, r)
             /\ Lines(m, l, r) = Lines(m, k, r) + Is(Top.prod, r)
             /\ Lines(m, k, r) \in Nat
  <2>1. (l + 1) - 1 = l
    BY <1>2
  <2>2. \A r : FrameRefs(fr, r) =
                  Is(tmp, r) + (IF more THEN Is(One, r) ELSE 0) + Lines(m, l, r)
    BY <1>5, <1>6, <2>1 DEF FrameRefs
  <2>3. \A r : FrameRefs(Top, r) = Is(Top.func, r) + Is(Top.prod, r) + Lines(m, k, r)
    BY <1>1, <1>7 DEF FrameRefs
  <2>4. \A r : Lines(m, l, r) = Lines(m, k, r) + Is(Top.prod, r)
    BY <1>2, <1>4, <1>7, NextLines
  <2>5. QED
    BY <1>7, <2>2, <2>3, <2>4, LinesFinite
<1>9. /\ IsABag(refs)
      /\ \A f, r : Is(f, r) \in {0, 1}
      /\ \A r : Copies(refs, r) \in Nat
      /\ Regular(Top.func) \in Regulars /\ Is(Top.func, Regular(Top.func)) = 1
  BY <1>1, <1>2, RefsFacts
<1>10. IsABag(Ref(refs, tmp)) /\ \A r : Copies(Ref(refs, tmp), r) = Copies(refs, r) + Is(tmp, r)
  BY <1>9, RefCounts
<1>11. Copies(refs, Regular(Top.func)) > 0
  <2>1. Copies(refs, Regular(Top.func)) >= FrameRefs(Top, Regular(Top.func))
    BY <1>1, <1>9, TopHeld
  <2>2. QED
    BY <1>8, <1>9, <2>1
<1>12. Copies(Ref(refs, tmp), Regular(Top.func)) > 0
  BY <1>9, <1>10, <1>11
<1>13. IsABag(sum) /\ \A r : Copies(sum, r) = (Copies(refs, r) + Is(tmp, r)) - Is(Top.func, r)
  BY <1>10, <1>12, DerefCounts DEF sum
<1>14. /\ IsABag(refs')
       /\ \A r : Copies(refs', r) = Copies(sum, r) + (IF more THEN Is(One, r) ELSE 0)
  <2>1. CASE more
    BY <1>1, <1>13, <2>1, RefCounts
  <2>2. CASE ~more
    <3>1. \A r : Copies(sum, r) \in Nat
      BY <1>13, CopiesType
    <3>2. QED
      BY <1>1, <1>13, <2>2, <3>1
  <2>3. QED
    BY <2>1, <2>2
<1>15. \A r : Copies(refs', r) + FrameRefs(Top, r) = Copies(refs, r) + FrameRefs(fr, r)
  <2> HIDE DEF m, l
  <2>1. QED
    BY <1>8, <1>9, <1>13, <1>14
<1>16. QED
  BY <1>1, <1>5, <1>14, <1>15, AccountTop

\* A gate is called: its activation holds the sum and, if there is a line, a product.
LEMMA AccountCallGate ==
  ASSUME RefsInv, pc = "build", NEW n \in NodesOf(net), CallGate(n), net' = net
  PROVE  AccountOK'
<1> DEFINE fr == [node |-> n, line |-> 1, pin |-> 1, func |-> Zero, prod |-> One]
<1>1. CASE Len(stack) = StackLimit
  BY <1>1 DEF CallGate, AccountOK, Living
<1>2. CASE Len(stack) # StackLimit
  <2>1. /\ n \in Gates(net) /\ dd' = dd /\ pc' = pc /\ stack' = Append(stack, fr) /\ Living
        /\ refs' = (IF net.table[n] = <<>> THEN Ref(refs, Zero) ELSE Ref(Ref(refs, Zero), One))
    BY <1>2 DEF CallGate, Living
  <2>2. fr \in Frames /\ fr.node = n /\ fr.line = 1 /\ fr.func = Zero /\ fr.prod = One
    BY <2>1 DEF Frames, Functions, Zero, One
  <2> HIDE DEF fr
  <2>3. /\ net \in Nets /\ stack \in Seq(Frames) /\ IsABag(refs)
        /\ \A r : Copies(refs, r) \in Nat /\ NodeRefs(r) \in Nat /\ StackRefs(stack, r) \in Nat
        /\ \A f, r : Is(f, r) \in {0, 1}
    BY <2>1, RefsFacts
  <2>4. Open(fr) <=> net.table[n] # <<>>
    <3>1. net.table[n] \in Seq(Seq({"0", "1", "-"}))
      BY <2>3, NetsAssumption DEF Readable
    <3>2. QED
      BY <2>2, <3>1 DEF Open
  <2>5. \A r : FrameRefs(fr, r) = Is(Zero, r) + (IF Open(fr) THEN Is(One, r) ELSE 0)
    <3>1. \A r : Lines(n, 0, r) = 0
      <4>1. \A r : LinesWith(n, 0, r) = {}
        BY DEF LinesWith
      <4>2. QED
        BY <4>1, FS_EmptySet DEF Lines
    <3>2. 1 - 1 = 0
      OBVIOUS
    <3>3. \A r : FrameRefs(fr, r) = Is(Zero, r) + (IF Open(fr) THEN Is(One, r) ELSE 0) + 0
      BY <2>2, <3>1, <3>2 DEF FrameRefs
    <3>4. QED
      BY <2>3, <3>3
  <2>6. IsABag(Ref(refs, Zero))
        /\ \A r : Copies(Ref(refs, Zero), r) = Copies(refs, r) + Is(Zero, r)
    BY <2>3, RefCounts
  <2>7. /\ IsABag(refs')
        /\ \A r : Copies(refs', r) = Copies(refs, r) + FrameRefs(fr, r)
    <3>1. CASE Open(fr)
      <4>1. refs' = Ref(Ref(refs, Zero), One)
        BY <2>1, <2>4, <3>1
      <4>2. IsABag(refs') /\ \A r : Copies(refs', r) = Copies(refs, r) + Is(Zero, r) + Is(One, r)
        BY <2>6, <4>1, RefCounts
      <4>3. QED
        BY <2>3, <2>5, <3>1, <4>2
    <3>2. CASE ~Open(fr)
      BY <2>1, <2>3, <2>4, <2>5, <2>6, <3>2
    <3>3. QED
      BY <3>1, <3>2
  <2>8. ASSUME NEW r \in Regulars
        PROVE  Copies(refs', r) = NodeRefs(r) + StackRefs(stack', r)
    <3>1. /\ StackRefs(Append(stack, fr), r) = StackRefs(stack, r) + FrameRefs(fr, r)
          /\ FrameRefs(fr, r) \in Nat
      <4>1. PICK t \in Seq(Frames) : t = stack
        BY <2>3
      <4>2. QED
        BY <2>2, <4>1, StackRefsAppend
    <3>2. Copies(refs, r) = NodeRefs(r) + StackRefs(stack, r)
      BY <2>1 DEF RefsInv, AccountOK
    <3>3. QED
      BY <2>1, <2>3, <2>7, <3>1, <3>2
  <2>9. /\ Regulars' = Regulars
        /\ \A r : NodeRefs(r)' = NodeRefs(r) /\ \A s : StackRefs(s, r)' = StackRefs(s, r)
    BY <2>1, RegularKept, NodeRefsKept, StackRefsSame DEF Regulars
  <2>10. \A r \in Regulars' : Copies(refs', r) = NodeRefs(r)' + StackRefs(stack, r)'
    <3>1. PICK s : s = stack'
      OBVIOUS
    <3>2. \A r : StackRefs(s, r)' = StackRefs(s, r)
      BY <2>9
    <3>3. QED
      BY <2>8, <2>9, <3>1, <3>2
  <2>11. QED
    BY <2>7, <2>10 DEF AccountOK, Copies
<1>3. QED
  BY <1>1, <1>2

\* f and its complement are one BDD.
LEMMA PolarIs ==
  ASSUME NEW m, NEW f \in Functions
  PROVE  \A r : Is(Polar(m, f), r) = Is(f, r)
<1>1. Not(Not(f)) = f
  BY DEF Not, Functions
<1>2. Regular(Polar(m, f)) = Regular(f)
  BY <1>1 DEF Polar, Regular
<1>3. QED
  BY <1>2 DEF Is

\* A constant or an input gets its BDD.
LEMMA AccountCallLeaf ==
  ASSUME RefsInv, pc = "build", NEW n \in NodesOf(net), CallLeaf(n), net' = net,
         net.type[n] = "INPUT" => nvars + 1 \in DOMAIN net.pis /\ net.pis[nvars + 1] = n
  PROVE  AccountOK'
<1> DEFINE f == IF net.type[n] = "INPUT" THEN Var(nvars)
                ELSE IF net.table[n] = <<>> THEN Zero ELSE One
<1>1. /\ n \notin Gates(net) /\ dd[n] = NoDD /\ Living /\ pc' = pc /\ stack' = stack
      /\ dd' = [dd EXCEPT ![n] = Polar(n, f)] /\ refs' = Ref(refs, f)
  BY DEF CallLeaf, Living
<1>2. /\ BuildInv /\ net \in Nets /\ stack \in Seq(Frames) /\ IsABag(refs)
      /\ \A r : Copies(refs, r) \in Nat /\ NodeRefs(r) \in Nat /\ StackRefs(stack, r) \in Nat
      /\ \A g, r : Is(g, r) \in {0, 1}
      /\ nvars \in Nat /\ dd \in [NodesOf(net) -> Functions \cup {NoDD}]
  BY <1>1, RefsFacts DEF BuildInv, BuildTypeOK
<1>3. /\ \A l \in 1 .. Height(n) : LineDone(n, l)
      /\ Polar(n, f) \in Functions
  BY <1>1, <1>2, LeafFunction
<1>4. f \in Functions
  BY DEF Functions, Var, Zero, One
<1> HIDE DEF f
<1>5. PICK g \in Functions : g = Polar(n, f) /\ dd' = [dd EXCEPT ![n] = g]
  BY <1>1, <1>3
<1>6. Grows
  BY <1>1, <1>2, <1>5 DEF Grows
<1>7. \A r : NodeRefs(r)' = NodeRefs(r) + Is(f, r)
  <2>1. \A r : NodeRefs(r)' =
          NodeRefs(r) + Is(g, r) + (IF n \in Gates(net) THEN Lines(n, Height(n), r) ELSE 0)
    BY <1>1, <1>2, <1>3, <1>5, NodeRefsBuilt
  <2>2. \A r : Is(g, r) = Is(f, r)
    BY <1>4, <1>5, PolarIs
  <2>3. QED
    BY <1>1, <1>2, <2>1, <2>2
<1>8. \A r : StackRefs(stack, r)' = StackRefs(stack, r)
  <2>1. PICK s \in Seq(Frames) : s = stack
    BY <1>2
  <2>2. \A i \in DOMAIN s : FrameOK(s[i])
    BY <1>2, <2>1 DEF BuildInv, FramesOK
  <2>3. \A r : StackRefs(s, r)' = StackRefs(s, r)
    BY <1>2, <1>6, <2>2, StackRefsKept
  <2>4. QED
    BY <1>1, <2>1, <2>3
<1>9. IsABag(refs') /\ \A r : Copies(refs', r) = Copies(refs, r) + Is(f, r)
  BY <1>1, <1>2, RefCounts
<1>10. \A r \in Regulars : Copies(refs', r) = NodeRefs(r)' + StackRefs(stack, r)'
  <2> SUFFICES ASSUME NEW r \in Regulars
               PROVE  Copies(refs', r) = NodeRefs(r)' + StackRefs(stack, r)'
    OBVIOUS
  <2>1. Copies(refs, r) = NodeRefs(r) + StackRefs(stack, r)
    BY <1>1 DEF RefsInv, AccountOK
  <2>2. PICK i \in Nat, a \in Nat, b \in Nat :
           i = Is(f, r) /\ a = NodeRefs(r) /\ b = StackRefs(stack, r)
    BY <1>2
  <2>3. Copies(refs', r) = (a + b) + i /\ NodeRefs(r)' = a + i /\ StackRefs(stack, r)' = b
    BY <1>7, <1>8, <1>9, <2>1, <2>2
  <2>4. QED
    BY <2>3
<1>11. Regulars' = Regulars
  BY RegularKept DEF Regulars
<1>12. QED
  BY <1>9, <1>10, <1>11 DEF AccountOK, Copies

\* A gate is done: its node takes over what the activation held.
LEMMA AccountEndGate ==
  ASSUME RefsInv, EndGate
  PROVE  AccountOK'
<1>1. PICK m, f : m = Top.node /\ f = Polar(m, Top.func)
  OBVIOUS
<1>2. /\ pc = "build" /\ pc' = pc /\ stack # <<>> /\ stack' = Pop /\ Living
      /\ dd' = [dd EXCEPT ![m] = f] /\ net' = net /\ refs' = refs /\ Top.line > Height(m)
  BY <1>1 DEF EndGate, InGate, Living, Height
<1>3. /\ BuildInv /\ net \in Nets /\ stack \in Seq(Frames) /\ IsABag(refs)
      /\ \A r : Copies(refs, r) \in Nat /\ NodeRefs(r) \in Nat /\ StackRefs(stack, r) \in Nat
      /\ \A g, r : Is(g, r) \in {0, 1}
      /\ dd \in [NodesOf(net) -> Functions \cup {NoDD}]
  BY <1>2, RefsFacts DEF BuildInv, BuildTypeOK
<1>4. /\ m \in Gates(net) /\ m \in NodesOf(net) /\ f \in Functions
      /\ \A l \in 1 .. Height(m) : LineDone(m, l)
  BY <1>1, <1>3, GateFunction DEF Gates
<1>5. /\ Top.line \in Nat /\ FrameOK(Top) /\ Height(m) \in Nat /\ Top.func \in Functions
  BY <1>1, <1>2, <1>3, TopFacts
<1>6. Top.line - 1 = Height(m) /\ ~Open(Top)
  BY <1>1, <1>2, <1>5 DEF FrameOK, Open, Height
<1>7. \A r : FrameRefs(Top, r) = Is(f, r) + Lines(m, Height(m), r)
             /\ Lines(m, Height(m), r) \in Nat
  <2>1. \A r : Is(f, r) = Is(Top.func, r)
    BY <1>1, <1>5, PolarIs
  <2>2. \A r : FrameRefs(Top, r) = Is(Top.func, r) + 0 + Lines(m, Height(m), r)
    BY <1>1, <1>6 DEF FrameRefs
  <2>3. \A r : Lines(m, Height(m), r) \in Nat
    BY <1>5, LinesFinite
  <2>4. QED
    BY <1>3, <2>1, <2>2, <2>3
<1>8. dd[m] = NoDD
  <2>1. Len(stack) \in DOMAIN stack
    BY <1>2, <1>3
  <2>2. QED
    BY <1>1, <1>2, <2>1 DEF RefsInv, RecInv, ChainOK, Top
<1>9. \A r : NodeRefs(r)' = NodeRefs(r) + Is(f, r) + Lines(m, Height(m), r)
  BY <1>2, <1>3, <1>4, <1>8, NodeRefsBuilt
<1>10. Grows
  BY <1>2, <1>3, <1>8 DEF Grows
<1>11. /\ Pop \in Seq(Frames)
       /\ \A r : /\ FrameRefs(Top, r) \in Nat /\ StackRefs(Pop, r) \in Nat
                 /\ StackRefs(stack, r) = StackRefs(Pop, r) + FrameRefs(Top, r)
  BY <1>2, TopHeld
<1>12. \A r : StackRefs(stack, r)' = StackRefs(Pop, r)
  <2>1. PICK s \in Seq(Frames) : s = Pop
    BY <1>11
  <2>2. \A i \in DOMAIN s : FrameOK(s[i])
    <3>1. \A i \in DOMAIN Pop : i \in DOMAIN stack /\ Pop[i] = stack[i]
      BY <1>2, <1>3 DEF Pop
    <3>2. QED
      BY <1>2, <1>3, <2>1, <3>1 DEF BuildInv, FramesOK
  <2>3. \A r : StackRefs(s, r)' = StackRefs(s, r)
    BY <1>3, <1>10, <2>2, StackRefsKept
  <2>4. QED
    BY <1>2, <2>1, <2>3
<1>13. \A r \in Regulars : Copies(refs', r) = NodeRefs(r)' + StackRefs(stack, r)'
  <2> SUFFICES ASSUME NEW r \in Regulars
               PROVE  Copies(refs', r) = NodeRefs(r)' + StackRefs(stack, r)'
    OBVIOUS
  <2>1. Copies(refs, r) = NodeRefs(r) + StackRefs(stack, r)
    BY <1>2 DEF RefsInv, AccountOK
  <2>2. PICK i \in Nat, a \in Nat, b \in Nat, c \in Nat :
           /\ i = Is(f, r) /\ a = NodeRefs(r) /\ b = StackRefs(Pop, r)
           /\ c = Lines(m, Height(m), r)
    BY <1>3, <1>7, <1>11
  <2>3. /\ Copies(refs', r) = a + (b + (i + c))
        /\ NodeRefs(r)' = a + i + c /\ StackRefs(stack, r)' = b
    BY <1>2, <1>7, <1>9, <1>11, <1>12, <2>1, <2>2
  <2>4. QED
    BY <2>3
<1>14. Regulars' = Regulars
  BY <1>2, RegularKept DEF Regulars
<1>15. QED
  BY <1>2, <1>3, <1>13, <1>14 DEF AccountOK, Copies

LEMMA RefsInit == Init => RefsInv
<1> SUFFICES ASSUME Init PROVE RefsInv
  OBVIOUS
<1>1. RecInv /\ net \in Nets /\ stack = <<>> /\ Built = {} /\ refs = SetToBag({})
  BY RecInit DEF Init, Built, EmptyBag
<1>2. IsABag(refs) /\ \A r : Copies(refs, r) = 0
  BY <1>1 DEF IsABag, SetToBag, Copies, BagIn, BagToSet
<1>3. \A r : NodeRefs(r) = 0
  <2>1. \A r : ByNodes(r) = {} /\ LeftByNodes(r) = {}
    BY <1>1 DEF ByNodes, LeftByNodes
  <2>2. QED
    BY <2>1, FS_EmptySet DEF NodeRefs
<1>4. \A r : StackRefs(stack, r) = 0
  <2>1. DOMAIN stack = {}
    BY <1>1
  <2>2. \A r : BySums(stack, r) = {} /\ ByProducts(stack, r) = {} /\ LeftByFrames(stack, r) = {}
    BY <2>1 DEF BySums, ByProducts, LeftByFrames
  <2>3. QED
    BY <2>2, FS_EmptySet DEF StackRefs
<1>5. QED
  BY <1>1, <1>2, <1>3, <1>4 DEF RefsInv, AccountOK

\* A step that builds nothing and leaves the references and the stack alone.
LEMMA AccountKept ==
  ASSUME RefsInv, Living, UNCHANGED <<net, dd, refs, stack>>
  PROVE  AccountOK'
<1>1. /\ Regulars' = Regulars
      /\ \A r : NodeRefs(r)' = NodeRefs(r) /\ \A s : StackRefs(s, r)' = StackRefs(s, r)
  BY RegularKept, NodeRefsKept, StackRefsSame DEF Regulars
<1>2. \A r : StackRefs(stack, r)' = StackRefs(stack, r)
  <2>1. PICK s : s = stack
    OBVIOUS
  <2>2. \A r : StackRefs(s, r)' = StackRefs(s, r)
    BY <1>1
  <2>3. QED
    BY <2>1, <2>2
<1>3. QED
  BY <1>1, <1>2 DEF RefsInv, AccountOK, Copies

LEMMA AccountRoot ==
  ASSUME RefsInv, Root
  PROVE  AccountOK'
<1> DEFINE n == Roots[next]
<1>1. /\ BuildInv /\ pc = "build" /\ stack = <<>> /\ next <= Len(Roots) /\ net' = net
      /\ net \in Nets /\ nvars \in Nat /\ next \in Nat
  BY DEF RefsInv, RecInv, Root, BuildInv, BuildTypeOK
<1>2. n \in NodesOf(net) /\ (next <= Len(net.pis) => n = net.pis[next])
  BY <1>1, RootFacts
<1>3. dd[n] = NoDD => (net.type[n] = "INPUT" => /\ nvars + 1 \in DOMAIN net.pis
                                              /\ net.pis[nvars + 1] = n)
  <2>1. Len(net.pis) \in Nat /\ DOMAIN net.pis = 1 .. Len(net.pis)
    BY <1>1, NetFacts
  <2>2. next <= Len(net.pis) + 1 => nvars = next - 1
    BY <1>1 DEF BuildInv, InputsInOrder
  <2>3. CASE next <= Len(net.pis)
    <3>1. next \in Nat \ {0}
      BY <1>1 DEF BuildInv, BuildTypeOK
    <3>2. nvars + 1 = next /\ next \in DOMAIN net.pis
      BY <1>1, <2>1, <2>2, <2>3, <3>1
    <3>3. QED
      BY <1>2, <2>3, <3>2
  <2>4. CASE next > Len(net.pis)
    BY <1>1, <1>2, <2>4, InputsBuilt
  <2>5. QED
    BY <1>1, <2>1, <2>3, <2>4
<1> HIDE DEF n
<1>4. CASE CallLeaf(n)
  <2>1. dd[n] = NoDD
    BY <1>4 DEF CallLeaf
  <2>2. QED
    BY <1>1, <1>2, <1>3, <1>4, <2>1, AccountCallLeaf
<1>5. CASE CallGate(n)
  BY <1>1, <1>2, <1>5, AccountCallGate
<1>6. CASE UNCHANGED <<dd, nvars, refs, stack, pc>>
  BY <1>1, <1>6, AccountKept DEF Living
<1>7. QED
  BY <1>4, <1>5, <1>6 DEF Root, Call, n

LEMMA AccountBuildFanin ==
  ASSUME RefsInv, BuildFanin
  PROVE  AccountOK'
<1> DEFINE n == Fanin
<1>1. /\ BuildInv /\ pc = "build" /\ stack # <<>> /\ Call(n) /\ net' = net
      /\ Top.pin <= Width(Top.node)
  BY DEF RefsInv, RecInv, BuildFanin, InPin, InLine, InGate, Width
<1>2. /\ net \in Nets /\ next \in Nat /\ next > Len(net.pis) + 1 /\ Len(net.pis) \in Nat
      /\ Top.node \in NodesOf(net) /\ Top.pin \in Nat \ {0} /\ Width(Top.node) \in Nat
  BY <1>1, TopFacts, NetFacts
<1>3. n \in NodesOf(net)
  BY <1>1, <1>2, NetFacts DEF Fanin
<1> HIDE DEF n
<1>4. CASE CallLeaf(n)
  <2>1. dd[n] = NoDD
    BY <1>4 DEF CallLeaf
  <2>2. net.type[n] # "INPUT"
    BY <1>1, <1>2, <1>3, <2>1, InputsBuilt
  <2>3. QED
    BY <1>1, <1>3, <1>4, <2>2, AccountCallLeaf
<1>5. CASE CallGate(n)
  BY <1>1, <1>3, <1>5, AccountCallGate
<1>6. QED
  BY <1>1, <1>4, <1>5 DEF Call

LEMMA AccountAfter ==
  ASSUME RefsInv, RootsDone \/ OutOfMemory \/ PrintCover \/ FreeNetwork \/ UNCHANGED vars
  PROVE  AccountOK'
<1>1. CASE RootsDone
  BY <1>1, AccountKept DEF RootsDone, Living
<1>2. CASE OutOfMemory
  <2>1. CASE stack = <<>>
    BY <1>2, <2>1, AccountKept DEF OutOfMemory, Living
  <2>2. CASE stack # <<>>
    BY <1>2, <2>2 DEF OutOfMemory, AccountOK, Living
  <2>3. QED
    BY <2>1, <2>2
<1>3. CASE PrintCover
  BY <1>3, AccountKept DEF PrintCover, Living
<1>4. CASE FreeNetwork
  <2>1. pc' = "done"
    BY <1>4 DEF FreeNetwork
  <2>2. QED
    BY <2>1 DEF AccountOK, Living
<1>5. CASE UNCHANGED vars
  <2>1. CASE Living
    BY <1>5, <2>1, AccountKept DEF vars
  <2>2. CASE ~Living
    BY <1>5, <2>2 DEF vars, AccountOK, Living
  <2>3. QED
    BY <2>1, <2>2
<1>6. QED
  BY <1>1, <1>2, <1>3, <1>4, <1>5

\* The accounts are those of ReferencesAccounted, holder by holder.
LEMMA AccountsAreReferences == RefsInv => ReferencesAccounted
<1> SUFFICES ASSUME RefsInv, Living, NEW r \in Regulars
             PROVE  References(r) =
                      Cardinality(ByNodes(r)) + Cardinality(BySums(stack, r))
                      + Cardinality(ByProducts(stack, r))
                      + Cardinality(LeftByNodes(r)) + Cardinality(LeftByFrames(stack, r))
  BY DEF ReferencesAccounted, Living, Regulars, Functions
<1>1. /\ IsFiniteSet(ByNodes(r)) /\ IsFiniteSet(LeftByNodes(r))
      /\ IsFiniteSet(BySums(stack, r)) /\ IsFiniteSet(ByProducts(stack, r))
      /\ IsFiniteSet(LeftByFrames(stack, r))
  BY RefsFacts, NodeRefsFinite, StackRefsFinite
<1>2. PICK a \in Nat, b \in Nat, c \in Nat, d \in Nat, e \in Nat :
        /\ a = Cardinality(ByNodes(r)) /\ b = Cardinality(LeftByNodes(r))
        /\ c = Cardinality(BySums(stack, r)) /\ d = Cardinality(ByProducts(stack, r))
        /\ e = Cardinality(LeftByFrames(stack, r))
  BY <1>1, FS_CardinalityType
<1>3. Copies(refs, r) = NodeRefs(r) + StackRefs(stack, r)
  BY DEF RefsInv, AccountOK
<1>4. References(r) = (a + b) + (c + d + e)
  BY <1>2, <1>3 DEF References, Copies, NodeRefs, StackRefs
<1>5. QED
  BY <1>2, <1>4

(***************************************************************************)
(* On every network, at every point of the building: each BDD has as many  *)
(* references as holders, and one more for every table line processed      *)
(* whose product it is.  No reference is dropped that is not held.         *)
(***************************************************************************)
THEOREM ReferencesCorrect == Spec => []ReferencesAccounted
<1>1. Init => RefsInv
  BY RefsInit
<1>2. RefsInv /\ [Next]_vars => RefsInv'
  <2> SUFFICES ASSUME RefsInv, [Next]_vars PROVE RefsInv'
    OBVIOUS
  <2>1. RecInv'
    BY RecStep DEF RefsInv
  <2>2. AccountOK'
    BY AccountRoot, AccountSkipPin, AccountBuildFanin, AccountAndPin, AccountEndLine,
       AccountEndGate, AccountAfter DEF Next, Progress
  <2>3. QED
    BY <2>1, <2>2 DEF RefsInv
<1>3. QED
  BY <1>1, <1>2, AccountsAreReferences, PTL DEF Spec

=============================================================================
