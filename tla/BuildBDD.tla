------------------------------ MODULE BuildBDD ------------------------------
(***************************************************************************)
(* print_MFFC_covers: the BDDs of a network are built from its outputs     *)
(* down (Bnet_BuildNodeBDD), the cover of the first output is printed, and *)
(* the network is freed with its BDDs (Bnet_FreeNetwork_Bdd).              *)
(*                                                                         *)
(* A BDD is the Boolean function it stands for, the set of the assignments *)
(* that satisfy it; an assignment is the set of the variable indices that  *)
(* are 1.  CUDD (external) keeps one node for a function and its           *)
(* complement, and frees it when its reference count drops to zero: refs   *)
(* is the bag of the references the program holds.                         *)
(*                                                                         *)
(* Besides the fields of module Bnet a network has, for each node, the     *)
(* lines of its function table (table, values only) and its polarity, and  *)
(* the .inputs and .outputs lists (pis, outputs).                          *)
(***************************************************************************)
EXTENDS Bnet, Bags, FiniteSetsExt

CONSTANTS
    Nets,        \* the networks the program may be given
    NoDD,        \* the null pointer node->dd
    StackLimit   \* the number of nested calls the C stack holds

(***************************************************************************)
(* A network as Bnet_ReadNetwork leaves it for the building: the inputs    *)
(* and no other nodes are listed in .inputs, once each; only gates read    *)
(* something, and a table line has a column for each pin.                  *)
(***************************************************************************)
Readable(n) ==
    /\ n.nodes \in Seq(Name)
    /\ n.type \in [NodesOf(n) -> NodeType]
    /\ n.inputs \in [NodesOf(n) -> Seq(NodesOf(n))]
    /\ n.table \in [NodesOf(n) -> Seq(Seq({"0", "1", "-"}))]
    /\ n.polarity \in [NodesOf(n) -> {0, 1}]
    /\ n.pis \in Seq(NodesOf(n))
    /\ n.outputs \in Seq(NodesOf(n)) \ {<<>>}
    /\ \A i, j \in DOMAIN n.pis : n.pis[i] = n.pis[j] => i = j
    /\ \A m \in NodesOf(n) :
          /\ n.type[m] = "INPUT" <=> \E i \in DOMAIN n.pis : n.pis[i] = m
          /\ n.type[m] = "INPUT" => n.polarity[m] = 0
          /\ n.type[m] \in {"INPUT", "CONSTANT"} => n.inputs[m] = <<>>
          /\ \A l \in DOMAIN n.table[m] : Len(n.table[m][l]) = Len(n.inputs[m])

ASSUME NetsAssumption == \A n \in Nets : Readable(n)
ASSUME NoDDAssumption == \A n \in Nets : \A f \in SUBSET SUBSET (0 .. Len(n.pis) - 1) : f # NoDD
ASSUME StackAssumption == \A n \in Nets : StackLimit >= Len(n.nodes)

VARIABLES
    net,       \* the network that was read
    dd,        \* node->dd
    nvars,     \* the number of variables of the manager
    refs,      \* the references held on BDD nodes
    stack,     \* the activations of Bnet_BuildNodeBDD, the last on top
    next,      \* the position in the list of roots being built
    pc,        \* where the program is
    printed    \* the function whose cover was printed

vars == <<net, dd, nvars, refs, stack, next, pc, printed>>

-----------------------------------------------------------------------------
(* CUDD, as far as the program uses it.                                    *)

Assignments == SUBSET (0 .. Len(net.pis) - 1)
One == Assignments
Zero == {}
Not(f) == Assignments \ f
Var(i) == {a \in Assignments : i \in a}

\* The node that f and its complement share.
Regular(f) == {f, Not(f)}

Ref(bag, f) == bag (+) SetToBag({Regular(f)})
Deref(bag, f) == bag (-) SetToBag({Regular(f)})

-----------------------------------------------------------------------------
Gates(n) == {m \in NodesOf(n) : n.type[m] \in {"INTERNAL", "OUTPUT"}}

\* nd->dd from func: the table lists the lines with output 0 when polarity = 1.
Polar(m, f) == IF net.polarity[m] = 1 THEN Not(f) ELSE f

Top == stack[Len(stack)]
Pop == SubSeq(stack, 1, Len(stack) - 1)
Update(frame) == Append(Pop, frame)

\* The roots: cudd_build_v2 takes the inputs in the order of the .inputs line,
\* then main's outputs.
Roots == net.pis \o net.outputs

Init ==
    /\ net \in Nets
    /\ dd = [n \in NodesOf(net) |-> NoDD]
    /\ nvars = 0
    /\ refs = EmptyBag
    /\ stack = <<>>
    /\ next = 1
    /\ pc = "build"
    /\ printed = NoDD

(***************************************************************************)
(* Bnet_BuildNodeBDD(n): a constant or an input gets its BDD at once, a    *)
(* gate opens an activation whose sum is 0, with the first product at 1.   *)
(* A call that the C stack has no room for ends the program.               *)
(***************************************************************************)
CallLeaf(n) ==
    /\ dd[n] = NoDD
    /\ n \notin Gates(net)
    /\ LET f == IF net.type[n] = "INPUT" THEN Var(nvars)
                ELSE IF net.table[n] = <<>> THEN Zero ELSE One
       IN  /\ dd' = [dd EXCEPT ![n] = Polar(n, f)]
           /\ refs' = Ref(refs, f)
    /\ nvars' = IF net.type[n] = "INPUT" THEN nvars + 1 ELSE nvars
    /\ UNCHANGED <<stack, pc>>

CallGate(n) ==
    /\ dd[n] = NoDD
    /\ n \in Gates(net)
    /\ IF Len(stack) = StackLimit
       THEN /\ pc' = "overflow"
            /\ UNCHANGED <<stack, refs>>
       ELSE /\ stack' = Append(stack, [node |-> n, line |-> 1, pin |-> 1,
                                       func |-> Zero, prod |-> One])
            /\ refs' = IF net.table[n] = <<>> THEN Ref(refs, Zero)
                       ELSE Ref(Ref(refs, Zero), One)
            /\ UNCHANGED pc
    /\ UNCHANGED <<dd, nvars>>

Call(n) == CallLeaf(n) \/ CallGate(n)

Root ==
    /\ pc = "build"
    /\ stack = <<>>
    /\ next <= Len(Roots)
    /\ next' = next + 1
    /\ \/ Call(Roots[next])
       \/ /\ dd[Roots[next]] # NoDD
          /\ UNCHANGED <<dd, nvars, refs, stack, pc>>
    /\ UNCHANGED <<net, printed>>

RootsDone ==
    /\ pc = "build"
    /\ stack = <<>>
    /\ next > Len(Roots)
    /\ pc' = "print"
    /\ UNCHANGED <<net, dd, nvars, refs, stack, next, printed>>

-----------------------------------------------------------------------------
(* The loops over the table lines and, inside, over the pins.              *)

InGate == pc = "build" /\ stack # <<>>
Line == net.table[Top.node][Top.line]
InLine == InGate /\ Top.line <= Len(net.table[Top.node])
InPin == InLine /\ Top.pin <= Len(net.inputs[Top.node])
Fanin == net.inputs[Top.node][Top.pin]

\* Mutant of SkipPin: the line is read from its start again.
SkipPinRestarts ==
    /\ InPin
    /\ Line[Top.pin] = "-"
    /\ stack' = Update([Top EXCEPT !.pin = 1])
    /\ UNCHANGED <<net, dd, nvars, refs, next, pc, printed>>

SkipPin ==
    /\ InPin
    /\ Line[Top.pin] = "-"
    /\ stack' = Update([Top EXCEPT !.pin = @ + 1])
    /\ UNCHANGED <<net, dd, nvars, refs, next, pc, printed>>

\* Mutant of BuildFanin: the fanin of a '-' pin is built, too.
BuildFaninAlways ==
    /\ InPin
    /\ Call(Fanin)
    /\ UNCHANGED <<net, next, printed>>

BuildFanin ==
    /\ InPin
    /\ Line[Top.pin] # "-"
    /\ Call(Fanin)
    /\ UNCHANGED <<net, next, printed>>

\* Mutant of AndPin: tmp is not referenced before prod is dereferenced.
AndPinUnreferenced ==
    /\ InPin
    /\ Line[Top.pin] # "-"
    /\ dd[Fanin] # NoDD
    /\ LET literal == IF Line[Top.pin] = "1" THEN dd[Fanin] ELSE Not(dd[Fanin])
           tmp == Top.prod \cap literal
       IN  /\ stack' = Update([Top EXCEPT !.prod = tmp, !.pin = @ + 1])
           /\ refs' = Deref(refs, Top.prod)
    /\ UNCHANGED <<net, dd, nvars, next, pc, printed>>

\* prod = prod AND var, the old prod is dereferenced.
AndPin ==
    /\ InPin
    /\ Line[Top.pin] # "-"
    /\ dd[Fanin] # NoDD
    /\ LET literal == IF Line[Top.pin] = "1" THEN dd[Fanin] ELSE Not(dd[Fanin])
           tmp == Top.prod \cap literal
       IN  /\ stack' = Update([Top EXCEPT !.prod = tmp, !.pin = @ + 1])
           /\ refs' = Deref(Ref(refs, tmp), Top.prod)
    /\ UNCHANGED <<net, dd, nvars, next, pc, printed>>

\* Mutant of EndLine: the next line goes on with the product of this one.
EndLineKeepsProduct ==
    /\ InLine
    /\ Top.pin > Len(net.inputs[Top.node])
    /\ LET tmp == Top.func \cup Top.prod
           sum == Deref(Ref(refs, tmp), Top.func)
       IN  /\ stack' = Update([Top EXCEPT !.func = tmp, !.line = @ + 1, !.pin = 1])
           /\ refs' = IF Top.line < Len(net.table[Top.node]) THEN Ref(sum, Top.prod) ELSE sum
    /\ UNCHANGED <<net, dd, nvars, next, pc, printed>>

\* func = func OR prod, the old func is dereferenced and prod is not; the
\* next line, if there is one, starts with a product of its own.
EndLine ==
    /\ InLine
    /\ Top.pin > Len(net.inputs[Top.node])
    /\ LET tmp == Top.func \cup Top.prod
           sum == Deref(Ref(refs, tmp), Top.func)
       IN  /\ stack' = Update([Top EXCEPT !.func = tmp, !.line = @ + 1,
                                          !.pin = 1, !.prod = One])
           /\ refs' = IF Top.line < Len(net.table[Top.node]) THEN Ref(sum, One) ELSE sum
    /\ UNCHANGED <<net, dd, nvars, next, pc, printed>>

EndGate ==
    /\ InGate
    /\ Top.line > Len(net.table[Top.node])
    /\ dd' = [dd EXCEPT ![Top.node] = Polar(Top.node, Top.func)]
    /\ stack' = Pop
    /\ UNCHANGED <<net, nvars, refs, next, pc, printed>>

(***************************************************************************)
(* CUDD returns NULL when memory runs out.  Every activation then returns  *)
(* 0: cudd_build_v2 just returns if it was building an input, and exits    *)
(* the program if it was building an output.                               *)
(***************************************************************************)
OutOfMemory ==
    /\ pc = "build"
    /\ IF stack = <<>> THEN /\ next <= Len(net.pis)
                           /\ dd[Roots[next]] = NoDD
                           /\ pc' = "print"
                      ELSE /\ InLine
                           /\ pc' = "exit"
    /\ stack' = <<>>
    /\ UNCHANGED <<net, dd, nvars, refs, next, printed>>

-----------------------------------------------------------------------------
(* print_MFFC_covers once cudd_build_v2 has returned.                      *)

PrintCover ==
    /\ pc = "print"
    /\ printed' = dd[net.outputs[1]]
    /\ pc' = IF printed' = NoDD THEN "crash" ELSE "free"
    /\ UNCHANGED <<net, dd, nvars, refs, stack, next>>

\* Bnet_FreeNetwork_Bdd dereferences the BDDs of the inputs and the internal
\* nodes, and clears the pointers of the latter; Cudd_Quit follows.
FreeNetwork ==
    LET freed == {n \in NodesOf(net) : dd[n] # NoDD /\ net.type[n] \in {"INTERNAL", "INPUT"}}
    IN  /\ pc = "free"
        /\ refs' = FoldSet(LAMBDA n, bag : Deref(bag, dd[n]), refs, freed)
        /\ dd' = [n \in NodesOf(net) |->
                      IF n \in freed /\ net.type[n] = "INTERNAL" THEN NoDD ELSE dd[n]]
        /\ pc' = "done"
        /\ UNCHANGED <<net, nvars, stack, next, printed>>

Progress ==
    \/ Root \/ SkipPin \/ BuildFanin \/ AndPin \/ EndLine \/ EndGate
    \/ RootsDone \/ PrintCover \/ FreeNetwork

Next == Progress \/ OutOfMemory

\* The program is one thread that runs until it ends; memory need not run out.
Spec == Init /\ [][Next]_vars /\ WF_vars(Progress)

-----------------------------------------------------------------------------
(* Properties.                                                             *)

Ended == pc \in {"done", "exit", "crash", "overflow"}

(***************************************************************************)
(* Every BDD is the function of its node over the .inputs line: the i-th   *)
(* input is variable i - 1, so that the columns of the printed cover are   *)
(* the inputs in order, whatever the order of the recursion; and a gate is *)
(* 1 exactly where a line of its table matches (where none does, when the  *)
(* table lists the lines with output 0), the '-' pins never looked at.     *)
(***************************************************************************)
PinMatches(m, line, p, a) ==
    \/ line[p] = "-"
    \/ LET f == dd[net.inputs[m][p]]
       IN  f # NoDD /\ (line[p] = "1" <=> a \in f)

Matches(m, line, a) == \A p \in DOMAIN line : PinMatches(m, line, p, a)

NodeFunction(m) ==
    IF net.type[m] = "INPUT" THEN Var((CHOOSE i \in DOMAIN net.pis : net.pis[i] = m) - 1)
    ELSE {a \in Assignments :
             (\E l \in DOMAIN net.table[m] : Matches(m, net.table[m][l], a))
             <=> net.polarity[m] = 0}

ComputesNodeFunctions ==
    /\ pc \in {"build", "print", "free"} =>
           \A m \in NodesOf(net) : dd[m] # NoDD => dd[m] = NodeFunction(m)
    /\ pc = "free" => printed = NodeFunction(net.outputs[1])

(***************************************************************************)
(* References and holders agree, BDD by BDD: each one a node or an         *)
(* activation holds has a reference of its own, so that none is freed      *)
(* while in use or dereferenced twice, also not by Bnet_FreeNetwork_Bdd;   *)
(* and beyond them there is exactly one reference for each table line      *)
(* processed, on its product, which Bnet_BuildNodeBDD does not             *)
(* dereference.                                                            *)
(***************************************************************************)
Built == {m \in NodesOf(net) : dd[m] # NoDD}

LineProduct(m, l) == {a \in Assignments : Matches(m, net.table[m][l], a)}

\* The lines among the first k of m whose product is the BDD r or its complement.
LinesWith(m, k, r) == {l \in 1 .. k : Regular(LineProduct(m, l)) = r}

\* The holders of r: nodes, and activations with their sum or their product.
ByNodes(r) == {m \in Built : Regular(dd[m]) = r}
BySums(s, r) == {i \in DOMAIN s : Regular(s[i].func) = r}
Open(fr) == fr.line <= Len(net.table[fr.node])
ByProducts(s, r) == {i \in DOMAIN s : Open(s[i]) /\ Regular(s[i].prod) = r}

\* The references left behind by the lines of the gates built and in progress.
LeftByNodes(r) ==
    UNION {{m} \X LinesWith(m, Len(net.table[m]), r) : m \in Built \cap Gates(net)}
LeftByFrames(s, r) ==
    UNION {{i} \X LinesWith(s[i].node, s[i].line - 1, r) : i \in DOMAIN s}

References(r) == IF BagIn(r, refs) THEN refs[r] ELSE 0

ReferencesAccounted ==
    pc \in {"build", "print", "free"} =>
        \A r \in {Regular(f) : f \in SUBSET Assignments} :
            References(r) =
                Cardinality(ByNodes(r)) + Cardinality(BySums(stack, r))
                + Cardinality(ByProducts(stack, r))
                + Cardinality(LeftByNodes(r)) + Cardinality(LeftByFrames(stack, r))

(***************************************************************************)
(* The recursion has no guard of its own: it ends in a stack overflow      *)
(* exactly when following the pins that some table line constrains leads   *)
(* from an output into a cycle.  A cycle closed by '-' pins alone is never *)
(* noticed; nor is any, when memory runs out before the outputs are built  *)
(* and the first of them is an input.                                      *)
(***************************************************************************)
Needs(m) ==
    {net.inputs[m][p] : p \in {q \in DOMAIN net.inputs[m] :
        \E l \in DOMAIN net.table[m] : net.table[m][l][q] # "-"}}

NeededWithin(S) ==
    LET within[k \in 0 .. Len(net.nodes)] ==
            IF k = 0 THEN S ELSE within[k - 1] \cup UNION {Needs(m) : m \in within[k - 1]}
    IN  within

Needed(S) == NeededWithin(S)[Len(net.nodes)]

Loops ==
    \E m \in Needed({net.outputs[i] : i \in DOMAIN net.outputs}) : m \in Needed(Needs(m))

OverflowsOnCycles ==
    /\ pc = "overflow" => Loops
    /\ pc \in {"free", "done"} /\ next > Len(Roots) => ~ Loops

(***************************************************************************)
(* Building ends, one way or another, on every network: a node that has    *)
(* its BDD is never entered again.                                         *)
(***************************************************************************)
BuildEnds == <>Ended

=============================================================================
