# Verification of the MFFC approximation flow

This directory holds TLA+ models of the programs in `src/MFFC_finding`, TLC
configurations that check them on small instances, and TLAPS proofs of the
properties that matter most.

The repository approximates a combinational circuit: it takes a BLIF file,
finds a *maximum fanout-free cone* (MFFC) with a suitable number of inputs, cuts
it out, replaces it with a smaller circuit that computes nearly the same
function, and puts the result back. `abc/` and `cudd/` are vendored and are not
modelled.

## 1. Inventory

All paths are relative to `src/MFFC_finding`; `fc/` stands for
`find_candidate_MFFC_cpp/`.

| Component | Code | State it keeps | Operations | Talks to |
|---|---|---|---|---|
| Network and BLIF reader | `fc/head/bnet.h`, `fc/bnet.cc`, `fc/main.cc` | linked node list, `net->hash`, fanout lists, names of inputs and outputs | one case per directive, then three passes: enter names, count fanouts, fill fanout lists | returns `BnetNetwork*` to `main`, NULL on error |
| Topological sort | `fc/basics.cc` `topSort` | `indegree_list`, a queue, `sort_list` | seed, pop, visit a fanout | reads the network, uses the queue, fills `sort_list` |
| Queue | `fc/queue.cc` | heap cells between `front` and `rear` | push, pop, front, back, size, empty, destruction | used by `topSort` |
| MFFC computation | `fc/basics.cc` `get_MFFC` | `TFI_set`, `MFFC_set`, an iterator, `delete_list` | build a TFI, walk a TFI downwards, erase | reads `sort_list` and the network |
| Candidate search | `fc/find_print_candidate_MFFC.cc`, `fc/basics.cc` `find_insig_MFFC`, `write_MFFC` | `insig_MFFC`, best saving so far, output file | collect input signals, consider a root, write | reads everything above |
| MFFC statistics | `print_MFFC/` | copies of the above, a histogram | print | stand-alone program |
| Cover printing | `print_MFFC_covers/` | BDDs with reference counts, a C stack of activations | build node by node, print minterms, free | reads the candidate file, uses CUDD |
| Rest of the circuit | `fc/PERL_working_dir/perl_tool/get_restPart_of_a_ckt.pl` | a flag: print covers or not | one per line | reads circuit and candidate |
| Re-synthesis | `apprx_circuit_blif_synthesis_dir/perl_files/` | a table of internal names | rename, merge | reads the approximate cone, the candidate and the rest |
| Minterms to truth table, minterm weights | `minterm2truthTable_perl/`, `count_minterms_perl/` | the cube read last, the results so far | one per line, then write | between cover printing and MATLAB |
| Approximation search | `approximation_matlab/main1.m` and the classes it uses | a truth table; per activation the branches left, the bound, the chosen branch | approximate a split, prune, visit a child, trace, write | reads the truth table, writes the approximate cone |
| Pipeline driver | `approximation_main.pl` | files in fixed directories, an iteration number | run the programs above in turn, remove and copy files | everything |

**How they interact.** Inside the C++ program everything is a call on shared
structures in one thread: `main` reads the network; `find_print_candidate_MFFC`
calls `topSort`, `get_MFFC` and `find_insig_MFFC` in this order, chooses, and
calls `write_MFFC`. Between programs everything is a file in a fixed place, and
the driver ignores exit codes.

**What is hard.** There is no concurrency. The hazards are of *order* (one pass
relies on the order another one left), of *stale or absent state* (maps read
through `end()`, fanout lists built from two different sources, freed cells), of
*partial failure* (cyclic networks, files that do not parse, no admissible
candidate) and of *boundaries* (the loop of `get_MFFC` that stops one element
short and handles it in a copy of its body, tied columns of a majority, the C
stack). One more is *agreement between languages*: C++, Perl and MATLAB programs
that share a file must agree on the order of what is in it. `PROJECT.json` lists each at its
line with the properties that cover it.

**What makes a component correct.**

- Reader: what is returned has the form the passes rely on (distinct nodes, every
  pin driven, fanout entries match pins one for one) and NULL is returned exactly
  for files that define no such network.
- Topological sort: fanins first, nothing twice, and a node that is missing reads
  a node that is missing.
- Queue: first in, first out, no leak while it lives, no pointer into freed cells.
- MFFC computation: the process never exits in the middle; each MFFC is
  fanout-free, and contains every other fanout-free cone of its root.
- Candidate search: the best admissible cone whatever the address order; what is
  written is a circuit of its own that can be cut out at its root.
- Rest and re-synthesis: the gates are shared out between rest and candidate, rows
  go with their gates, and the merged circuit drives every signal it reads, once,
  without a cycle, and keeps the primary outputs.
- Cover printing: each BDD is the function of its node, its variables in the order
  of the `.inputs` line; no BDD is freed while it is in use; building ends.
- Minterms: the truth table lists the values of the cover, in the order its reader
  takes them.
- Approximation search: the circuit written computes the map that was chosen, its
  error is the one the choice was made by, and pruning loses no better tree.
- Pipeline: an iteration that ran without a failure publishes what it made itself.

## 2. Modules

| Module | Models | Remarks |
|---|---|---|
| `Bnet` | the network structure | `WellFormed` is the contract between reader and passes; `Downstream` and `OnCycle` are the reference definitions used by properties |
| `BnetRead` | `Bnet_ReadNetwork` and `main` | a file is a sequence of directives, chosen while it is read; one action per directive, one per name for each of the later passes |
| `TopSort` | `topSort` | one action per iteration of each loop |
| `FifoQueue` | what a queue promises | abstract specification |
| `LinkedQueue` | `class queue` | cells, links, allocation and freeing; implements `FifoQueue` |
| `GetMFFC` | `get_MFFC` after `topSort` | extends `TopSort`: the two share the network and `sort_list` |
| `FindCandidate` | `find_print_candidate_MFFC` as a whole | extends `GetMFFC` |
| `RestPart` | `get_restPart_of_a_ckt.pl` | starts from a circuit and one of its `Candidates`, which `FindCandidate` is shown to write |
| `Resynthesis` | `new_apprx_ckt_synthesizer.pl`, `reprint_helper.pl` | extends `RestPart`; the approximate cone is any tree `traceBack_binaryTree` may print |
| `BuildBDD` | `Bnet_BuildNodeBDD`, `cudd_build_v2`, `print_MFFC_covers`, `Bnet_FreeNetwork_Bdd` | extends `Bnet`; the recursion is a stack of activations; a `-` pin, an AND, the end of a line are actions |
| `Minterms` | `minterms2truthTable_parser.pl`, `count_minterms.pl` | one action per line of the cover, per call of `subroutine` and per joined string |
| `Kmap` | `kmap_class`, `approximate_unit_class`, `approximation_core` and `find_best_approximate_kmap1` to `4` | operators only: one approximation of one map |
| `BranchAndBound` | `main1`, `traverse_tree_branch_and_bound`, `traceBack_binaryTree` | extends `Kmap`; both recursions are stacks of activations |
| `ExhaustiveSearch` | | the reference for the pruning: every split tried at every node, by recursion |
| `Pipeline` | `approximation_main.pl` | the script is a table of steps; every program may fail |
| `BnetReadProofs`, `LinkedQueueProofs`, `FindCandidateProofs` (also of `TopSort` and `GetMFFC`), `ResynthesisProofs` (also of `RestPart`), `BuildBDDProofs`, `BranchAndBoundProofs` (also of `Kmap`), `ScriptProofs` (of `Pipeline` and `Minterms`) | | the TLAPS proofs |
| `BnetProofs` | | lemmas about networks that these share |
| `MCNets` | | families of small networks |
| `MC*` | | instances for TLC |

### How state and actions correspond to the code

**Names for nodes.** `net->hash` takes a name to the one node that drives it, so a
node *is* its name in the models. `net.inputs[n]` and `net.fanouts[n]` are
sequences, because `inputs[]` and `fanouts[]` hold one entry per pin and a name
may repeat; this is what makes the counting in `topSort` interesting. The
`nfo`, `ninp` fields are the lengths of these sequences.

**TopSort.** `seeded` counts the nodes the first loop has entered; `fo` is the
index in the loop over the fanouts of the node popped last (the last of
`sort_list`). The queue is a sequence here; that `class queue` behaves as one is
what `LinkedQueue` shows.

**GetMFFC.** Nodes are handled by their index in `sort_list`, as the maps
`ind_sort` and `sort_ind` do. `TFI_set` and `MFFC_set` are sequences over the
indices done so far. `cursor` is the map iterator of the walk (0: the walk is
over), `root` the index of `cnode`. `CheckFirst` is the copy of the loop body for
the first element together with the erasing that follows it. On a network with a
cycle `sort_ind` has no entry for a fanout that was dropped, and the code reads
the index out of `end()`: `DeleteOutcomes` allows either outcome of the test.

**FindCandidate.** `MFFC_set` is a `std::map` keyed by `char*`, so roots are considered in
the order of their addresses: `Consider` takes any root next. `insig_MFFC` has no
entry for nodes of type OUTPUT; the choice reads `->second` of `end()` for those,
which is any number of inputs (`InsigSizes`) and, when such a root is written,
any set of inputs. `log.txt` in the repository shows such garbage counts.

**BnetRead.** Tokens are abstract: a directive is a record of names, and a table
is `mixed`, `ones`, `zeros` or a constant. The reader chooses the next directive
when it reads it, which is the same as choosing the file first. Names are entered
into the hash in node-list order; fanout counts and fanout lists are separate
passes, as in the code, with the list taken from the map built while parsing.

**LinkedQueue.** Cells come from a finite heap; `new` may return any cell that is
not in use, with whatever `next` it had. Freed cells keep their contents, so a
use after free would be seen as a wrong answer or caught by `NoLeakNoDangle`.

**RestPart and Resynthesis.** A file is a sequence of lines; a line is a record of
the names on it, or a row with the gate it was written for, so that a property can ask
where rows end up. What matters about text is kept: a row of digits is recognised, a
row with a dash or of a constant is not (`shape`); a `.names` line is used as
a regular expression, which a name with brackets does not match (`Literal`). Wires
of the approximate cone are paths in MATLAB's tree (`f_1_2` is `<<1, 2>>`).
`hash_internal_node_names` may give `None`: an undefined entry, printed as
an empty string, so the name before it becomes the last on the line. A line on
which both operands are inner wires has no variable and is passed on unchanged
(`"bare"`). The reader stops at the first `.end` (`Read`).

**BuildBDD.** A BDD *is* the function it stands for: the set of the assignments that
satisfy it, an assignment being the set of the variables that are 1. CUDD keeps one
node for a function and its complement, so references are a bag over such pairs;
`Ref` and `Deref` stand where the code calls `Cudd_Ref` and
`Cudd_RecursiveDeref`. `dd[n]` is `node->dd`, and the number of a variable
is the number of inputs built before it, as in `Cudd_bddNewVar`. `StackLimit`
is the depth of the C stack, at least the number of nodes (`StackAssumption`), so
that only a cycle can exceed it. `Readable` is what the reader leaves behind: inputs
listed once, in `.inputs` only, and rows as wide as their gate (which the reader does
not check and is assumed of the file). `OutOfMemory` may happen wherever CUDD returns NULL.

**Minterms.** A cube is the sequence of its columns. `script` tells which of the
two programs runs on the file; they are one module because they share `sub
subroutine`, whose first array parameter takes all the arguments: one caller
passes only the cube, the other the cube and the results so far. The recursion is
unrolled: `pending` holds the arguments of the calls still to be made, the next one
first, and `returned` what the calls made so far have added to the result. A call
with a `-` among its arguments is replaced by two (`CallTwice`), one without joins
its arguments (`ReturnJoined`); the order of the strings is that of the code,
which appends what the first call returns and then what the second does. A line
that is no cube calls `subroutine` again with the last `$minterm`, or with no
columns if there was none (`Current`).

**Kmap and BranchAndBound.** A variable is a number, an assignment the set of the
variables that are 1, a vector the set of the assignments at which it is 1, a map
a function from assignments of the row variables to vectors. None of these depends
on the order in which MATLAB lists the variables, except ties, which `Precedes`
breaks in the order of `dec2bin`. `NoAssignment` is an element that no vector of a table
has; `NoVec`, the vector that holds only it, stands for an empty table. The recursive
`traverse_tree_branch_and_bound` is the stack of frames `stack`; MATLAB passes objects by
value, so that a frame holds its own node. `traceBack_binaryTree` is the stack
`calls`: each activation visits its left child, then its right one, traces its unit
with what they returned and writes its gate, one action for each; a wire is named by the
way from the root to its node. The two traversals use the same `Traced`: the
search traces a node with the units of its children *as the children chose them*, the
writing with the units *after they were traced themselves*. That difference is what
`ExactErrorIsExact` is about.

**Pipeline.** A file's content is the set of the iterations whose input
circuit it was made from; 0 stands for what no iteration of this run made, left by
an earlier run or broken off. A step that finds its source missing fails, as `cp` and
the programs do; any program may fail besides, leaving its output untouched,
removed or broken, and MATLAB may stay at its prompt. The only directories
that are emptied are those `rm` names; `Script` lists all of it in order.

### Fairness

Every program is one thread that never blocks: as long as it can take a step it
does. The specifications with a liveness property have weak fairness of a next-state
relation and nothing stronger: `TopSpec` of `TopNext`, `MffcSpec` and `CandSpec` of
`MffcNext` (the passes end; the choice loops once over a finite map), `BuildBDD` of
`Progress`, which is `Next` without running out of memory. The others have none.
The scripts loop over the lines of a file, the driver over its steps and the
search over the splits of a finite set, each with a counter that only moves
forward: that they end shows nothing about the code, and `Pipeline` may really
hang (`pc = "hung"`). Where a program ends it stops, so the configurations turn
the deadlock check off.

## 3. Runs

| Run | Instance | Shows |
|---|---|---|
| `find_candidate` | all networks of 3 nodes with up to 2 pins each (cycles, self-loops, repeated pins); all 4-node acyclic networks in all orders of the node list; all 5-node acyclic networks with the list reversed; 4-node acyclic networks with every choice of outputs; two cyclic networks with outputs; `c17.bench` and `rfile4.blif` of the repository | the whole C++ program: the order of `topSort` and what a cycle loses, fanout-freeness and maximality of the MFFCs, the state of the walk, no exit, that both passes end, the choice, the written circuit, and that it is a candidate of `RestPart` |
| `linked_queue` | 4 cells, 2 data values | `class queue` implements the abstract queue for every mix of calls and every reuse of freed cells, without leak or pointer into freed cells |
| `bnet_read` | every file of up to 5 directives out of 14 over 3 names | legal files and only they are accepted, and the result is well-formed |
| `resynthesis` | all 5-node acyclic networks with outputs at the sinks and possibly two more, a chain of three gates with private inputs and an exclusive-or of four gates, each with and without an inner output; every order of the gates in the candidate, every tree, one name with brackets | what stays and what goes, names suffice for two-pin gates, one driver per signal, no new cycle, outputs outside the cone survive |
| `build_bdd` | two inputs listed in the reverse order, a constant, three two-pin gates with 6 x 3 x 3 tables, three choices of polarity, one or two outputs, the first possibly an input, with and without a cycle | each BDD is its node's function and has as many references as holders and leaked products, the C stack overflows exactly on the cycles that tables constrain, building ends |
| `minterms` | no cube, one cube of two columns, all pairs of disjoint cubes of two and of three columns, with and without other lines between and behind | the truth table lists the cover from all ones down; `count_minterms.pl` counts the last cube only |
| `branch_and_bound` | all 256 tables of three inputs, 274 of four (those whose lower half is a parity, and selected ones), one of five | when the search stops, that the circuit computes the map chosen, when its error is the reported one, that pruning loses nothing, that decomposable maps are kept |
| `pipeline` | three iterations, directories empty or full at the start, three failures of any program in any way and what follows from them | clean iterations are fresh, stale results are explained |
| `insig_for_each` | the instance of `find_candidate` | **violated**: outputs have no input signals |
| `failure_is_reported` | the instance of `bnet_read`, 3 directives | **violated**: a file that cannot be read crashes `main` |
| `following_covers` | the instance of `resynthesis` | **violated**: rows with a dash stay when their gate goes |
| `reader_sees_function` | the instance of `minterms` | **violated**: the table is written and read in opposite orders |

**Why the bounds are enough.** A cone is interesting when a node has two fanouts
that reconverge, when one leaves the cone, when deleting a node forces the
deletion of another that was inside so far, and when the last of these happens at
the first element of the map. Five nodes give all of these; the 5-node networks
include every acyclic wiring. Cycles and repeated pins need two or three nodes. In the reader
a conflict takes at most two drivers, a reader of the signal and an `.outputs`
line: four directives and one to stop. In the queue the boundary cases are zero,
one and two elements, and four cells leave one freed cell to reuse at the
sentinel plus two. Two to one input signals in `find_candidate` are what 4 to 6
are in the driver: `c17` and `rfile4` have cones on both sides of the limits.
In `resynthesis` a name goes wrong with one inner wire more than names (three
inputs), a line has no variable with four inputs, and names are left over, or an
inner output is lost, when the cone has more gates than inputs less one: the
chain and the exclusive-or.
For the BDDs the hazards are a node reached twice (its references), an input
reached by the recursion before the loop, an input or a constant behind a `-` pin, and a
cycle through a pin that some, all or no lines constrain: three gates give all of
them. A cover needs two cubes for one to be expanded behind another. In the search
three inputs give units with a part of one variable, four give two parts of two, and a
tree that is not flat needs five, for which one table is enough to show that the
error may differ and that the circuit still computes its map; the properties about the
choice are stated up to four inputs, where all the splits of all nodes can be tried for
comparison. For the pipeline, a stale file must survive an iteration and be used in
the next: two iterations, and a third to see it again.
The theorems of section 4 do without bounds.

**Mutants.** For each property of a passing run `PROJECT.json` names a change of
the code (a dropped guard, a list that is not cleared, a loop that stops early)
under which TLC finds the property violated. They stand in the modules next to
the definition they change, under the comment *Mutant of*.

### Findings

1. `fc/basics.cc:264`: `find_insig_MFFC` skips nodes of type OUTPUT, although
   `find_print_candidate_MFFC.cc:52` promises input signals "for each MFFC". The
   choice (`find_print_candidate_MFFC.cc:82`) then dereferences `end()`. The
   candidate written may be an output's cone with a list of inputs that has
   nothing to do with it.
2. `fc/main.cc:41`: `net->npis` is read before `net == NULL` is tested, so the
   message "Syntax error in" can never be printed.
3. `fc/PERL_working_dir/perl_tool/get_restPart_of_a_ckt.pl:53`: only `^\d+\s\d$` is a
   row. A row with a dash, or of a constant, is printed although line 48 says that
   the covers of a gate found in the candidate are not; it joins the table of the
   gate printed before. The `*_sis` benchmarks have such rows.
4. `minterm2truthTable_perl/minterms2truthTable_parser.pl:49`: the loop prints the
   truth table from all ones to all zeros. `truthTable_class.m` takes its leftmost
   entry for the first row of its matrix, which is all zeros (lines 3 and 6), and
   `main1` passes it on as it is. The function approximated is the one printed with every
   input complemented; the cone put back approximates that one.

Some properties that hold say what a reader of the code would not expect:

- `CountsLastCube`: `count_minterms.pl` counts only the minterms of the last
  cube, because the array parameter in front takes the results along.
- `SearchFailsOnlyOnTrivialTables`: the search ends with an error on
  constants and single literals. At a node whose side is constant the child has no table
  but is not made a leaf, and only the bound left by earlier branches keeps
  the search from going there on other tables of up to four inputs. MATLAB then stays
  at its prompt and the driver waits (`pipeline`, state `"hung"`).
- `ExactErrorIsExact` needs `Flat`: in deeper trees, on five inputs or more, the
  error by which branches are compared is not always that of the circuit.
- `ReferencesAccounted`: one reference leaks per table line, since the dereferencing of
  the product is commented out; nothing is ever dereferenced too often.
- `OverflowsOnCycles`: a cyclic network is not noticed if all its cycles
  go through pins that no line constrains; nor if memory runs out before the
  outputs are built and the first output is an input, which has its BDD already.

The properties of `Resynthesis` hold under conditions they name, and each condition is
one the scripts do not check: no name with brackets (`AllLiteral`), an internal name
for every inner wire (`EveryWireNamed`), a variable on every line
(`EveryLineReadsVar`). `TwoPinsNameEveryWire` says when the second is met:
a tree over k inputs has k - 2 inner wires, and a candidate of two-pin gates with k
inputs has at least k - 1 gates. Wider gates break it, because the saving counts
primary inputs of the cone as gates.

## 4. Proofs

Assumptions. About the C++ program: `NetworksWellFormed`, every network the passes
are started on is well-formed (distinct nodes, driven pins, fanout entries that
match pins one for one, inputs that read nothing). `ReaderDelivers` proves this of
whatever the reader returns. Nothing is assumed about the
size of a network, about cycles, or about the order of its node list. About the reader:
directives are of the six kinds, with finite lists of names (`DirectivesAssumption`),
and the bound on the length of a file is a natural number. About
`print_MFFC_covers`: the networks are `Readable`, the null pointer is no BDD, and the C
stack holds a call for each node. About the queue: the heap is finite (`MemoryIsFinite`).
About the scripts: circuits are well-formed, tables are sequences of rows, and a
candidate has at least one input (`ConesHaveInputs`; the driver asks for 4 to 6). About the
driver: the two bounds are natural numbers, and there is at least one iteration. About the
files of covers (`CoverFilesAssumption`): there is a line, and all cubes have the same number of
columns, at least one, since CUDD prints every variable of the manager in every cube. About
the approximation (`TablesAssumption`): the inputs are finitely many numbers, more than
two of them (the driver asks for 4 to 6), and no assignment of them is `NoAssignment`.

**`BnetReadProofs`.** The fanout lists come from the text, through `name_fanouts`; the
counts and the fanins from the symbol table, which exists only after parsing. That they
agree rests on what holds *while* parsing, when names may still be driven twice
or not at all: under each name there are as many entries as pins read it
(`CountsAgree`, which holds with two drivers, too), and, as long as no name is driven
twice, each gate is listed once for each of its pins (`PinsAreListed`: with two drivers
the entries could not be told apart). `ListedAreNodes` makes the step: the gate of
the next `.names` is not listed yet unless its name has a driver. `PassesDone` says what
each pass has established. Symbol-table failures end the reading before a
network with two drivers, or with a pin that is not driven, is returned.
`ReturnsExactlyLegal` relates the network to the file. As long as nothing fails there are as many
nodes of a name as drivers of it in the file (`DriversCounted`: every directive adds
the same number to both) and the pins of the nodes name what the gates of the file
read (`SamePins`). A name found twice in the second pass, or a pin without a node in the
third, is therefore a fault of the file, and a network that passes both has none.

**`LinkedQueueProofs`.** The model reads the queue by following links, a recursion on
the number of steps. The invariant names what it would find: a function `c` from
`0 .. n` to distinct cells that starts at `front`, ends at `rear`, and steps along
`next`; the allocated cells are its range (`IsList`, `QueueInv`). `Walk` shows, by
induction up to a bound, that the recursion gives `c`; the induction itself (`UpTo`) is
derived from the well-foundedness of the subsets of a finite set, since the library's
induction theorems cannot be instantiated. A push extends `c` by a cell that was free, a pop
shifts it and keeps the sentinel (`PushAppends`, `PopTakesFirst`); in either case the abstract
sequence changes as `FifoQueue` says, which is the refinement `ListIsFifo`. The heap is finite
but of any size.

**`FindCandidateProofs`: `topSort`.** The inductive invariant `TopInv` joins the properties with
`SeedsFirst` (nothing is sorted before the first loop has entered every node). The
heart is `IndegreeCounts`: `indegree_list[n]` is the number of pins of `n` whose
driver is not sorted yet *plus* the number of entries of `n` among the fanouts of
the node in hand that the loop has still to visit. With it `ReadyNodes` says that
queue and list hold exactly the nodes at zero. When a node is popped its pins
move from the first summand to the second, which is where
`FanoutsMatchInputs` is needed; when a fanout is visited the second summand and
the counter drop together. `FaninsFirst` and `NoDuplicates` follow, and
`LeftoverIsStuck` at the end: a node with a positive count has an open pin.

**`FindCandidateProofs`: `get_MFFC`.** `MffcInv` adds four parts.

- `Idle`: nothing is entered before `topSort` is done.
- `ConesOK`: the TFI of `k` holds `k` and nothing above it, contains the TFIs of its
  members and every driver of `k`, and *only* nodes with a path to `k`. The last
  cannot be said with a recursive definition of paths, so it is said by
  closure: any set that is closed under fanouts up to `k` and meets the TFI
  contains `k`.
- `WalkOK`: how far the walk is. `delete_list` stays below the root and is
  closed under TFIs; what lies behind the cursor and is not deleted has all its
  fanouts in what is left (`WalkSettled`); and no fanout-free cone of the root
  meets `delete_list`.
- `FinalOK`: a finished MFFC contains its root, is fanout-free and contains every
  fanout-free cone in the TFI of its root.

The step that matters is `LeadsOutLoses`: if the node under the cursor leads out
of what is left, a fanout-free cone cannot contain it, and by the closure clause
of `ConesOK` it cannot contain anything of its TFI either, so adding the whole
TFI to `delete_list` loses nothing. In the other direction, deleting a TFI
cannot unsettle a node behind the cursor: if a fanout of that node were
deleted, so would be the node, for TFIs are closed under fanins. This is why one
walk downwards is enough.

**`FindCandidateProofs`: the whole program.** Every step of the whole program is one of `get_MFFC` or
leaves its variables alone (`CandStepsMffc`), so `CandSpec` implements `MffcSpec` and
has its invariant. `CandInv` adds that the later phases wait for the earlier
(`WaitsForMffc`), that `insig_MFFC` holds the input signals of finished cones of more than one
node (`InsigOK`), that the candidate is a considered root whose saving is the one
recorded and that no considered one saves more (`ChoiceOK`, `BestCandidate`), and
what is in the file (`FileOK`). From it, for every network
whose nodes were all sorted: the circuit is closed because what a member of
the cone reads is a member or an input signal; it can be cut out because the cone is
fanout-free; and no input is there for nothing because of maximality: the cone and
an input signal whose fanouts all lie in it would be a larger fanout-free
cone of the same root.

`CandidatesAreFound` joins the program to the next one. `RestPart` knows nothing of a walk:
its cone of a root is the union of the fanout-free sets of nodes with a *path* to the root, and its
candidates are the roots that are neither inputs nor outputs with an admissible number
of input signals and a saving. Two things
have to be shown. First, that the cones are the same (`ConesArePaths`, `ConesAreUnions`): the TFI of a
root is the set of nodes with a path to it, one inclusion by the closure clause of `ConesOK` and the other
because `Downstream` is least, so that `FinalOK`, which speaks of indices in `sort_list`, says that
the walk's result contains every fanout-free set and is one. Second, that the choice is what it
says (`PickInv`): no output has recorded inputs, the maximum never falls below zero and is positive
once there is a candidate, and the candidate's number of recorded inputs is admissible. The
property leaves out roots without recorded inputs (finding 1), for which the file
holds any inputs.

**`BuildBDDProofs`.** That each BDD is its node's function cannot be shown of
finished nodes alone: a gate is built from an activation that is suspended whenever a
fanin has to be built first. `BuildInv` therefore says of every activation on the
stack (`FrameOK`) that its sum is the disjunction of the lines before the current one,
its product the conjunction of the pins before the current one, and that every fanin
these lines and pins constrain has been built. The last makes the first
two survive whatever is built in between (`AllKept`): a BDD, once there, is never
replaced by a different one, not even when a cycle with `-` pins lets a gate be entered
twice (`EndGateOK`: both activations end with the same function). `NodeOK` says the same of
built gates. `InputsInOrder` gives the variables: the loop over the `.inputs`
line has built exactly the inputs before `next`, and no gate is open
during it, so that the recursion never meets an input without a variable.

`OverflowExactlyOnCycles` needs to know why an activation is on the stack. `RecInv`: each
waits, at a pin its line constrains, for the node of the one above it (`ChainOK`); no node with a
BDD needs itself (`AcyclicOK`), since all it needs has been built. When the stack
is as deep as there are nodes, and one more gate is called, two activations are of the same node
(pigeonhole) and the chain between them is a cycle of needs. `Needed` is a recursion,
too; it is used only through the facts that it is closed and least.

`ReferencesCorrect` counts. For the regular node `r` of a function: one reference for each node that has been
built with it, one for every line of that node behind which the product stays
referenced, and those of the activations: their sum, their product once started, and their
leaked lines (`NodeRefs`, `StackRefs`). `AccountOK` says that the bag of references is exactly that.
One lemma for each step says which of the summands it changes by one.

**`ResynthesisProofs`.** First what the arrays of the scripts hold. They are put together
by `FlattenSeq`, a recursion, and what it returns is shown by going up its argument: every
element of every part, once (`FlattenFacts`), whence what `Without`, `Unique` and the
sieve do. `RestInv`: the file has one `.names` line for each gate, and of those passed
the rest has the ones that are not found; `GatesSplit` is its last state. The trees that
MATLAB may print are a recursion on the number of variables; `IsTree` is what the proofs use
of them (`TracedTrees`): k - 1 lines, no wire driven twice, the root last, and whatever a line reads is a
variable of the candidate or an inner wire driven on an earlier line. `HashFacts`: the table takes
two wires to one name only if it has no name for either. `SynInv` adds that the cone is
renamed line by line and merged behind the rest.

From it, `MergedFacts` and `ReadFacts` say what stands on a line that the reader sees: a line of
the circuit outside the cone, or a renamed one. `NothingDrivenTwice`, `NothingDangles` and
`OutputsAreDriven` compare the two kinds: names of the cone are free again because the
rest lost exactly those gates (`GatesSplit`), and the gates left read nothing of the
cone but its output because it is fanout-free. `EveryWireIsNamed` is a count: every gate of the cone but
its output, and every input of the candidate, is read at a pin of the cone, differently for each,
so that 2n pins serve n - 1 gates and at most n + 1 inputs, while k inputs need k - 2 names.
`NoNewCycle` gives an order in which every pin of the new circuit goes upwards (`Follows`): outside
the cone by the set of nodes above in the old circuit, where all nodes of the new cone count as
its output, and within the cone by the line. `Downstream` is a recursion on the number
of steps; the proofs use that it is closed under readers and least (`DownstreamClosed`,
`DownstreamLeast`).

**`ScriptProofs`: the driver.** The properties speak of results; the invariant must speak of
files. `FreshSoFar`: until a step of this iteration fails, every file that a
step before the current one writes holds this iteration only. `HistoryExplained`: what a
file holds of iteration j outlived only iterations in which a step failed. The
connection is a fact about the script (`SourcesWritten`): every file a step
reads is written by an earlier step of the same iteration, and never removed
after being written (`RemovedBefore`). A stale file can therefore only be read
if its writer failed.

**`ScriptProofs`: the covers.** What a cube is expanded to would be a recursion over its
dashes; the invariant avoids it by speaking of sets of rows. The pending cubes and the rows
already returned make up the cube of the call (`Partly`), and they are in ascending
order, every row of one below every row of the next (`Ordered`): replacing the first `-` by 0
and by 1 splits a cube into two that keep this. When nothing is pending the rows are those of
the cube, each once, ascending (`Sorted`), so that there are as many as the cube covers,
and the k-th from the end is the one that k rows are not smaller than: the place
`TableListsCover` gives it. The arguments are strings, not columns; that they are the columns
of these cubes, followed by earlier results (`Calling`), and that joining the columns of a
row gives the row back (`RowJoined`), is a matter of `FlattenSeq`, whose recursion is followed
by `UpTo` once more. Between the lines the parser holds the rows of all cubes read so far, whatever
other lines were in between, and `count_minterms.pl` as many strings as the last cube has rows
(`Collected`, `Counted`): the earlier results behind the columns have no `-`, make
each string longer and add none. `RowsNumber` is the 2^n that the count prints.

**`BranchAndBoundProofs`.** First the operators. A table laid out as a map and read
back is the table, and the other way round (`TableOfMapOf`, `MapOfTableOf`).
`CandidatesListed` says what is in the list of candidates, `BestIsLeast` which one
`approximation_core` returns. A decomposable map has its own vectors among
them, so that a candidate without error exists, and only one that leaves the map alone
has none (`AppliedKeeps`, `BestKeepsDecomposable`).

`SearchInv` describes the activations of the search: the node of each is a part of the
table above it, what has come back from its children is a tree as it should be
(`TreeOK`), and once its last branch is done it has chosen one, unless it is a leaf; for the first
branch is never pruned, its bound being above any error (`ErrorBelowInfinity`). A tree
cannot be described by recursion here; it is described by closure: `TreeOK(n)` if `n` is in
a set of nodes each of which is right by itself and has its chosen children in the set. From
it every unit the search makes is the unit of a split (`UnitOK`), whose map
follows one vector in its rows and one in its columns; tracing keeps that
(`TracedFollows`), though it replaces the vectors, and so the two-by-two table of a
gate is well defined wherever it looks its entries up (`RowOf`, `ColumnOf`: the cases in which
only one of the vectors was set).

`WriteInv` says of the gates written so far that there is a function from their wires to
vectors over all inputs, the same as long as the circuit grows (`Drawn`): each gate reads
inputs and wires of *earlier* gates and drives the vector its table gives (`Circuit`), and
each child that has returned drives the table of its leaf or the map that was traced for
it (`KnowsWritten`). The names are handled by prefixes: an activation
writes only below its own name, and what lies below the child it is about to
visit is still free (`CallsOK`, `Drives`), so no wire is driven twice. A circuit of this
kind has exactly one valuation at which no gate changes its output (`SettledOnce`). Together
these are `CircuitComputesTable`. If the tree is flat, the children have nothing
to trace, so that the map traced in the writing is the one the error was counted on, and
the differing entries of two maps are as many as those of their tables
(`ErrorIsDistance`): `ExactErrorIsExact`.

| Theorem | Property |
|---|---|
| `ReadTypeCorrect` | `TypeOK` |
| `ReaderDelivers` | `ReturnsWellFormed` |
| `FileInvariant` | `Spec => []FileInv` |
| `ReturnsExactlyLegal` | `ReturnsIffLegal` |
| `QueueInvariant` | `Spec => []QueueInv` |
| `CellsAccounted` | `NoLeakNoDangle` |
| `ListIsFifo` | `FifoSpec` |
| `TopTypeCorrect` | `TopTypeOK` |
| `TopOrderCorrect` | `FaninsFirst` |
| `TopSortsOnce` | `NoDuplicates` |
| `TopLosesOnlyStuck` | `LeftoverIsStuck` |
| `MffcTypeCorrect` | `MffcTypeOK` |
| `MffcNeverExits` | `NeverExits` |
| `MffcWalkSettles` | `WalkSettled` |
| `MffcConesFanoutFree` | `MffcFanoutFree` |
| `MffcConesMaximal` | `MffcMaximal` |
| `CandImplementsMffc` | `CandSpec => MffcSpec` |
| `ChoiceIsBest` | `BestCandidate` |
| `WrittenIsClosed` | `WrittenCircuitClosed` |
| `WrittenSevers` | `WrittenCircuitSevers` |
| `NoInputForNothing` | `InputsFeedElsewhere` |
| `PickInvariant` | `CandSpec => []PickInv` |
| `CandidatesAreFound` | `WrittenIsCandidate` |
| `BuildInvariant` | `Spec => []BuildInv` |
| `EveryBddIsItsFunction` | `ComputesNodeFunctions` |
| `RecursionInvariant` | `Spec => []RecInv` |
| `OverflowExactlyOnCycles` | `OverflowsOnCycles` |
| `ReferencesCorrect` | `ReferencesAccounted` |
| `CutOut`, `NewCircuit` | `SynSpec => []RestInv`, `SynSpec => []SynInv` |
| `GatesSplit` | `GatesAreSplit` |
| `NothingDrivenTwice` | `DrivenOnce` |
| `NothingDangles` | `PinsDriven` |
| `OutputsAreDriven` | `OutputsSurvive` |
| `EveryWireIsNamed` | `TwoPinsNameEveryWire` |
| `NoNewCycle` | `NoCycle` |
| `PipelineTypeCorrect` | `TypeOK` |
| `CleanIterationsAreFresh` | `CleanIterationIsFresh` |
| `StaleResultsAreExplained` | `StaleIsExplained` |
| `ExpansionCorrect` | `MTSpec => []MTInv` |
| `TableIsCover` | `TableListsCover` |
| `CountIsLastCube` | `CountsLastCube` |
| `TableOfMapOf`, `MapOfTableOf`, `AppliedKeeps`, `BestKeepsDecomposable` | |
| `SearchCorrect` | `Spec => []SearchInv` |
| `DecomposableMapsKept` | `KeepsDecomposableMaps` |
| `TracedFollows`, `SettledOnce` | |
| `WritingCorrect` | `Spec => [](SearchInv /\ WriteInv)` |
| `CircuitIsRight` | `CircuitComputesTable` |
| `ErrorIsExact` | `ExactErrorIsExact` |

Only model-checked: termination (`MffcTerminates`, `BuildEnds`: the prover
does not do liveness under fairness); `PruningLosesNothing`, whose reference is a recursive
operator and which is not known of more than four inputs; and
`SearchFailsOnlyOnTrivialTables`, a fact about four inputs at most that TLC finds by trying all
the splits.

## 5. What is not modelled

- Tokenising (`readString`, `readList`), running out of memory in the reader, and the
  printing and freeing of its networks: pure input and output.
- The table of a gate, except in `BuildBDD`: the reader keeps the polarity it
  derives, `RestPart` whether a row looks like one.
- In `print_MFFC_covers`: the variable orders that `main` does not select (a given
  order, depth-first search with levels), local BDDs and the dropping of BDDs, which
  its options switch off; its copy of the reader.
- In `approximation_matlab`: the mode that tries all values of tied columns
  (`main1` selects the fast one), older main programs, and scripts that test parts.
- `print_MFFC` repeats the reader, the queue and the passes modelled here and adds
  a histogram; the pipeline does not call it.
- `print_truthTable.cc` does not compile and belongs to no program.
- The simulation scripts generate text for a commercial simulator.
- CUDD and ABC, which are third-party and nearly all of the repository's lines.
  CUDD appears in `BuildBDD` as the functions and references that the
  program sees.

## 6. Plan

In this order:

1. Composition: the circuit of iteration i + 1 is the merged circuit of
   iteration i, so that what `Resynthesis` guarantees must be enough for
   `FindCandidate`.
2. The exhaustive mode for tied columns in `Kmap`.
3. The histogram of `print_MFFC`.
