--------------------------- MODULE BnetReadProofs ---------------------------
(***************************************************************************)
(* What Bnet_ReadNetwork returns is well-formed, for every file: the       *)
(* fanout lists, copied out of name_fanouts, agree with the fanin lists    *)
(* and with the counts taken through the symbol table.  And it returns a   *)
(* network exactly for the files that define one.                          *)
(***************************************************************************)
EXTENDS BnetRead, FiniteSetTheorems, TLAPS

Node == [name : Name, type : NodeType, inputs : Seq(Name), polarity : {0, 1}]

\* The list of n in name_fanouts.
Listed(n) == IF n \in DOMAIN name_fanouts THEN name_fanouts[n] ELSE <<>>

OneDriver == \A i, j \in DOMAIN nodes : nodes[i].name = nodes[j].name => i = j

\* Only the nodes of gates have pins.
InputsHaveNoPins == \A i \in DOMAIN nodes : nodes[i].type = "INPUT" => nodes[i].inputs = <<>>

\* Every name listed is the name of a node.
ListedAreNodes == \A n \in Name : \A p \in DOMAIN Listed(n) : Listed(n)[p] \in Driven

\* A node is listed under n once for each of its pins that names n.  With two
\* drivers of one name their entries could not be told apart.
PinsAreListed ==
    OneDriver => \A n \in Name : \A i \in DOMAIN nodes :
        Cardinality(Pins(Listed(n), nodes[i].name)) = Cardinality(Pins(nodes[i].inputs, n))

\* As many names are listed under n as pins read it.
CountsAgree ==
    \A n \in Name : /\ IsFiniteSet(PinsReading(n))
                    /\ Cardinality(PinsReading(n)) = Len(Listed(n))

\* What each pass over the nodes has established.
PassesDone ==
    /\ phase \in {"count", "fanouts", "returned"} => OneDriver
    /\ phase \in {"fanouts", "returned"} =>
          /\ \A i \in DOMAIN nodes : Names(nodes[i].inputs) \subseteq Driven
          /\ nfo = [i \in DOMAIN nodes |-> Cardinality(PinsReading(nodes[i].name))]
    /\ phase = "returned" => fanouts = [i \in DOMAIN nodes |-> Listed(nodes[i].name)]

ReadInv ==
    /\ TypeOK /\ InputsHaveNoPins /\ ListedAreNodes /\ PinsAreListed /\ CountsAgree
    /\ PassesDone

-----------------------------------------------------------------------------
(* Sequences, and the positions in them.                                   *)

LEMMA PinsFinite ==
  ASSUME NEW S, NEW s \in Seq(S), NEW x
  PROVE  /\ Pins(s, x) \subseteq 1 .. Len(s)
         /\ IsFiniteSet(Pins(s, x)) /\ Cardinality(Pins(s, x)) \in Nat
<1>1. Pins(s, x) \subseteq 1 .. Len(s) /\ Len(s) \in Nat
  BY DEF Pins
<1>2. IsFiniteSet(1 .. Len(s))
  BY <1>1, FS_Interval
<1>3. IsFiniteSet(Pins(s, x))
  BY <1>1, <1>2, FS_Subset
<1>4. QED
  BY <1>1, <1>3, FS_CardinalityType

\* A sequence put behind another.
LEMMA BehindTheList ==
  ASSUME NEW S, NEW s \in Seq(S), NEW t \in Seq(S)
  PROVE  /\ s \o t \in Seq(S)
         /\ Len(s \o t) = Len(s) + Len(t)
         /\ DOMAIN (s \o t) = 1 .. Len(s) + Len(t)
         /\ \A i \in 1 .. Len(s) : (s \o t)[i] = s[i]
         /\ \A i \in Len(s) + 1 .. Len(s) + Len(t) : (s \o t)[i] = t[i - Len(s)]
  OBVIOUS

\* k copies of x put behind the sequence s.
WithCopies(s, x, k) == s \o [p \in 1 .. k |-> x]

LEMMA CopiesBehind ==
  ASSUME NEW S, NEW s \in Seq(S), NEW x \in S, NEW k \in Nat
  PROVE  LET t == WithCopies(s, x, k) IN
         /\ t \in Seq(S) /\ Len(t) = Len(s) + k /\ DOMAIN t = 1 .. Len(s) + k
         /\ \A p \in 1 .. Len(s) : t[p] = s[p]
         /\ \A p \in Len(s) + 1 .. Len(s) + k : t[p] = x
         /\ \A p \in DOMAIN t : t[p] = x \/ (p \in DOMAIN s /\ t[p] = s[p])
<1> DEFINE c == [p \in 1 .. k |-> x]
           t == s \o c
<1>1. c \in Seq(S) /\ Len(c) = k /\ \A p \in 1 .. k : c[p] = x
  <2>1. c \in [1 .. k -> S] /\ \A p \in 1 .. k : c[p] = x
    OBVIOUS
  <2> HIDE DEF c
  <2>2. QED
    BY <2>1
<1>2. /\ s \o c \in Seq(S) /\ Len(s \o c) = Len(s) + Len(c)
      /\ DOMAIN (s \o c) = 1 .. Len(s) + Len(c)
      /\ \A p \in 1 .. Len(s) : (s \o c)[p] = s[p]
      /\ \A p \in Len(s) + 1 .. Len(s) + Len(c) : (s \o c)[p] = c[p - Len(s)]
  BY <1>1, BehindTheList
<1> HIDE DEF c
<1>3. \A p \in Len(s) + 1 .. Len(s) + k : p - Len(s) \in 1 .. k
  OBVIOUS
<1>4. /\ t \in Seq(S) /\ Len(t) = Len(s) + k /\ DOMAIN t = 1 .. Len(s) + k
      /\ \A p \in 1 .. Len(s) : t[p] = s[p]
      /\ \A p \in Len(s) + 1 .. Len(s) + k : t[p] = c[p - Len(s)]
  BY <1>1, <1>2
<1> HIDE DEF t
<1>5. \A p \in Len(s) + 1 .. Len(s) + k : t[p] = x
  BY <1>1, <1>3, <1>4
<1>6. Len(s) \in Nat /\ DOMAIN s = 1 .. Len(s)
  OBVIOUS
<1>7. \A p \in DOMAIN t : t[p] = x \/ (p \in DOMAIN s /\ t[p] = s[p])
  BY <1>4, <1>5, <1>6
<1>8. QED
  BY <1>4, <1>5, <1>7 DEF t, c, WithCopies

\* The positions of another element stay, those of x are the copies.
LEMMA OtherPins ==
  ASSUME NEW S, NEW s \in Seq(S), NEW x \in S, NEW k \in Nat,
         NEW y, y # x
  PROVE  Pins(WithCopies(s, x, k), y) = Pins(s, y)
<1> DEFINE t == WithCopies(s, x, k)
<1>1. /\ DOMAIN t = 1 .. Len(s) + k
      /\ \A p \in 1 .. Len(s) : t[p] = s[p]
      /\ \A p \in Len(s) + 1 .. Len(s) + k : t[p] = x
  <2>1. DOMAIN t = 1 .. Len(s) + k
    BY CopiesBehind
  <2>2. \A p \in 1 .. Len(s) : t[p] = s[p]
    BY CopiesBehind
  <2>3. \A p \in Len(s) + 1 .. Len(s) + k : t[p] = x
    BY CopiesBehind
  <2>4. QED
    BY <2>1, <2>2, <2>3
<1> HIDE DEF t
<1>2. Len(s) \in Nat /\ DOMAIN s = 1 .. Len(s)
  OBVIOUS
<1>3. Pins(t, y) = Pins(s, y)
  BY <1>1, <1>2 DEF Pins
<1>4. QED
  BY <1>3 DEF t

LEMMA OwnPins ==
  ASSUME NEW S, NEW s \in Seq(S), NEW x \in S, NEW k \in Nat,
         Pins(s, x) = {}
  PROVE  Cardinality(Pins(WithCopies(s, x, k), x)) = k
<1> DEFINE t == WithCopies(s, x, k)
<1>1. /\ DOMAIN t = 1 .. Len(s) + k
      /\ \A p \in 1 .. Len(s) : t[p] = s[p]
      /\ \A p \in Len(s) + 1 .. Len(s) + k : t[p] = x
  <2>1. DOMAIN t = 1 .. Len(s) + k
    BY CopiesBehind
  <2>2. \A p \in 1 .. Len(s) : t[p] = s[p]
    BY CopiesBehind
  <2>3. \A p \in Len(s) + 1 .. Len(s) + k : t[p] = x
    BY CopiesBehind
  <2>4. QED
    BY <2>1, <2>2, <2>3
<1> HIDE DEF t
<1>2. Len(s) \in Nat /\ DOMAIN s = 1 .. Len(s)
  OBVIOUS
<1>3. Pins(t, x) = Len(s) + 1 .. Len(s) + k
  BY <1>1, <1>2 DEF Pins
<1>4. Cardinality(Len(s) + 1 .. Len(s) + k) = k
  BY <1>2, FS_Interval
<1>5. QED
  BY <1>3, <1>4 DEF t

\* Pairs with one first component are as many as their second components.
LEMMA PairsCounted ==
  ASSUME NEW i, NEW P, IsFiniteSet(P)
  PROVE  IsFiniteSet({i} \X P) /\ Cardinality({i} \X P) = Cardinality(P)
<1>1. IsFiniteSet({i}) /\ Cardinality({i}) = 1
  BY FS_Singleton
<1>2. Cardinality(P) \in Nat
  BY FS_CardinalityType
<1>3. IsFiniteSet({i} \X P) /\ Cardinality({i} \X P) = 1 * Cardinality(P)
  BY <1>1, FS_Product
<1>4. QED
  BY <1>2, <1>3

-----------------------------------------------------------------------------
(* Nodes put behind the list.                                              *)

LEMMA TypeFacts ==
  ASSUME TypeOK
  PROVE  /\ nodes \in Seq(Node) /\ Len(nodes) \in Nat /\ DOMAIN nodes = 1 .. Len(nodes)
         /\ \A i \in DOMAIN nodes : nodes[i] \in Node
         /\ \A i \in DOMAIN nodes :
               /\ nodes[i].name \in Name /\ nodes[i].type \in NodeType
               /\ nodes[i].inputs \in Seq(Name)
         /\ \A n \in Name : Listed(n) \in Seq(Name)
<1>1. nodes \in Seq(Node)
  BY DEF TypeOK, Node
<1>2. \A i \in DOMAIN nodes : nodes[i] \in Node
  BY <1>1
<1>3. \A i \in DOMAIN nodes :
         /\ nodes[i].name \in Name /\ nodes[i].type \in NodeType
         /\ nodes[i].inputs \in Seq(Name)
  BY <1>2 DEF Node
<1>4. \A n \in Name : Listed(n) \in Seq(Name)
  BY DEF TypeOK, Listed
<1>5. QED
  BY <1>1, <1>2, <1>3, <1>4

\* What remains true of the nodes that were there.
LEMMA OlderNodes ==
  ASSUME TypeOK, NEW s \in Seq(Node), nodes' = nodes \o s
  PROVE  /\ nodes' \in Seq(Node)
         /\ Len(s) \in Nat /\ DOMAIN nodes' = 1 .. Len(nodes) + Len(s)
         /\ \A i \in DOMAIN nodes : i \in DOMAIN nodes' /\ nodes'[i] = nodes[i]
         /\ \A i \in DOMAIN nodes' : i \notin DOMAIN nodes =>
               \E j \in DOMAIN s : nodes'[i] = s[j] /\ i = Len(nodes) + j
         /\ Driven \subseteq Driven'
         /\ OneDriver' => OneDriver
         /\ OneDriver' => \A i \in DOMAIN nodes' : i \notin DOMAIN nodes => nodes'[i].name \notin Driven
<1>1. nodes \in Seq(Node) /\ Len(nodes) \in Nat /\ DOMAIN nodes = 1 .. Len(nodes)
  BY TypeFacts
<1>2. Len(s) \in Nat /\ DOMAIN s = 1 .. Len(s)
  OBVIOUS
<1>3. /\ nodes' \in Seq(Node)
      /\ DOMAIN nodes' = 1 .. Len(nodes) + Len(s)
      /\ \A i \in 1 .. Len(nodes) : nodes'[i] = nodes[i]
      /\ \A i \in Len(nodes) + 1 .. Len(nodes) + Len(s) : nodes'[i] = s[i - Len(nodes)]
  BY <1>1, BehindTheList
<1>4. \A i \in DOMAIN nodes : i \in DOMAIN nodes' /\ nodes'[i] = nodes[i]
  BY <1>1, <1>2, <1>3
<1>5. ASSUME NEW i \in DOMAIN nodes', i \notin DOMAIN nodes
      PROVE  \E j \in DOMAIN s : nodes'[i] = s[j] /\ i = Len(nodes) + j
  <2>1. i \in Len(nodes) + 1 .. Len(nodes) + Len(s)
    BY <1>1, <1>2, <1>3, <1>5
  <2>2. i - Len(nodes) \in DOMAIN s /\ i = Len(nodes) + (i - Len(nodes))
    BY <1>1, <1>2, <2>1
  <2>3. QED
    BY <1>3, <2>1, <2>2
<1>6. Driven \subseteq Driven'
  BY <1>4 DEF Driven
<1>7. OneDriver' => OneDriver
  BY <1>4 DEF OneDriver
<1>8. ASSUME OneDriver', NEW i \in DOMAIN nodes', i \notin DOMAIN nodes PROVE nodes'[i].name \notin Driven
  BY <1>4, <1>8 DEF OneDriver, Driven
<1>9. QED
  BY <1>2, <1>3, <1>4, <1>5, <1>6, <1>7, <1>8

\* The pins are those of the older nodes and those of the new ones.
LEMMA PinsOfNodes ==
  ASSUME NEW n
  PROVE  /\ \A x : x \in PinsReading(n) <=>
                     \E i \in DOMAIN nodes : x \in {i} \X Pins(nodes[i].inputs, n)
         /\ \A x : x \in PinsReading(n)' <=>
                     \E i \in DOMAIN nodes' : x \in {i} \X Pins(nodes'[i].inputs, n)
<1>1. \A x : x \in PinsReading(n) <=>
               \E i \in DOMAIN nodes : x \in {i} \X Pins(nodes[i].inputs, n)
  BY DEF PinsReading, Pins
<1>2. \A x : x \in PinsReading(n)' <=>
               \E i \in DOMAIN nodes' : x \in {i} \X Pins(nodes'[i].inputs, n)
  BY DEF PinsReading, Pins
<1>3. QED
  BY <1>1, <1>2

\* A name that is listed is the name of a node, so that of a new node is not.
LEMMA NotListedYet ==
  ASSUME ReadInv, NEW m, m \notin Driven, NEW n \in Name
  PROVE  Pins(Listed(n), m) = {}
  BY DEF ReadInv, ListedAreNodes, Pins

-----------------------------------------------------------------------------
(* The steps.                                                              *)

LEMMA ReadInit == Init => ReadInv
<1> SUFFICES ASSUME Init PROVE ReadInv
  OBVIOUS
<1>1. nodes = <<>> /\ DOMAIN nodes = {} /\ phase = "parse" /\ DOMAIN name_fanouts = {}
  BY DEF Init
<1>2. TypeOK
  BY <1>1, BoundAssumption DEF Init, TypeOK
<1>3. \A n : Listed(n) = <<>> /\ PinsReading(n) = {}
  BY <1>1 DEF Listed, PinsReading
<1>4. CountsAgree
  BY <1>3, FS_EmptySet DEF CountsAgree
<1>5. QED
  BY <1>1, <1>2, <1>3, <1>4
  DEF ReadInv, InputsHaveNoPins, ListedAreNodes, PinsAreListed, PassesDone

\* A step that enters nothing.
LEMMA NothingEntered ==
  ASSUME ReadInv, UNCHANGED <<nodes, name_fanouts>>, TypeOK', PassesDone'
  PROVE  ReadInv'
<1>1. \A n : Listed(n)' = Listed(n) /\ PinsReading(n)' = PinsReading(n)
  BY DEF Listed, PinsReading
<1>2. Driven' = Driven /\ OneDriver' = OneDriver
  BY DEF Driven, OneDriver
<1>3. InputsHaveNoPins' /\ ListedAreNodes' /\ PinsAreListed' /\ CountsAgree'
  BY <1>1, <1>2 DEF ReadInv, InputsHaveNoPins, ListedAreNodes, PinsAreListed, CountsAgree
<1>4. QED
  BY <1>3 DEF ReadInv

\* A directive that is read makes the file longer by one.
LEMMA ReadOK ==
  ASSUME TypeOK, NEW d \in Directives, Read(d)
  PROVE  file' \in Seq(Directives) /\ Len(file') <= MaxDirectives /\ phase = "parse"
  BY BoundAssumption DEF TypeOK, Read

\* .inputs: nodes without pins.
LEMMA InputsEntered ==
  ASSUME ReadInv, TypeOK', phase' = "parse", name_fanouts' = name_fanouts,
         NEW s \in Seq(Node), \A i \in DOMAIN s : s[i].inputs = <<>>,
         nodes' = nodes \o s
  PROVE  ReadInv'
<1>1. TypeOK
  BY DEF ReadInv
<1>2. /\ \A i \in DOMAIN nodes : i \in DOMAIN nodes' /\ nodes'[i] = nodes[i]
      /\ \A i \in DOMAIN nodes' : i \notin DOMAIN nodes => nodes'[i].inputs = <<>>
      /\ Driven \subseteq Driven'
      /\ OneDriver' => OneDriver
      /\ OneDriver' => \A i \in DOMAIN nodes' : i \notin DOMAIN nodes => nodes'[i].name \notin Driven
  BY SMTT(40), <1>1, OlderNodes
<1>3. \A n : Listed(n)' = Listed(n)
  BY DEF Listed
<1>4. \A x : Pins(<<>>, x) = {}
  BY DEF Pins
<1>5. InputsHaveNoPins'
  BY <1>2 DEF ReadInv, InputsHaveNoPins
<1>6. ListedAreNodes'
  BY <1>2, <1>3 DEF ReadInv, ListedAreNodes
<1>7. PinsAreListed'
  <2> SUFFICES ASSUME OneDriver', NEW n \in Name, NEW i \in DOMAIN nodes'
               PROVE  Cardinality(Pins(Listed(n), nodes'[i].name))
                        = Cardinality(Pins(nodes'[i].inputs, n))
    BY <1>3 DEF PinsAreListed
  <2>1. CASE i \in DOMAIN nodes
    BY <1>2, <2>1 DEF ReadInv, PinsAreListed
  <2>2. CASE i \notin DOMAIN nodes
    <3>1. nodes'[i].name \notin Driven /\ nodes'[i].inputs = <<>>
      BY <1>2, <2>2
    <3>2. Pins(Listed(n), nodes'[i].name) = {} /\ Pins(nodes'[i].inputs, n) = {}
      BY <1>4, <3>1, NotListedYet
    <3>3. QED
      BY <3>2
  <2>3. QED
    BY <2>1, <2>2
<1>8. CountsAgree'
  <2>1. ASSUME NEW n \in Name PROVE PinsReading(n)' = PinsReading(n)
    <3>1. \A i \in DOMAIN nodes' : i \notin DOMAIN nodes => {i} \X Pins(nodes'[i].inputs, n) = {}
      BY <1>2, <1>4
    <3>2. ASSUME NEW x
          PROVE  (\E i \in DOMAIN nodes' : x \in {i} \X Pins(nodes'[i].inputs, n))
                   <=> \E i \in DOMAIN nodes : x \in {i} \X Pins(nodes[i].inputs, n)
      BY <1>2, <3>1
    <3>3. \A x : x \in PinsReading(n)' <=> x \in PinsReading(n)
      BY <3>2, PinsOfNodes
    <3>4. QED
      BY <3>3, SetExtensionality
  <2>2. QED
    BY <1>3, <2>1 DEF ReadInv, CountsAgree
<1>9. PassesDone'
  BY DEF PassesDone
<1>10. QED
  BY <1>5, <1>6, <1>7, <1>8, <1>9 DEF ReadInv

\* .names: one node, listed once for each of its pins.
LEMMA GateEntered ==
  ASSUME ReadInv, TypeOK', phase' = "parse", NEW rec \in Node, rec.type # "INPUT",
         nodes' = Append(nodes, rec), name_fanouts' = WithFanout(rec.inputs, rec.name)
  PROVE  ReadInv'
<1> DEFINE ins == rec.inputs
           out == rec.name
           k(n) == Cardinality(Pins(ins, n))
           new == Len(nodes) + 1
<1>1. TypeOK /\ ins \in Seq(Name) /\ out \in Name
  BY DEF ReadInv, Node
<1>2. /\ nodes \in Seq(Node) /\ Len(nodes) \in Nat /\ DOMAIN nodes = 1 .. Len(nodes)
      /\ \A n \in Name : Listed(n) \in Seq(Name)
  BY <1>1, TypeFacts
<1>3. /\ DOMAIN nodes' = DOMAIN nodes \cup {new} /\ new \notin DOMAIN nodes /\ nodes'[new] = rec
      /\ \A i \in DOMAIN nodes : nodes'[i] = nodes[i]
  BY <1>2
<1>4. /\ \A i \in DOMAIN nodes : nodes'[i] = nodes[i]
      /\ Driven' = Driven \cup {out}
      /\ OneDriver' => OneDriver /\ out \notin Driven
  BY <1>3 DEF Driven, OneDriver
<1>5. \A n \in Name : k(n) \in Nat /\ IsFiniteSet(Pins(ins, n))
  BY <1>1, PinsFinite
<1>6. ASSUME NEW n \in Name PROVE Listed(n)' = WithCopies(Listed(n), out, k(n))
  <2>1. CASE n \in DOMAIN name_fanouts \cup Names(ins)
    BY <2>1 DEF Listed, WithFanout, WithCopies
  <2>2. CASE n \notin DOMAIN name_fanouts \cup Names(ins)
    <3>1. Pins(ins, n) = {}
      BY <2>2 DEF Names, Pins
    <3>2. k(n) = 0
      BY <3>1, FS_EmptySet
    <3>3. Listed(n)' = <<>> /\ Listed(n) = <<>>
      BY <2>2 DEF Listed, WithFanout
    <3>4. WithCopies(<<>>, out, 0) = <<>>
      BY DEF WithCopies
    <3>5. QED
      BY <3>2, <3>3, <3>4
  <2>3. QED
    BY <2>1, <2>2
<1>7. ASSUME NEW n \in Name
      PROVE  /\ Len(Listed(n)') = Len(Listed(n)) + k(n)
             /\ \A p \in DOMAIN Listed(n)' :
                   Listed(n)'[p] = out \/ (p \in DOMAIN Listed(n) /\ Listed(n)'[p] = Listed(n)[p])
             /\ \A y : y # out => Pins(Listed(n)', y) = Pins(Listed(n), y)
             /\ Pins(Listed(n), out) = {} => Cardinality(Pins(Listed(n)', out)) = k(n)
  <2>1. PICK old \in Seq(Name), j \in Nat : old = Listed(n) /\ j = k(n)
    BY <1>2, <1>5
  <2>2. PICK t, g : t = Listed(n)' /\ g = out /\ t = WithCopies(old, g, j)
    BY <1>6, <2>1
  <2>3. g \in Name
    BY <1>1, <2>2
  <2>4. /\ Len(t) = Len(old) + j
        /\ \A p \in DOMAIN t : t[p] = g \/ (p \in DOMAIN old /\ t[p] = old[p])
        /\ \A y : y # g => Pins(t, y) = Pins(old, y)
        /\ Pins(old, g) = {} => Cardinality(Pins(t, g)) = j
    <3>1. Len(WithCopies(old, g, j)) = Len(old) + j
      BY <2>3, CopiesBehind
    <3>2. \A p \in DOMAIN WithCopies(old, g, j) :
             \/ WithCopies(old, g, j)[p] = g
             \/ p \in DOMAIN old /\ WithCopies(old, g, j)[p] = old[p]
      BY <2>3, CopiesBehind
    <3>3. \A y : y # g => Pins(t, y) = Pins(old, y)
      BY <2>2, <2>3, OtherPins
    <3>4. Pins(old, g) = {} => Cardinality(Pins(t, g)) = j
      BY <2>2, <2>3, OwnPins
    <3>5. QED
      BY <2>2, <3>1, <3>2, <3>3, <3>4
  <2>5. QED
    BY <2>1, <2>2, <2>4
<1>8. InputsHaveNoPins'
  BY <1>3 DEF ReadInv, InputsHaveNoPins
<1>9. ListedAreNodes'
  BY <1>4, <1>7 DEF ReadInv, ListedAreNodes
<1>10. PinsAreListed'
  <2> SUFFICES ASSUME OneDriver', NEW n \in Name, NEW i \in DOMAIN nodes'
               PROVE  Cardinality(Pins(Listed(n)', nodes'[i].name))
                        = Cardinality(Pins(nodes'[i].inputs, n))
    BY DEF PinsAreListed
  <2>1. OneDriver /\ out \notin Driven
    BY <1>4
  <2>2. CASE i \in DOMAIN nodes
    <3>1. nodes'[i] = nodes[i] /\ nodes[i].name # out
      BY <1>3, <2>1, <2>2 DEF Driven
    <3>2. Pins(Listed(n)', nodes[i].name) = Pins(Listed(n), nodes[i].name)
      BY <1>7, <3>1
    <3>3. QED
      BY <2>1, <2>2, <3>1, <3>2 DEF ReadInv, PinsAreListed
  <2>3. CASE i = new
    <3>1. Pins(Listed(n), out) = {}
      BY <2>1, NotListedYet
    <3>2. QED
      BY <1>3, <1>7, <2>3, <3>1
  <2>4. QED
    BY <1>3, <2>2, <2>3
<1>11. CountsAgree'
  <2> SUFFICES ASSUME NEW n \in Name
               PROVE  /\ IsFiniteSet(PinsReading(n)')
                      /\ Cardinality(PinsReading(n)') = Len(Listed(n)')
    BY DEF CountsAgree
  <2> DEFINE old == PinsReading(n)
             own == {new} \X Pins(ins, n)
  <2>1. PinsReading(n)' = old \cup own
    <3>1. \A i \in DOMAIN nodes : {i} \X Pins(nodes'[i].inputs, n) = {i} \X Pins(nodes[i].inputs, n)
      BY <1>3
    <3>2. {new} \X Pins(nodes'[new].inputs, n) = own
      BY <1>3
    <3> HIDE DEF own, new
    <3>3. ASSUME NEW x
          PROVE  (\E i \in DOMAIN nodes' : x \in {i} \X Pins(nodes'[i].inputs, n))
                   <=> (\/ \E i \in DOMAIN nodes : x \in {i} \X Pins(nodes[i].inputs, n)
                        \/ x \in own)
      BY <1>3, <3>1, <3>2
    <3>4. QED
      BY <3>3, PinsOfNodes
  <2>2. old \cap own = {}
    BY <1>3, PinsOfNodes
  <2>3. IsFiniteSet(old) /\ Cardinality(old) = Len(Listed(n))
    BY DEF ReadInv, CountsAgree
  <2>4. IsFiniteSet(own) /\ Cardinality(own) = k(n)
    BY <1>5, PairsCounted
  <2>5. Len(Listed(n)) \in Nat /\ k(n) \in Nat /\ Cardinality({}) = 0
    BY <1>2, <1>5, FS_EmptySet
  <2> HIDE DEF old, own, k
  <2>6. IsFiniteSet(old \cup own) /\ Cardinality(old \cup own) = Len(Listed(n)) + k(n)
    <3>1. PICK A, B : A = old /\ B = own
      OBVIOUS
    <3>2. IsFiniteSet(A) /\ IsFiniteSet(B) /\ A \cap B = {}
      BY <2>2, <2>3, <2>4, <3>1
    <3>3. /\ IsFiniteSet(A \cup B)
          /\ Cardinality(A \cup B) = Cardinality(A) + Cardinality(B) - Cardinality(A \cap B)
      BY <3>2, FS_Union
    <3>4. Cardinality(A \cap B) = 0
      BY <2>5, <3>2
    <3>5. PICK a \in Nat, b \in Nat :
            a = Len(Listed(n)) /\ b = k(n) /\ a = Cardinality(A) /\ b = Cardinality(B)
      BY <2>3, <2>4, <2>5, <3>1
    <3>6. Cardinality(A \cup B) = a + b
      BY <3>3, <3>4, <3>5
    <3>7. QED
      BY <3>1, <3>3, <3>5, <3>6
  <2>7. QED
    BY <1>7, <2>1, <2>6
<1>12. PassesDone'
  BY DEF PassesDone
<1>13. QED
  BY <1>8, <1>9, <1>10, <1>11, <1>12 DEF ReadInv

LEMMA ReadInputsOK ==
  ASSUME ReadInv, ReadInputs
  PROVE  ReadInv'
<1>1. TypeOK
  BY DEF ReadInv
<1>2. PICK d \in Directives :
        /\ Read(d)
        /\ IF d.names = <<>> THEN Fail
           ELSE /\ nodes' = nodes \o [i \in DOMAIN d.names |->
                                [name |-> d.names[i], type |-> "INPUT",
                                 inputs |-> <<>>, polarity |-> 0]]
                /\ UNCHANGED <<phase, outputs, name_fanouts>>
        /\ UNCHANGED <<nfo, fanouts, process>>
  BY DEF ReadInputs
<1>3. file' \in Seq(Directives) /\ Len(file') <= MaxDirectives /\ phase = "parse"
  BY <1>1, <1>2, ReadOK
<1>4. CASE d.names = <<>>
  <2>1. TypeOK' /\ PassesDone'
    BY <1>1, <1>2, <1>3, <1>4 DEF TypeOK, Fail, PassesDone
  <2>2. QED
    BY <1>2, <1>4, <2>1, NothingEntered DEF Fail
<1>5. CASE d.names # <<>>
  <2> DEFINE s == [i \in DOMAIN d.names |-> [name |-> d.names[i], type |-> "INPUT",
                                             inputs |-> <<>>, polarity |-> 0]]
  <2>1. s \in Seq(Node) /\ \A i \in DOMAIN s : s[i].inputs = <<>>
    <3>1. d.names \in Seq(Name)
      BY DirectivesAssumption
    <3>2. PICK names \in Seq(Name) : names = d.names
      BY <3>1
    <3>3. \A i \in 1 .. Len(names) : [name |-> names[i], type |-> "INPUT",
                                      inputs |-> <<>>, polarity |-> 0] \in Node
      BY DEF Node, NodeType
    <3>4. DOMAIN names = 1 .. Len(names) /\ Len(names) \in Nat
      OBVIOUS
    <3>5. s \in [1 .. Len(names) -> Node]
      BY <3>2, <3>3, <3>4
    <3>6. \A i \in DOMAIN s : s[i].inputs = <<>>
      OBVIOUS
    <3> HIDE DEF s
    <3>7. QED
      BY <3>4, <3>5, <3>6
  <2>2. nodes' = nodes \o s /\ UNCHANGED <<phase, outputs, name_fanouts>>
    BY <1>2, <1>5
  <2> HIDE DEF s
  <2>3. TypeOK'
    <3>1. nodes' \in Seq(Node)
      BY <1>1, <2>1, <2>2, OlderNodes
    <3>2. QED
      BY <1>1, <1>2, <1>3, <2>2, <3>1 DEF TypeOK, Node
  <2>4. QED
    BY <1>3, <2>1, <2>2, <2>3, InputsEntered
<1>6. QED
  BY <1>4, <1>5

LEMMA ReadNamesOK ==
  ASSUME ReadInv, ReadNames
  PROVE  ReadInv'
<1>1. TypeOK
  BY DEF ReadInv
<1>2. PICK d \in Directives :
        /\ Read(d)
        /\ IF d.names = <<>> THEN Fail
           ELSE LET ninp == Len(d.names) - 1
                    out == d.names[ninp + 1]
                    ins == SubSeq(d.names, 1, ninp)
                IN  /\ nodes' = Append(nodes,
                           [name |-> out, type |-> GateType(out, ninp), inputs |-> ins,
                            polarity |-> Polarity(d.lines)])
                    /\ name_fanouts' = WithFanout(ins, out)
                    /\ UNCHANGED <<phase, outputs>>
        /\ UNCHANGED <<nfo, fanouts, process>>
  BY DEF ReadNames
<1>3. file' \in Seq(Directives) /\ Len(file') <= MaxDirectives /\ phase = "parse"
  BY <1>1, <1>2, ReadOK
<1>4. CASE d.names = <<>>
  <2>1. TypeOK' /\ PassesDone'
    BY <1>1, <1>2, <1>3, <1>4 DEF TypeOK, Fail, PassesDone
  <2>2. QED
    BY <1>2, <1>4, <2>1, NothingEntered DEF Fail
<1>5. CASE d.names # <<>>
  <2> DEFINE ninp == Len(d.names) - 1
             out == d.names[ninp + 1]
             ins == SubSeq(d.names, 1, ninp)
             type == GateType(out, ninp)
             pol == Polarity(d.lines)
             rec == [name |-> out, type |-> type, inputs |-> ins, polarity |-> pol]
  <2>1. /\ nodes' = Append(nodes, rec) /\ name_fanouts' = WithFanout(ins, out)
        /\ UNCHANGED <<phase, outputs>>
    BY <1>2, <1>5
  <2>2. ins \in Seq(Name) /\ out \in Name
    <3>1. d.names \in Seq(Name)
      BY DirectivesAssumption
    <3>2. QED
      BY <1>5, <3>1
  <2>3. type \in NodeType /\ type # "INPUT" /\ pol \in {0, 1}
    BY DEF GateType, NodeType, Polarity
  <2> HIDE DEF ninp, out, ins, type, pol
  <2>4. rec \in Node /\ rec.type # "INPUT" /\ rec.inputs = ins /\ rec.name = out
    BY <2>2, <2>3 DEF Node
  <2> HIDE DEF rec
  <2>5. TypeOK'
    <3>1. nodes' \in Seq(Node)
      BY <1>1, <2>1, <2>4, TypeFacts
    <3>2. \A n \in DOMAIN name_fanouts' : n \in Name /\ name_fanouts'[n] \in Seq(Name)
      <4>1. SUFFICES ASSUME NEW n \in DOMAIN name_fanouts'
                     PROVE  n \in Name /\ name_fanouts'[n] \in Seq(Name)
        OBVIOUS
      <4>2. n \in DOMAIN name_fanouts \cup Names(ins)
        BY <2>1 DEF WithFanout
      <4>3. n \in Name
        BY <1>1, <2>2, <4>2 DEF TypeOK, Names
      <4>4. PICK old \in Seq(Name) :
              old = IF n \in DOMAIN name_fanouts THEN name_fanouts[n] ELSE <<>>
        <5>1. n \in DOMAIN name_fanouts => name_fanouts[n] \in Seq(Name)
          BY <1>1 DEF TypeOK
        <5>2. <<>> \in Seq(Name)
          OBVIOUS
        <5>3. QED
          BY <5>1, <5>2
      <4>5. PICK k \in Nat : k = Cardinality(Pins(ins, n))
        BY <2>2, PinsFinite
      <4>6. name_fanouts'[n] = WithCopies(old, out, k)
        BY <2>1, <4>2, <4>4, <4>5 DEF WithFanout, WithCopies
      <4>7. QED
        BY <2>2, <4>3, <4>6, CopiesBehind
    <3>3. QED
      BY <1>1, <1>2, <1>3, <2>1, <3>1, <3>2 DEF TypeOK, Node
  <2>6. QED
    BY <1>3, <2>1, <2>4, <2>5, GateEntered
<1>6. QED
  BY <1>4, <1>5

\* .model, .outputs, the end of the reading and the end of the file.
LEMMA OtherReadsOK ==
  ASSUME ReadInv, ReadModel \/ ReadOutputs \/ ReadStop \/ ReadEOF
  PROVE  ReadInv'
<1>1. TypeOK
  BY DEF ReadInv
<1>2. CASE ReadModel
  <2>1. PICK d \in Directives :
          Read(d) /\ UNCHANGED <<phase, nodes, outputs, name_fanouts, nfo, fanouts, process>>
    BY <1>2 DEF ReadModel
  <2>2. TypeOK' /\ PassesDone'
    BY <1>1, <2>1, ReadOK DEF TypeOK, PassesDone
  <2>3. QED
    BY <2>1, <2>2, NothingEntered
<1>3. CASE ReadOutputs
  <2>1. PICK d \in Directives :
          /\ Read(d)
          /\ IF d.names = <<>> THEN Fail
             ELSE outputs' = outputs \o d.names /\ UNCHANGED <<phase, nodes, name_fanouts>>
          /\ UNCHANGED <<nfo, fanouts, process>>
    BY <1>3 DEF ReadOutputs
  <2>2. d.names \in Seq(Name)
    BY DirectivesAssumption
  <2>3. UNCHANGED <<nodes, name_fanouts>> /\ phase' \in {"parse", "failed"}
    BY <1>1, <2>1, ReadOK DEF Fail
  <2>4. outputs' \in Seq(Name)
    <3>1. outputs \in Seq(Name)
      BY <1>1 DEF TypeOK
    <3>2. outputs \o d.names \in Seq(Name)
      BY <2>2, <3>1
    <3>3. QED
      BY <2>1, <3>1, <3>2 DEF Fail
  <2>5. TypeOK' /\ PassesDone'
    BY <1>1, <2>1, <2>3, <2>4, ReadOK DEF TypeOK, PassesDone
  <2>6. QED
    BY <2>3, <2>5, NothingEntered
<1>4. CASE ReadStop
  <2>1. PICK d \in Directives :
          /\ Read(d) /\ phase' = "hash"
          /\ UNCHANGED <<nodes, outputs, name_fanouts, nfo, fanouts, process>>
    BY <1>4 DEF ReadStop
  <2>2. TypeOK' /\ PassesDone'
    BY <1>1, <2>1, ReadOK DEF TypeOK, PassesDone
  <2>3. QED
    BY <2>1, <2>2, NothingEntered
<1>5. CASE ReadEOF
  <2>1. /\ phase' = "failed"
        /\ UNCHANGED <<file, nodes, outputs, name_fanouts, nfo, fanouts, process>>
    BY <1>5 DEF ReadEOF, Fail
  <2>2. TypeOK' /\ PassesDone'
    BY <1>1, <2>1 DEF TypeOK, PassesDone
  <2>3. QED
    BY <2>1, <2>2, NothingEntered
<1>6. QED
  BY <1>2, <1>3, <1>4, <1>5

\* The passes over the nodes, each of which looks at what it needs.
LEMMA PassesOK ==
  ASSUME ReadInv, EnterHash \/ CountFanouts \/ FillFanouts \/ Main \/ UNCHANGED vars
  PROVE  ReadInv'
<1>1. TypeOK /\ PassesDone
  BY DEF ReadInv
<1>2. UNCHANGED <<file, nodes, outputs, name_fanouts>>
  BY DEF EnterHash, CountFanouts, FillFanouts, Main, vars
<1>3. /\ \A n : Listed(n)' = Listed(n) /\ PinsReading(n)' = PinsReading(n)
      /\ Driven' = Driven /\ OneDriver' = OneDriver
  BY <1>2 DEF Listed, PinsReading, Driven, OneDriver
<1>4. TypeOK' /\ PassesDone'
  <2>1. CASE EnterHash
    <3>1. /\ phase' \in {"failed", "count"} /\ UNCHANGED <<nfo, fanouts, process>>
          /\ phase' = "count" => OneDriver
      BY <2>1 DEF EnterHash, OneDriver
    <3>2. QED
      BY <1>1, <1>2, <1>3, <3>1 DEF TypeOK, PassesDone
  <2>2. CASE CountFanouts
    <3>1. /\ phase = "count" /\ phase' \in {"failed", "fanouts"} /\ UNCHANGED <<fanouts, process>>
          /\ phase' = "failed" => nfo' = nfo
          /\ phase' = "fanouts" =>
                /\ \A i \in DOMAIN nodes : Names(nodes[i].inputs) \subseteq Driven
                /\ nfo' = [i \in DOMAIN nodes |-> Cardinality(PinsReading(nodes[i].name))]
      BY <2>2 DEF CountFanouts
    <3>2. nfo' \in Seq(Nat)
      <4>1. CASE phase' = "failed"
        BY <1>1, <3>1, <4>1 DEF TypeOK
      <4>2. CASE phase' = "fanouts"
        <5>1. /\ Len(nodes) \in Nat /\ DOMAIN nodes = 1 .. Len(nodes)
              /\ \A i \in DOMAIN nodes : nodes[i].name \in Name
          BY <1>1, TypeFacts
        <5>2. \A i \in DOMAIN nodes : Cardinality(PinsReading(nodes[i].name)) \in Nat
          BY <5>1, FS_CardinalityType DEF ReadInv, CountsAgree
        <5>3. nfo' \in [1 .. Len(nodes) -> Nat]
          BY <3>1, <4>2, <5>1, <5>2
        <5>4. QED
          BY <5>1, <5>3
      <4>3. QED
        BY <3>1, <4>1, <4>2
    <3>3. TypeOK'
      BY <1>1, <1>2, <3>1, <3>2 DEF TypeOK
    <3>4. PassesDone'
      BY <1>1, <1>2, <1>3, <3>1 DEF PassesDone
    <3>5. QED
      BY <3>3, <3>4
  <2>3. CASE FillFanouts
    <3>1. /\ phase = "fanouts" /\ phase' = "returned" /\ UNCHANGED <<nfo, process>>
          /\ fanouts' = [i \in DOMAIN nodes |-> Listed(nodes[i].name)]
      BY <2>3 DEF FillFanouts, Listed
    <3>2. fanouts' \in Seq(Seq(Name))
      <4>1. /\ Len(nodes) \in Nat /\ DOMAIN nodes = 1 .. Len(nodes)
            /\ \A i \in DOMAIN nodes : Listed(nodes[i].name) \in Seq(Name)
        BY <1>1, TypeFacts
      <4>2. fanouts' \in [1 .. Len(nodes) -> Seq(Name)]
        BY <3>1, <4>1
      <4>3. QED
        BY <4>1, <4>2
    <3>3. TypeOK'
      BY <1>1, <1>2, <3>1, <3>2 DEF TypeOK
    <3>4. PassesDone'
      BY <1>1, <1>2, <1>3, <3>1 DEF PassesDone
    <3>5. QED
      BY <3>3, <3>4
  <2>4. CASE Main
    <3>1. process' \in {"crashed", "searching"} /\ UNCHANGED <<phase, nfo, fanouts>>
      BY <2>4 DEF Main
    <3>2. QED
      BY <1>1, <1>2, <1>3, <3>1 DEF TypeOK, PassesDone
  <2>5. CASE UNCHANGED vars
    <3>1. UNCHANGED <<phase, nfo, fanouts, process>>
      BY <2>5 DEF vars
    <3>2. QED
      BY <1>1, <1>2, <1>3, <3>1 DEF TypeOK, PassesDone
  <2>6. QED
    BY <2>1, <2>2, <2>3, <2>4, <2>5
<1>5. QED
  BY <1>2, <1>4, NothingEntered

-----------------------------------------------------------------------------
(***************************************************************************)
(* The invariant of Bnet_ReadNetwork: names are listed in name_fanouts as  *)
(* pins are read, also while names may yet turn out to be driven twice or  *)
(* not at all, and each pass has seen to its part.                         *)
(***************************************************************************)
THEOREM ReadInvariant == Spec => []ReadInv
<1>1. Init => ReadInv
  BY ReadInit
<1>2. ReadInv /\ [Next]_vars => ReadInv'
  <2> SUFFICES ASSUME ReadInv, [Next]_vars PROVE ReadInv'
    OBVIOUS
  <2>1. CASE ReadInputs
    BY <2>1, ReadInputsOK
  <2>2. CASE ReadNames
    BY <2>2, ReadNamesOK
  <2>3. CASE ReadModel \/ ReadOutputs \/ ReadStop \/ ReadEOF
    BY <2>3, OtherReadsOK
  <2>4. CASE EnterHash \/ CountFanouts \/ FillFanouts \/ Main \/ UNCHANGED vars
    BY <2>4, PassesOK
  <2>5. QED
    BY <2>1, <2>2, <2>3, <2>4 DEF Next
<1>3. QED
  BY <1>1, <1>2, PTL DEF Spec

\* The variables of the reader keep their types, however long the file.
THEOREM ReadTypeCorrect == Spec => []TypeOK
<1>1. ReadInv => TypeOK
  BY DEF ReadInv
<1>2. QED
  BY <1>1, ReadInvariant, PTL

\* The network returned, read off the invariant.
LEMMA NetworkFacts ==
  ASSUME ReadInv, phase = "returned"
  PROVE  /\ NodesOf(Network) = Driven
         /\ \A n \in Driven : At(n) \in DOMAIN nodes /\ nodes[At(n)].name = n
         /\ \A i \in DOMAIN nodes : nodes[i].name \in Driven /\ At(nodes[i].name) = i
         /\ \A n \in Driven : /\ Network.type[n] = nodes[At(n)].type
                              /\ Network.inputs[n] = nodes[At(n)].inputs
                              /\ Network.fanouts[n] = Listed(n)
<1>1. OneDriver /\ fanouts = [i \in DOMAIN nodes |-> Listed(nodes[i].name)]
  BY DEF ReadInv, PassesDone
<1>2. \A n \in Driven : At(n) \in DOMAIN nodes /\ nodes[At(n)].name = n
  <2> SUFFICES ASSUME NEW n \in Driven
               PROVE  At(n) \in DOMAIN nodes /\ nodes[At(n)].name = n
    OBVIOUS
  <2>1. \E i \in DOMAIN nodes : nodes[i].name = n
    BY DEF Driven
  <2>2. QED
    BY <2>1 DEF At
<1>3. \A i \in DOMAIN nodes : nodes[i].name \in Driven
  BY DEF Driven
<1>4. \A i \in DOMAIN nodes : At(nodes[i].name) = i
  BY <1>1, <1>2, <1>3 DEF OneDriver
<1>5. NodesOf(Network) = Driven
  BY DEF NodesOf, Network, Driven
<1>6. ASSUME NEW n \in Driven
      PROVE  /\ Network.type[n] = nodes[At(n)].type
             /\ Network.inputs[n] = nodes[At(n)].inputs
             /\ Network.fanouts[n] = Listed(n)
  <2>1. Network.fanouts[n] = fanouts[At(n)]
    BY DEF Network
  <2>2. fanouts[At(n)] = Listed(n)
    BY <1>1, <1>2
  <2>3. Network.type[n] = nodes[At(n)].type /\ Network.inputs[n] = nodes[At(n)].inputs
    BY DEF Network
  <2>4. QED
    BY <2>1, <2>2, <2>3
<1>7. QED
  BY <1>2, <1>3, <1>4, <1>5, <1>6

\* A sequence of names is a sequence over every set that holds them all.
LEMMA NamesIn ==
  ASSUME NEW S, NEW s \in Seq(S), NEW T, \A p \in DOMAIN s : s[p] \in T
  PROVE  s \in Seq(T)
<1>1. Len(s) \in Nat /\ DOMAIN s = 1 .. Len(s) /\ s \in [1 .. Len(s) -> S]
  OBVIOUS
<1>2. s \in [1 .. Len(s) -> T]
  BY <1>1
<1>3. QED
  BY <1>1, <1>2

(***************************************************************************)
(* Whatever the file, a network that Bnet_ReadNetwork returns is           *)
(* well-formed: the assumption under which topSort, get_MFFC and the       *)
(* search for a candidate are proved correct (NetworksWellFormed).         *)
(***************************************************************************)
THEOREM ReaderDelivers == Spec => []ReturnsWellFormed
<1>1. ReadInv => ReturnsWellFormed
  <2> SUFFICES ASSUME ReadInv, phase = "returned"
               PROVE  /\ WellFormed(Network)
                      /\ \A i \in DOMAIN nodes : nfo[i] = Len(fanouts[i])
    BY DEF ReturnsWellFormed
  <2>1. /\ OneDriver /\ \A i \in DOMAIN nodes : Names(nodes[i].inputs) \subseteq Driven
        /\ nfo = [i \in DOMAIN nodes |-> Cardinality(PinsReading(nodes[i].name))]
        /\ fanouts = [i \in DOMAIN nodes |-> Listed(nodes[i].name)]
    BY DEF ReadInv, PassesDone
  <2>2. /\ Len(nodes) \in Nat /\ DOMAIN nodes = 1 .. Len(nodes)
        /\ \A i \in DOMAIN nodes :
              /\ nodes[i].name \in Name /\ nodes[i].type \in NodeType
              /\ nodes[i].inputs \in Seq(Name)
        /\ \A n \in Name : Listed(n) \in Seq(Name)
    BY TypeFacts DEF ReadInv
  <2>3. Driven \subseteq Name
    BY <2>2 DEF Driven
  <2>4. /\ NodesOf(Network) = Driven
        /\ \A n \in Driven : At(n) \in DOMAIN nodes /\ nodes[At(n)].name = n
        /\ \A i \in DOMAIN nodes : nodes[i].name \in Driven /\ At(nodes[i].name) = i
        /\ \A n \in Driven : /\ Network.type[n] = nodes[At(n)].type
                             /\ Network.inputs[n] = nodes[At(n)].inputs
                             /\ Network.fanouts[n] = Listed(n)
    BY NetworkFacts
  <2>5. /\ DOMAIN Network.nodes = DOMAIN nodes
        /\ \A i \in DOMAIN nodes : Network.nodes[i] = nodes[i].name
        /\ Network.nodes \in Seq(Name)
    <3>1. Network.nodes = [i \in DOMAIN nodes |-> nodes[i].name]
      BY DEF Network
    <3>2. Network.nodes \in [1 .. Len(nodes) -> Name]
      BY <2>2, <3>1
    <3>3. QED
      BY <2>2, <3>1, <3>2
  <2>6. Network.type \in [Driven -> NodeType]
    <3>1. Network.type = [n \in Driven |-> nodes[At(n)].type]
      BY DEF Network
    <3>2. QED
      BY <2>2, <2>4, <3>1
  <2>7. Network.inputs \in [Driven -> Seq(Driven)]
    <3>1. Network.inputs = [n \in Driven |-> nodes[At(n)].inputs]
      BY DEF Network
    <3>2. ASSUME NEW n \in Driven PROVE nodes[At(n)].inputs \in Seq(Driven)
      <4>1. PICK s \in Seq(Name) : s = nodes[At(n)].inputs
        BY <2>2, <2>4
      <4>2. \A p \in DOMAIN s : s[p] \in Driven
        BY <2>1, <2>4, <4>1 DEF Names
      <4>3. QED
        BY <4>1, <4>2, NamesIn
    <3>3. QED
      BY <3>1, <3>2
  <2>8. Network.fanouts \in [Driven -> Seq(Driven)]
    <3>1. Network.fanouts = [n \in Driven |-> fanouts[At(n)]]
      BY DEF Network
    <3>2. ASSUME NEW n \in Driven PROVE Network.fanouts[n] \in Seq(Driven)
      <4>1. PICK s \in Seq(Name) : s = Listed(n)
        BY <2>2, <2>3
      <4>2. \A p \in DOMAIN s : s[p] \in Driven
        BY <2>3, <4>1 DEF ReadInv, ListedAreNodes
      <4>3. QED
        BY <2>4, <4>1, <4>2, NamesIn
    <3>3. QED
      BY <3>1, <3>2
  <2>9. DistinctNodes(Network)
    BY <2>1, <2>5 DEF DistinctNodes, OneDriver
  <2>10. FanoutsMatchInputs(Network)
    <3> SUFFICES ASSUME NEW m \in Driven, NEW n \in Driven
                 PROVE  Cardinality(Pins(Network.fanouts[n], m))
                          = Cardinality(Pins(Network.inputs[m], n))
      BY <2>4 DEF FanoutsMatchInputs
    <3>1. Cardinality(Pins(Listed(n), nodes[At(m)].name))
            = Cardinality(Pins(nodes[At(m)].inputs, n))
      BY <2>1, <2>3, <2>4 DEF ReadInv, PinsAreListed
    <3>2. QED
      BY <2>4, <3>1
  <2>11. InputsReadNothing(Network)
    BY <2>4 DEF InputsReadNothing, ReadInv, InputsHaveNoPins
  <2>12. ASSUME NEW i \in DOMAIN nodes PROVE nfo[i] = Len(fanouts[i])
    BY <2>1, <2>2 DEF ReadInv, CountsAgree
  <2>13. QED
    BY <2>4, <2>5, <2>6, <2>7, <2>8, <2>9, <2>10, <2>11, <2>12 DEF WellFormed
<1>2. QED
  BY <1>1, ReadInvariant, PTL

-----------------------------------------------------------------------------
(***************************************************************************)
(* The network against the file.  While no failure is found the nodes are  *)
(* those the file gives drivers, name by name and as many, and their pins  *)
(* name what its gates read.                                               *)
(***************************************************************************)

\* The positions at which the list of nodes has a node called n.
NodesCalled(n) == {i \in DOMAIN nodes : nodes[i].name = n}

\* A gate of the file reads n, a pin of a node names n.
GateReads(n) ==
    \E i \in Said("names") : \E p \in 1 .. Len(file[i].names) - 1 : file[i].names[p] = n
PinNames(n) == \E i \in DOMAIN nodes : n \in Names(nodes[i].inputs)

\* Every list that was read has a name.
ListsHaveNames ==
    \A i \in DOMAIN file :
        file[i].kind \in {"inputs", "outputs", "names"} => file[i].names # <<>>

\* There are as many nodes called n as the file gives n drivers.
DriversCounted ==
    \A n \in Name : /\ IsFiniteSet(Drivers(n)) /\ IsFiniteSet(NodesCalled(n))
                    /\ Cardinality(Drivers(n)) = Cardinality(NodesCalled(n))

SamePins == \A n \in Name : GateReads(n) <=> PinNames(n)

FileInv ==
    /\ ReadInv
    /\ phase # "failed" => /\ phase = "parse" <=> Stops = {}
                           /\ ListsHaveNames /\ DriversCounted /\ SamePins
    /\ phase = "failed" => ~Legal

\* A set with one element at most, and one with two.
LEMMA AtMostOne ==
  ASSUME NEW S, IsFiniteSet(S)
  PROVE  /\ Cardinality(S) \in Nat
         /\ Cardinality(S) = 0 <=> S = {}
         /\ Cardinality(S) <= 1 <=> \A x, y \in S : x = y
<1>1. Cardinality(S) \in Nat
  BY FS_CardinalityType
<1>2. Cardinality(S) = 0 <=> S = {}
  BY FS_EmptySet
<1>3. ASSUME Cardinality(S) <= 1, NEW x \in S, NEW y \in S PROVE x = y
  <2>1. Cardinality(S) = 1
    BY <1>1, <1>2, <1>3
  <2>2. \E z : S = {z}
    BY <2>1, FS_Singleton
  <2>3. QED
    BY <2>2
<1>4. ASSUME \A x, y \in S : x = y PROVE Cardinality(S) <= 1
  <2>1. CASE S = {}
    BY <1>2, <2>1
  <2>2. CASE S # {}
    <3>1. PICK x : S = {x}
      BY <1>4, <2>2
    <3>2. QED
      BY <3>1, FS_Singleton
  <2>3. QED
    BY <2>1, <2>2
<1>5. QED
  BY <1>1, <1>2, <1>3, <1>4

\* Two disjoint finite sets.
LEMMA DisjointCounted ==
  ASSUME NEW S, NEW T, IsFiniteSet(S), IsFiniteSet(T), S \cap T = {}
  PROVE  /\ IsFiniteSet(S \cup T)
         /\ Cardinality(S \cup T) = Cardinality(S) + Cardinality(T)
<1>1. PICK a \in Nat, b \in Nat : a = Cardinality(S) /\ b = Cardinality(T)
  BY FS_CardinalityType
<1>2. /\ IsFiniteSet(S \cup T)
      /\ Cardinality(S \cup T) = Cardinality(S) + Cardinality(T) - Cardinality(S \cap T)
  BY FS_Union
<1>3. Cardinality(S \cap T) = 0
  BY FS_EmptySet
<1>4. Cardinality(S \cup T) = a + b
  BY <1>1, <1>2, <1>3
<1>5. QED
  BY <1>1, <1>2, <1>4

\* Positions moved up by k are as many.
LEMMA ShiftCounted ==
  ASSUME NEW k \in Nat, NEW P, P \subseteq Nat, IsFiniteSet(P)
  PROVE  /\ IsFiniteSet({k + j : j \in P})
         /\ Cardinality({k + j : j \in P}) = Cardinality(P)
<1> DEFINE Q == {k + j : j \in P}
           f == [j \in P |-> k + j]
<1>1. \A i, j \in P : k + i = k + j => i = j
  OBVIOUS
<1>2. f \in [P -> Q]
  OBVIOUS
<1>3. \A i, j \in P : f[i] = f[j] => i = j
  BY <1>1
<1>4. \A q \in Q : \E j \in P : f[j] = q
  OBVIOUS
<1> HIDE DEF f, Q
<1>5. ExistsBijection(P, Q)
  <2>1. f \in Injection(P, Q)
    BY <1>2, <1>3 DEF Injection, IsInjective
  <2>2. f \in Surjection(P, Q)
    BY <1>2, <1>4 DEF Surjection
  <2>3. QED
    BY <2>1, <2>2 DEF ExistsBijection, Bijection
<1>6. QED
  BY <1>5, FS_Bijection DEF Q

-----------------------------------------------------------------------------
(* The file with one more directive.                                       *)

LEMMA FileGrows ==
  ASSUME TypeOK, NEW d \in Directives, Read(d)
  PROVE  /\ Len(file) \in Nat
         /\ DOMAIN file = 1 .. Len(file) /\ DOMAIN file' = DOMAIN file \cup {Len(file) + 1}
         /\ Len(file) + 1 \notin DOMAIN file
         /\ \A i \in DOMAIN file : file'[i] = file[i] /\ file[i] \in Directives
         /\ file'[Len(file) + 1] = d
  BY DEF TypeOK, Read

LEMMA SaidGrows ==
  ASSUME TypeOK, NEW d \in Directives, Read(d), NEW kind
  PROVE  /\ d.kind = kind => Said(kind)' = Said(kind) \cup {Len(file) + 1}
         /\ d.kind # kind => Said(kind)' = Said(kind)
         /\ Said(kind) \subseteq DOMAIN file
<1>1. /\ DOMAIN file' = DOMAIN file \cup {Len(file) + 1}
      /\ \A i \in DOMAIN file : file'[i] = file[i]
      /\ file'[Len(file) + 1] = d
  BY FileGrows
<1>2. QED
  BY <1>1 DEF Said

\* The drivers of n that the directive d adds as number k of the file.
DriversBy(d, k, n) ==
    {x \in {k} \X Pins(d.names, n) : d.kind = "inputs"} \cup
    {x \in {<<k, 0>>} : d.kind = "names" /\ d.names # <<>> /\ d.names[Len(d.names)] = n}

LEMMA DriversAre ==
  ASSUME NEW n, NEW x
  PROVE  x \in Drivers(n) <=>
            \/ \E i \in Said("inputs") : x \in {i} \X Pins(file[i].names, n)
            \/ \E i \in Said("names") :
                  x = <<i, 0>> /\ file[i].names # <<>> /\ file[i].names[Len(file[i].names)] = n
  BY DEF Drivers

LEMMA DriversGrow ==
  ASSUME TypeOK, NEW d \in Directives, Read(d), NEW n
  PROVE  /\ Drivers(n)' = Drivers(n) \cup DriversBy(d, Len(file) + 1, n)
         /\ Drivers(n) \cap DriversBy(d, Len(file) + 1, n) = {}
<1> DEFINE k == Len(file) + 1
<1>1. /\ k \notin DOMAIN file /\ file'[k] = d
      /\ \A i \in DOMAIN file : file'[i] = file[i]
  BY FileGrows
<1>2. \A kind : /\ d.kind = kind => Said(kind)' = Said(kind) \cup {k}
                /\ d.kind # kind => Said(kind)' = Said(kind)
                /\ Said(kind) \subseteq DOMAIN file
  BY SaidGrows
<1> DEFINE inputs(x) == \E i \in Said("inputs") : x \in {i} \X Pins(file[i].names, n)
           gates(x) == \E i \in Said("names") :
                          x = <<i, 0>> /\ file[i].names # <<>> /\ file[i].names[Len(file[i].names)] = n
           inputs1(x) == \E i \in Said("inputs")' : x \in {i} \X Pins(file'[i].names, n)
           gates1(x) == \E i \in Said("names")' :
                          x = <<i, 0>> /\ file'[i].names # <<>> /\ file'[i].names[Len(file'[i].names)] = n
<1> HIDE DEF k
<1>3. ASSUME NEW x
      PROVE  inputs1(x) <=> inputs(x) \/ (d.kind = "inputs" /\ x \in {k} \X Pins(d.names, n))
  BY <1>1, <1>2
<1>4. ASSUME NEW x
      PROVE  gates1(x) <=> \/ gates(x)
                           \/ /\ d.kind = "names" /\ x = <<k, 0>>
                              /\ d.names # <<>> /\ d.names[Len(d.names)] = n
  BY SMTT(40), <1>1, <1>2
<1>5. \A x : x \in Drivers(n) <=> inputs(x) \/ gates(x)
  BY DriversAre
<1>6. \A x : x \in Drivers(n)' <=> inputs1(x) \/ gates1(x)
  BY DEF Drivers
<1>7. \A x : x \in Drivers(n) => \E i \in DOMAIN file : \E p : x = <<i, p>>
  BY <1>2, <1>5
<1> HIDE DEF inputs, gates, inputs1, gates1
<1>8. \A x : x \in DriversBy(d, k, n) <=>
               \/ d.kind = "inputs" /\ x \in {k} \X Pins(d.names, n)
               \/ /\ d.kind = "names" /\ x = <<k, 0>>
                  /\ d.names # <<>> /\ d.names[Len(d.names)] = n
  BY DEF DriversBy
<1>9. Drivers(n)' = Drivers(n) \cup DriversBy(d, k, n)
  BY <1>3, <1>4, <1>5, <1>6, <1>8
<1>10. \A x : x \in DriversBy(d, k, n) => \E p : x = <<k, p>>
  BY <1>8
<1>11. Drivers(n) \cap DriversBy(d, k, n) = {}
  BY <1>1, <1>7, <1>10
<1>12. QED
  BY <1>9, <1>11 DEF k

LEMMA GatesReadMore ==
  ASSUME TypeOK, NEW d \in Directives, Read(d), NEW n
  PROVE  GateReads(n)' <=>
            \/ GateReads(n)
            \/ d.kind = "names" /\ \E p \in 1 .. Len(d.names) - 1 : d.names[p] = n
<1>1. /\ Len(file) + 1 \notin DOMAIN file /\ file'[Len(file) + 1] = d
      /\ \A i \in DOMAIN file : file'[i] = file[i]
  BY FileGrows
<1>2. /\ d.kind = "names" => Said("names")' = Said("names") \cup {Len(file) + 1}
      /\ d.kind # "names" => Said("names")' = Said("names")
      /\ Said("names") \subseteq DOMAIN file
  BY SaidGrows
<1> DEFINE reads(e) == \E p \in 1 .. Len(e.names) - 1 : e.names[p] = n
<1>3. GateReads(n) <=> \E i \in Said("names") : reads(file[i])
  BY DEF GateReads
<1>4. GateReads(n)' <=> \E i \in Said("names")' : reads(file'[i])
  BY DEF GateReads
<1> HIDE DEF reads
<1>5. GateReads(n)' <=> GateReads(n) \/ (d.kind = "names" /\ reads(d))
  BY <1>1, <1>2, <1>3, <1>4
<1>6. QED
  BY <1>5 DEF reads

LEMMA ListsGrow ==
  ASSUME TypeOK, NEW d \in Directives, Read(d)
  PROVE  /\ Stops' = {} <=> Stops = {} /\ d.kind \notin {"end", "other"}
         /\ ListsHaveNames' <=>
               /\ ListsHaveNames
               /\ d.kind \in {"inputs", "outputs", "names"} => d.names # <<>>
<1>1. /\ DOMAIN file' = DOMAIN file \cup {Len(file) + 1}
      /\ \A i \in DOMAIN file : file'[i] = file[i]
      /\ file'[Len(file) + 1] = d
  BY FileGrows
<1>2. Stops' = {} <=> Stops = {} /\ d.kind \notin {"end", "other"}
  BY <1>1 DEF Stops
<1>3. ListsHaveNames' <=> /\ ListsHaveNames
                          /\ d.kind \in {"inputs", "outputs", "names"} => d.names # <<>>
  BY <1>1 DEF ListsHaveNames
<1>4. QED
  BY <1>2, <1>3

\* A list without a name makes the file illegal, whatever else is in it.
LEMMA EmptyListIllegal ==
  ASSUME TypeOK, NEW d \in Directives, Read(d),
         d.kind \in {"inputs", "outputs", "names"}, d.names = <<>>
  PROVE  ~Legal'
<1>1. ~ListsHaveNames'
  BY ListsGrow
<1>2. QED
  BY <1>1 DEF Legal, ListsHaveNames

\* A directive that drives and reads nothing.
LEMMA OtherDirective ==
  ASSUME TypeOK, NEW d \in Directives, Read(d), d.kind \notin {"inputs", "names"},
         nodes' = nodes, DriversCounted, SamePins
  PROVE  DriversCounted' /\ SamePins'
<1>1. \A n : DriversBy(d, Len(file) + 1, n) = {}
  BY DEF DriversBy
<1>2. ASSUME NEW n PROVE Drivers(n)' = Drivers(n)
  <2>1. Drivers(n)' = Drivers(n) \cup DriversBy(d, Len(file) + 1, n)
    BY DriversGrow
  <2>2. QED
    BY <1>1, <2>1
<1>3. \A n : NodesCalled(n)' = NodesCalled(n) /\ PinNames(n)' = PinNames(n)
  BY DEF NodesCalled, PinNames
<1>4. \A n : GateReads(n)' <=> GateReads(n)
  BY GatesReadMore
<1>5. QED
  BY <1>2, <1>3, <1>4 DEF DriversCounted, SamePins

-----------------------------------------------------------------------------
(* Drivers and nodes grow by the same number.                              *)

LEMMA CountedGrow ==
  ASSUME TypeOK, NEW d \in Directives, Read(d), DriversCounted, NEW n \in Name,
         NEW new, IsFiniteSet(new), NodesCalled(n) \cap new = {},
         NodesCalled(n)' = NodesCalled(n) \cup new,
         IsFiniteSet(DriversBy(d, Len(file) + 1, n)),
         Cardinality(DriversBy(d, Len(file) + 1, n)) = Cardinality(new)
  PROVE  /\ IsFiniteSet(Drivers(n)') /\ IsFiniteSet(NodesCalled(n)')
         /\ Cardinality(Drivers(n)') = Cardinality(NodesCalled(n)')
<1> DEFINE by == DriversBy(d, Len(file) + 1, n)
<1>1. /\ IsFiniteSet(Drivers(n)) /\ IsFiniteSet(NodesCalled(n))
      /\ Cardinality(Drivers(n)) = Cardinality(NodesCalled(n))
  BY DEF DriversCounted
<1>2. Drivers(n)' = Drivers(n) \cup by /\ Drivers(n) \cap by = {}
  BY DriversGrow
<1>3. IsFiniteSet(by) /\ Cardinality(by) = Cardinality(new)
  OBVIOUS
<1> HIDE DEF by
<1>4. PICK D, N : D = Drivers(n) /\ N = NodesCalled(n)
  OBVIOUS
<1>5. /\ IsFiniteSet(D \cup by)
      /\ Cardinality(D \cup by) = Cardinality(D) + Cardinality(by)
  BY <1>1, <1>2, <1>3, <1>4, DisjointCounted
<1>6. /\ IsFiniteSet(N \cup new)
      /\ Cardinality(N \cup new) = Cardinality(N) + Cardinality(new)
  BY <1>1, <1>4, DisjointCounted
<1>7. Cardinality(D \cup by) = Cardinality(N \cup new)
  BY <1>1, <1>3, <1>4, <1>5, <1>6
<1>8. QED
  BY <1>2, <1>4, <1>5, <1>6, <1>7

\* .inputs: a driver and a node for each name, without pins.
LEMMA InputsDirective ==
  ASSUME TypeOK, NEW d \in Directives, Read(d), d.kind = "inputs",
         NEW s \in Seq(Node), nodes' = nodes \o s, DOMAIN s = DOMAIN d.names,
         \A i \in DOMAIN s : s[i].name = d.names[i] /\ s[i].inputs = <<>>,
         DriversCounted, SamePins
  PROVE  DriversCounted' /\ SamePins'
<1> DEFINE k == Len(file) + 1
<1>1. /\ nodes \in Seq(Node) /\ Len(nodes) \in Nat /\ DOMAIN nodes = 1 .. Len(nodes)
      /\ Len(s) \in Nat /\ DOMAIN s = 1 .. Len(s) /\ d.names \in Seq(Name)
  BY TypeFacts, DirectivesAssumption
<1>2. /\ DOMAIN nodes' = 1 .. Len(nodes) + Len(s)
      /\ \A i \in 1 .. Len(nodes) : nodes'[i] = nodes[i]
      /\ \A i \in Len(nodes) + 1 .. Len(nodes) + Len(s) : nodes'[i] = s[i - Len(nodes)]
  BY <1>1, BehindTheList
<1>3. \A j \in DOMAIN s : /\ Len(nodes) + j \in DOMAIN nodes'
                          /\ Len(nodes) + j \notin DOMAIN nodes
                          /\ nodes'[Len(nodes) + j] = s[j]
  <2>1. SUFFICES ASSUME NEW j \in DOMAIN s
                 PROVE  /\ Len(nodes) + j \in DOMAIN nodes'
                        /\ Len(nodes) + j \notin DOMAIN nodes
                        /\ nodes'[Len(nodes) + j] = s[j]
    OBVIOUS
  <2>2. /\ Len(nodes) + j \in Len(nodes) + 1 .. Len(nodes) + Len(s)
        /\ (Len(nodes) + j) - Len(nodes) = j
        /\ Len(nodes) + j \notin 1 .. Len(nodes)
        /\ Len(nodes) + j \in 1 .. Len(nodes) + Len(s)
    BY <1>1
  <2>3. QED
    BY <1>1, <1>2, <2>2
<1>4. \A i \in DOMAIN nodes' : i \in DOMAIN nodes \/ \E j \in DOMAIN s : i = Len(nodes) + j
  BY SMTT(40), OlderNodes
<1>5. \A i \in DOMAIN nodes : i \in DOMAIN nodes' /\ nodes'[i] = nodes[i]
  BY OlderNodes
<1>6. ASSUME NEW n \in Name
      PROVE  /\ IsFiniteSet(Drivers(n)') /\ IsFiniteSet(NodesCalled(n)')
             /\ Cardinality(Drivers(n)') = Cardinality(NodesCalled(n)')
  <2> DEFINE P == Pins(d.names, n)
             new == {Len(nodes) + j : j \in P}
  <2>1. P \subseteq DOMAIN s /\ P \subseteq Nat /\ IsFiniteSet(P)
    <3>1. P \subseteq 1 .. Len(d.names) /\ IsFiniteSet(P)
      BY <1>1, PinsFinite
    <3>2. P \subseteq DOMAIN d.names
      BY DEF Pins
    <3>3. QED
      BY <3>1, <3>2
  <2>2. IsFiniteSet(new) /\ Cardinality(new) = Cardinality(P)
    BY <1>1, <2>1, ShiftCounted
  <2>3. \A j \in DOMAIN s : j \in P <=> s[j].name = n
    BY DEF Pins
  <2>4. NodesCalled(n)' = NodesCalled(n) \cup new /\ NodesCalled(n) \cap new = {}
    <3>1. ASSUME NEW i PROVE i \in NodesCalled(n)' => i \in NodesCalled(n) \cup new
      BY <1>3, <1>4, <1>5, <2>3 DEF NodesCalled
    <3>2. ASSUME NEW i PROVE i \in new => i \in NodesCalled(n)' /\ i \notin NodesCalled(n)
      BY <1>3, <2>1, <2>3 DEF NodesCalled
    <3>3. ASSUME NEW i PROVE i \in NodesCalled(n) => i \in NodesCalled(n)'
      BY <1>5 DEF NodesCalled
    <3> HIDE DEF new
    <3>4. QED
      BY <3>1, <3>2, <3>3
  <2>5. DriversBy(d, k, n) = {k} \X P
    BY DEF DriversBy
  <2>6. /\ IsFiniteSet(DriversBy(d, k, n))
        /\ Cardinality(DriversBy(d, k, n)) = Cardinality(new)
    <3> HIDE DEF new, P, k
    <3>1. IsFiniteSet({k} \X P) /\ Cardinality({k} \X P) = Cardinality(P)
      BY <2>1, PairsCounted
    <3>2. QED
      BY <2>2, <2>5, <3>1
  <2> HIDE DEF new, P
  <2>7. QED
    BY <2>2, <2>4, <2>6, CountedGrow
<1>7. ASSUME NEW n \in Name PROVE GateReads(n)' <=> PinNames(n)'
  <2>1. GateReads(n)' <=> GateReads(n)
    BY GatesReadMore
  <2>2. PinNames(n)' <=> PinNames(n)
    BY <1>3, <1>4, <1>5 DEF PinNames, Names
  <2>3. QED
    BY <2>1, <2>2 DEF SamePins
<1>8. QED
  BY <1>6, <1>7 DEF DriversCounted, SamePins

\* .names: one driver and one node, with the pins that the line lists.
LEMMA GateDirective ==
  ASSUME TypeOK, NEW d \in Directives, Read(d), d.kind = "names", d.names # <<>>,
         NEW rec \in Node, nodes' = Append(nodes, rec),
         rec.name = d.names[Len(d.names)],
         rec.inputs = SubSeq(d.names, 1, Len(d.names) - 1),
         DriversCounted, SamePins
  PROVE  DriversCounted' /\ SamePins'
<1> DEFINE k == Len(file) + 1
           at == Len(nodes) + 1
<1>1. nodes \in Seq(Node) /\ d.names \in Seq(Name)
  BY TypeFacts, DirectivesAssumption
<1>2. /\ DOMAIN nodes' = DOMAIN nodes \cup {at} /\ at \notin DOMAIN nodes
      /\ nodes'[at] = rec /\ \A i \in DOMAIN nodes : nodes'[i] = nodes[i]
  BY <1>1
<1> HIDE DEF at
<1>3. ASSUME NEW n \in Name
      PROVE  /\ IsFiniteSet(Drivers(n)') /\ IsFiniteSet(NodesCalled(n)')
             /\ Cardinality(Drivers(n)') = Cardinality(NodesCalled(n)')
  <2>1. CASE rec.name = n
    <3>1. NodesCalled(n)' = NodesCalled(n) \cup {at} /\ NodesCalled(n) \cap {at} = {}
      BY <1>2, <2>1 DEF NodesCalled
    <3>2. DriversBy(d, k, n) = {<<k, 0>>}
      BY <2>1 DEF DriversBy
    <3>3. /\ IsFiniteSet({at}) /\ IsFiniteSet(DriversBy(d, k, n))
          /\ Cardinality(DriversBy(d, k, n)) = Cardinality({at})
      BY <3>2, FS_Singleton
    <3>4. QED
      BY <3>1, <3>3, CountedGrow
  <2>2. CASE rec.name # n
    <3>1. NodesCalled(n)' = NodesCalled(n) \cup {} /\ NodesCalled(n) \cap {} = {}
      BY <1>2, <2>2 DEF NodesCalled
    <3>2. DriversBy(d, k, n) = {}
      BY <2>2 DEF DriversBy
    <3>3. IsFiniteSet({})
      BY FS_EmptySet
    <3>4. QED
      BY <3>1, <3>2, <3>3, CountedGrow
  <2>3. QED
    BY <2>1, <2>2
<1>4. ASSUME NEW n \in Name PROVE GateReads(n)' <=> PinNames(n)'
  <2>1. GateReads(n)' <=> GateReads(n) \/ \E p \in 1 .. Len(d.names) - 1 : d.names[p] = n
    BY GatesReadMore
  <2>2. PinNames(n)' <=> PinNames(n) \/ n \in Names(rec.inputs)
    BY <1>2 DEF PinNames
  <2>3. n \in Names(rec.inputs) <=> \E p \in 1 .. Len(d.names) - 1 : d.names[p] = n
    <3>1. PICK s \in Seq(Name) : s = d.names
      BY <1>1
    <3>2. Len(s) - 1 \in Nat
      BY <3>1
    <3>3. /\ DOMAIN SubSeq(s, 1, Len(s) - 1) = 1 .. Len(s) - 1
          /\ \A p \in 1 .. Len(s) - 1 : SubSeq(s, 1, Len(s) - 1)[p] = s[p]
      BY <3>2
    <3>4. PICK t : t = rec.inputs
      OBVIOUS
    <3>5. DOMAIN t = 1 .. Len(s) - 1 /\ \A p \in 1 .. Len(s) - 1 : t[p] = s[p]
      BY <3>1, <3>3, <3>4
    <3>6. n \in Names(t) <=> \E p \in 1 .. Len(s) - 1 : s[p] = n
      BY <3>5 DEF Names
    <3>7. QED
      BY <3>1, <3>4, <3>6
  <2>4. QED
    BY <2>1, <2>2, <2>3 DEF SamePins
<1>5. QED
  BY <1>3, <1>4 DEF DriversCounted, SamePins

-----------------------------------------------------------------------------
(* The steps.                                                              *)

LEMMA FileInit == Init => FileInv
<1> SUFFICES ASSUME Init PROVE FileInv
  OBVIOUS
<1>1. file = <<>> /\ DOMAIN file = {} /\ nodes = <<>> /\ DOMAIN nodes = {} /\ phase = "parse"
  BY DEF Init
<1>2. \A kind : Said(kind) = {}
  BY <1>1 DEF Said
<1>3. \A n : Drivers(n) = {}
  BY <1>2 DEF Drivers
<1>4. \A n : NodesCalled(n) = {} /\ ~PinNames(n) /\ ~GateReads(n)
  BY <1>1, <1>2 DEF NodesCalled, PinNames, GateReads
<1>5. Stops = {} /\ ListsHaveNames
  BY <1>1 DEF Stops, ListsHaveNames
<1>6. DriversCounted /\ SamePins
  BY <1>3, <1>4, FS_EmptySet DEF DriversCounted, SamePins
<1>7. ReadInv
  BY ReadInit
<1>8. QED
  BY <1>1, <1>5, <1>6, <1>7 DEF FileInv

\* What is asked of the file while it is read, and has been so far.
LEMMA FileSoFar ==
  ASSUME FileInv, NEW d \in Directives, Read(d)
  PROVE  /\ TypeOK /\ phase = "parse" /\ Stops = {}
         /\ ListsHaveNames /\ DriversCounted /\ SamePins
  BY DEF FileInv, ReadInv, Read

LEMMA ReadingKeepsFile ==
  ASSUME FileInv, ReadInv',
         ReadModel \/ ReadInputs \/ ReadOutputs \/ ReadNames \/ ReadStop
  PROVE  FileInv'
<1>1. PICK d \in Directives :
        /\ Read(d)
        /\ \/ /\ d.kind = "model" /\ phase' = phase /\ nodes' = nodes
           \/ /\ d.kind \in {"end", "other"} /\ phase' = "hash" /\ nodes' = nodes
           \/ /\ d.kind \in {"inputs", "outputs", "names"} /\ d.names = <<>>
              /\ phase' = "failed"
           \/ /\ d.kind = "outputs" /\ d.names # <<>> /\ phase' = phase /\ nodes' = nodes
           \/ /\ d.kind = "inputs" /\ d.names # <<>> /\ phase' = phase
              /\ nodes' = nodes \o [i \in DOMAIN d.names |->
                     [name |-> d.names[i], type |-> "INPUT", inputs |-> <<>>, polarity |-> 0]]
           \/ /\ d.kind = "names" /\ d.names # <<>> /\ phase' = phase
              /\ nodes' = Append(nodes,
                     [name |-> d.names[Len(d.names) - 1 + 1],
                      type |-> GateType(d.names[Len(d.names) - 1 + 1], Len(d.names) - 1),
                      inputs |-> SubSeq(d.names, 1, Len(d.names) - 1),
                      polarity |-> Polarity(d.lines)])
  <2>1. CASE ReadModel
    BY <2>1 DEF ReadModel
  <2>2. CASE ReadInputs
    BY <2>2 DEF ReadInputs, Fail
  <2>3. CASE ReadOutputs
    BY <2>3 DEF ReadOutputs, Fail
  <2>4. CASE ReadNames
    BY <2>4 DEF ReadNames, Fail
  <2>5. CASE ReadStop
    BY <2>5 DEF ReadStop
  <2>6. QED
    BY <2>1, <2>2, <2>3, <2>4, <2>5
<1>2. /\ TypeOK /\ phase = "parse" /\ Stops = {}
      /\ ListsHaveNames /\ DriversCounted /\ SamePins
  BY <1>1, FileSoFar
<1>3. /\ Stops' = {} <=> d.kind \notin {"end", "other"}
      /\ ListsHaveNames' <=> (d.kind \in {"inputs", "outputs", "names"} => d.names # <<>>)
  BY <1>1, <1>2, ListsGrow
<1>4. d.names \in Seq(Name)
  BY DirectivesAssumption
<1>5. CASE d.kind \in {"model", "outputs", "end", "other"} /\ nodes' = nodes /\ phase' # "failed"
  <2>1. DriversCounted' /\ SamePins'
    BY <1>1, <1>2, <1>5, OtherDirective
  <2>2. ListsHaveNames' /\ (phase' = "parse" <=> Stops' = {})
    BY <1>1, <1>2, <1>3, <1>5
  <2>3. QED
    BY <1>5, <2>1, <2>2 DEF FileInv
<1>6. CASE d.kind \in {"inputs", "outputs", "names"} /\ d.names = <<>> /\ phase' = "failed"
  <2>1. ~Legal'
    BY <1>1, <1>2, <1>6, EmptyListIllegal
  <2>2. QED
    BY <1>6, <2>1 DEF FileInv
<1>7. CASE /\ d.kind = "inputs" /\ d.names # <<>> /\ phase' = phase
           /\ nodes' = nodes \o [i \in DOMAIN d.names |->
                  [name |-> d.names[i], type |-> "INPUT", inputs |-> <<>>, polarity |-> 0]]
  <2> DEFINE s == [i \in DOMAIN d.names |->
                     [name |-> d.names[i], type |-> "INPUT", inputs |-> <<>>, polarity |-> 0]]
  <2>1. /\ s \in Seq(Node) /\ DOMAIN s = DOMAIN d.names
        /\ \A i \in DOMAIN s : s[i].name = d.names[i] /\ s[i].inputs = <<>>
    <3>1. \A i \in DOMAIN d.names : d.names[i] \in Name
      BY <1>4
    <3>2. <<>> \in Seq(Name) /\ "INPUT" \in NodeType
      BY DEF NodeType
    <3>3. \A i \in DOMAIN d.names : s[i] \in Node
      BY <3>1, <3>2 DEF Node
    <3>4. DOMAIN d.names = 1 .. Len(d.names) /\ Len(d.names) \in Nat
      BY <1>4
    <3>5. s \in [1 .. Len(d.names) -> Node]
      BY <3>3, <3>4
    <3>6. s \in Seq(Node)
      BY <3>4, <3>5
    <3>7. QED
      BY <3>6
  <2> HIDE DEF s
  <2>2. nodes' = nodes \o s
    BY <1>7 DEF s
  <2>3. DriversCounted' /\ SamePins'
    BY <1>1, <1>2, <1>7, <2>1, <2>2, InputsDirective
  <2>4. QED
    BY <1>2, <1>3, <1>7, <2>3 DEF FileInv
<1>8. CASE /\ d.kind = "names" /\ d.names # <<>> /\ phase' = phase
           /\ nodes' = Append(nodes,
                  [name |-> d.names[Len(d.names) - 1 + 1],
                   type |-> GateType(d.names[Len(d.names) - 1 + 1], Len(d.names) - 1),
                   inputs |-> SubSeq(d.names, 1, Len(d.names) - 1),
                   polarity |-> Polarity(d.lines)])
  <2> DEFINE rec == [name |-> d.names[Len(d.names) - 1 + 1],
                     type |-> GateType(d.names[Len(d.names) - 1 + 1], Len(d.names) - 1),
                     inputs |-> SubSeq(d.names, 1, Len(d.names) - 1),
                     polarity |-> Polarity(d.lines)]
  <2>1. /\ Len(d.names) - 1 + 1 = Len(d.names)
        /\ d.names[Len(d.names)] \in Name
        /\ SubSeq(d.names, 1, Len(d.names) - 1) \in Seq(Name)
    BY <1>4, <1>8
  <2>2. /\ GateType(d.names[Len(d.names) - 1 + 1], Len(d.names) - 1) \in NodeType
        /\ Polarity(d.lines) \in {0, 1}
    BY DEF GateType, NodeType, Polarity
  <2>3. /\ rec \in Node /\ rec.name = d.names[Len(d.names)]
        /\ rec.inputs = SubSeq(d.names, 1, Len(d.names) - 1)
    BY <2>1, <2>2 DEF Node
  <2> HIDE DEF rec
  <2>4. nodes' = Append(nodes, rec)
    BY <1>8 DEF rec
  <2>5. DriversCounted' /\ SamePins'
    BY <1>1, <1>2, <1>8, <2>3, <2>4, GateDirective
  <2>6. QED
    BY <1>2, <1>3, <1>8, <2>5 DEF FileInv
<1>9. QED
  BY <1>1, <1>2, <1>5, <1>6, <1>7, <1>8

\* A file that ends while it is read has no directive at which to stop.
LEMMA EndKeepsFile ==
  ASSUME FileInv, ReadInv', ReadEOF
  PROVE  FileInv'
<1>1. phase = "parse" /\ phase' = "failed" /\ file' = file
  BY DEF ReadEOF, Fail
<1>2. Stops' = {}
  BY <1>1 DEF FileInv, Stops
<1>3. QED
  BY <1>1, <1>2 DEF FileInv, Legal

\* While nothing is read, the file and the list of nodes stay.
LEMMA NothingRead ==
  ASSUME UNCHANGED <<file, nodes>>
  PROVE  /\ Stops' = Stops /\ Legal' = Legal /\ ListsHaveNames' = ListsHaveNames
         /\ DriversCounted' = DriversCounted /\ SamePins' = SamePins
<1>1. \A kind : Said(kind)' = Said(kind)
  BY DEF Said
<1>2. \A n : Drivers(n)' = Drivers(n)
  BY <1>1 DEF Drivers
<1>3. \A n : /\ NodesCalled(n)' = NodesCalled(n) /\ PinNames(n)' = PinNames(n)
             /\ GateReads(n)' = GateReads(n)
  BY <1>1 DEF NodesCalled, PinNames, GateReads
<1>4. Stops' = Stops
  BY DEF Stops
<1>5. QED
  BY <1>1, <1>2, <1>3, <1>4 DEF Legal, ListsHaveNames, DriversCounted, SamePins

\* A name entered twice in the symbol table has two drivers in the file.
LEMMA TwiceIsIllegal ==
  ASSUME TypeOK, DriversCounted, ~OneDriver
  PROVE  ~Legal
<1>1. PICK i \in DOMAIN nodes, j \in DOMAIN nodes :
        i # j /\ nodes[i].name = nodes[j].name
  BY DEF OneDriver
<1>2. PICK n \in Name : n = nodes[i].name
  BY TypeFacts
<1>3. /\ IsFiniteSet(NodesCalled(n)) /\ IsFiniteSet(Drivers(n))
      /\ Cardinality(Drivers(n)) = Cardinality(NodesCalled(n))
  BY DEF DriversCounted
<1>4. i \in NodesCalled(n) /\ j \in NodesCalled(n)
  BY <1>1, <1>2 DEF NodesCalled
<1>5. ~(Cardinality(NodesCalled(n)) <= 1)
  BY <1>1, <1>3, <1>4, AtMostOne
<1>6. QED
  BY <1>3, <1>5 DEF Legal

\* A name has a node exactly if it has a driver.
LEMMA NodeOrDriver ==
  ASSUME DriversCounted, NEW n \in Name
  PROVE  n \in Driven <=> Drivers(n) # {}
<1>1. /\ IsFiniteSet(NodesCalled(n)) /\ IsFiniteSet(Drivers(n))
      /\ Cardinality(Drivers(n)) = Cardinality(NodesCalled(n))
  BY DEF DriversCounted
<1>2. NodesCalled(n) = {} <=> Drivers(n) = {}
  BY <1>1, AtMostOne
<1>3. QED
  BY <1>2 DEF Driven, NodesCalled

\* A pin that names no node is one the file does not drive.
LEMMA UndrivenIsIllegal ==
  ASSUME TypeOK, DriversCounted, SamePins,
         NEW i \in DOMAIN nodes, ~(Names(nodes[i].inputs) \subseteq Driven)
  PROVE  ~Legal
<1>1. PICK n : n \in Names(nodes[i].inputs) /\ n \notin Driven
  OBVIOUS
<1>2. n \in Name
  <2>1. nodes[i].inputs \in Seq(Name)
    BY TypeFacts
  <2>2. QED
    BY <1>1, <2>1 DEF Names
<1>3. GateReads(n)
  BY <1>1, <1>2 DEF SamePins, PinNames
<1>4. Drivers(n) = {}
  BY <1>1, <1>2, NodeOrDriver
<1>5. QED
  BY <1>3, <1>4 DEF GateReads, Legal

LEMMA PassesKeepFile ==
  ASSUME FileInv, ReadInv',
         EnterHash \/ CountFanouts \/ FillFanouts \/ Main \/ UNCHANGED vars
  PROVE  FileInv'
<1>1. TypeOK
  BY DEF FileInv, ReadInv
<1>2. UNCHANGED <<file, nodes>>
  BY DEF EnterHash, CountFanouts, FillFanouts, Main, vars
<1>3. /\ Stops' = Stops /\ Legal' = Legal /\ ListsHaveNames' = ListsHaveNames
      /\ DriversCounted' = DriversCounted /\ SamePins' = SamePins
  BY <1>2, NothingRead
<1>4. CASE EnterHash
  <2>1. phase = "hash" /\ phase' \in {"failed", "count"}
    BY <1>4 DEF EnterHash
  <2>2. phase' = "failed" => ~OneDriver
    BY <1>4 DEF EnterHash, OneDriver
  <2>3. phase' = "failed" => ~Legal
    BY <1>1, <2>1, <2>2, TwiceIsIllegal DEF FileInv
  <2>4. QED
    BY <1>3, <2>1, <2>3 DEF FileInv
<1>5. CASE CountFanouts
  <2>1. phase = "count" /\ phase' \in {"failed", "fanouts"}
    BY <1>5 DEF CountFanouts
  <2>2. phase' = "failed" => \E i \in DOMAIN nodes : ~(Names(nodes[i].inputs) \subseteq Driven)
    BY <1>5 DEF CountFanouts
  <2>3. phase' = "failed" => ~Legal
    BY <1>1, <2>1, <2>2, UndrivenIsIllegal DEF FileInv
  <2>4. QED
    BY <1>3, <2>1, <2>3 DEF FileInv
<1>6. CASE FillFanouts
  BY <1>3, <1>6 DEF FillFanouts, FileInv
<1>7. CASE Main \/ UNCHANGED vars
  <2>1. phase' = phase
    BY <1>7 DEF Main, vars
  <2>2. QED
    BY <1>3, <2>1 DEF FileInv
<1>8. QED
  BY <1>4, <1>5, <1>6, <1>7

(***************************************************************************)
(* The nodes are those the file gives drivers, and a failure is one of the *)
(* file.                                                                   *)
(***************************************************************************)
THEOREM FileInvariant == Spec => []FileInv
<1>1. Init => FileInv
  BY FileInit
<1>2. FileInv /\ ReadInv' /\ [Next]_vars => FileInv'
  BY ReadingKeepsFile, EndKeepsFile, PassesKeepFile DEF Next
<1>3. QED
  BY <1>1, <1>2, ReadInvariant, PTL DEF Spec

(***************************************************************************)
(* Whatever the file, Bnet_ReadNetwork returns a network only if each list *)
(* has a name, each name one driver at most and each pin one at least, and *)
(* it fails only if one of these is not so or the file breaks off.         *)
(***************************************************************************)
THEOREM ReturnsExactlyLegal == Spec => []ReturnsIffLegal
<1>1. FileInv => ReturnsIffLegal
  <2> SUFFICES ASSUME FileInv PROVE ReturnsIffLegal
    OBVIOUS
  <2>1. ASSUME phase = "returned" PROVE Legal
    <3>1. /\ TypeOK /\ PassesDone /\ Stops # {}
          /\ ListsHaveNames /\ DriversCounted /\ SamePins
      BY <2>1 DEF FileInv, ReadInv
    <3>2. OneDriver /\ \A i \in DOMAIN nodes : Names(nodes[i].inputs) \subseteq Driven
      BY <2>1, <3>1 DEF PassesDone
    <3>3. ASSUME NEW n \in Name PROVE Cardinality(Drivers(n)) <= 1
      <4>1. /\ IsFiniteSet(NodesCalled(n)) /\ IsFiniteSet(Drivers(n))
            /\ Cardinality(Drivers(n)) = Cardinality(NodesCalled(n))
        BY <3>1 DEF DriversCounted
      <4>2. \A i, j \in NodesCalled(n) : i = j
        BY <3>2 DEF OneDriver, NodesCalled
      <4>3. QED
        BY <4>1, <4>2, AtMostOne
    <3>4. ASSUME NEW i \in Said("names"), NEW p \in 1 .. Len(file[i].names) - 1
          PROVE  Drivers(file[i].names[p]) # {}
      <4>1. file[i].names \in Seq(Name)
        BY <3>1, DirectivesAssumption DEF TypeOK, Said
      <4>2. PICK n \in Name : n = file[i].names[p]
        BY <4>1
      <4>3. PinNames(n)
        BY <3>1, <4>2 DEF GateReads, SamePins
      <4>4. n \in Driven
        BY <3>2, <4>3 DEF PinNames
      <4>5. QED
        BY <3>1, <4>2, <4>4, NodeOrDriver
    <3>5. QED
      BY <3>1, <3>3, <3>4 DEF Legal, ListsHaveNames
  <2>2. phase = "failed" => ~Legal
    BY DEF FileInv
  <2>3. QED
    BY <2>1, <2>2 DEF ReturnsIffLegal
<1>2. QED
  BY <1>1, FileInvariant, PTL
=============================================================================
