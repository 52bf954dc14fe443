----------------------- MODULE ExtractionResultProofs -----------------------
(***************************************************************************)
(* What the extraction of a file gives depends on its tree alone: the      *)
(* proof that nothing is missed, found twice or out of order, on top of    *)
(* the invariant of ExtractionProofs.                                      *)
(***************************************************************************)
EXTENDS ExtractionProofs

-----------------------------------------------------------------------------
(* The strengthening.                                                      *)

\* The arrays that the imports and the unified walk fill.
Found == Arrays \ {"defs"}

\* The node at which the item of a node is found: a type is by the node above.
Source(x, n) == IF x = "type_refs" THEN Parent(n) ELSE n

\* The nodes that the walk which fills an array is done with: at a statement
\* that may have to stand for itself it is if there was an import in it.
Passed(x) ==
  CASE pc \in BeforeTree \union {"definitions"} -> {}
    [] pc = "imports" -> IF x = "imports" THEN 1 .. node - 1 ELSE {}
    [] pc = "fallback" -> IF x = "imports"
                            THEN {n \in 1 .. node : n = node => Imported(n) \/ Alone(n)}
                            ELSE {}
    [] pc = "visit" -> IF x = "imports" THEN Nodes ELSE 1 .. node - 1
    [] pc = "scopes" -> IF x = "imports" THEN Nodes ELSE 1 .. node
    [] OTHER -> Nodes

\* The nodes whose items an array has, or has coming.
Seen(x) == {n \in Nodes : Source(x, n) \in Passed(x)}

\* Of two items in an array, the nodes of the earlier and of the later one.
Before(x, m, n) == IF x \in Ordered THEN m < n ELSE m # n

OfTheTree(x, it) ==
  it.node \in Yields(x) /\ it.node \in Seen(x) /\ it = ItemOf(x, it.node)

\* What was pushed to an array, followed by what is about to be, are the items
\* of the nodes seen so far, in their order.
InOrderSoFar(x) ==
  /\ \A i \in DOMAIN pushed[x] : OfTheTree(x, pushed[x][i])
  /\ \A j \in DOMAIN todo : todo[j].to = x => OfTheTree(x, todo[j].item)
  /\ \A i, j \in DOMAIN pushed[x] : i < j => Before(x, pushed[x][i].node, pushed[x][j].node)
  /\ \A i \in DOMAIN pushed[x], j \in DOMAIN todo :
       todo[j].to = x => Before(x, pushed[x][i].node, todo[j].item.node)
  /\ \A i, j \in DOMAIN todo :
       i < j /\ todo[i].to = x /\ todo[j].to = x =>
         Before(x, todo[i].item.node, todo[j].item.node)
  /\ \A n \in Yields(x) \intersect Seen(x) :
       \/ \E i \in DOMAIN pushed[x] : pushed[x][i].node = n
       \/ \E j \in DOMAIN todo : todo[j].to = x /\ todo[j].item.node = n

FoundInv ==
  /\ pc = "fallback" => Fallback(node)
  /\ \A x \in Found : EnoughMemory /\ lost = {} => InOrderSoFar(x)

-----------------------------------------------------------------------------
(* What is pushed at a node is what the tree says of it.                   *)

\* The sequence s has the items found at the current node for the arrays in X.
Leaves(s, X) ==
  /\ s \in Seq(Works)
  /\ \A i \in DOMAIN s :
       /\ s[i].to \in X /\ s[i].item.node \in Yields(s[i].to)
       /\ Source(s[i].to, s[i].item.node) = node
       /\ s[i].item = ItemOf(s[i].to, s[i].item.node)
  /\ \A i, j \in DOMAIN s :
       i < j /\ s[i].to = s[j].to => Before(s[i].to, s[i].item.node, s[j].item.node)
  /\ \A x \in X : \A n \in Yields(x) : Source(x, n) = node =>
       \E i \in DOMAIN s : s[i].to = x /\ s[i].item.node = n

LEMMA ConcatElements ==
  ASSUME NEW S, NEW a \in Seq(S), NEW b \in Seq(S)
  PROVE  /\ a \o b \in Seq(S)
         /\ Len(a) \in Nat /\ Len(b) \in Nat
         /\ DOMAIN a = 1 .. Len(a) /\ DOMAIN b = 1 .. Len(b)
         /\ DOMAIN (a \o b) = 1 .. Len(a) + Len(b)
         /\ \A i \in 1 .. Len(a) : (a \o b)[i] = a[i]
         /\ \A i \in 1 .. Len(b) : (a \o b)[Len(a) + i] = b[i]
         /\ \A i \in 1 .. Len(a) + Len(b) :
              i \in 1 .. Len(a) \/ (i - Len(a) \in 1 .. Len(b) /\ (a \o b)[i] = b[i - Len(a)])
OBVIOUS

LEMMA LeavesConcat ==
  ASSUME NEW a, NEW b, NEW X, NEW Y, Leaves(a, X), Leaves(b, Y), X \intersect Y = {}
  PROVE  Leaves(a \o b, X \union Y)
<1> DEFINE c == a \o b
<1>1. a \in Seq(Works) /\ b \in Seq(Works)
  BY DEF Leaves
<1>2. /\ c \in Seq(Works) /\ Len(a) \in Nat /\ Len(b) \in Nat
      /\ DOMAIN a = 1 .. Len(a) /\ DOMAIN b = 1 .. Len(b) /\ DOMAIN c = 1 .. Len(a) + Len(b)
      /\ \A i \in 1 .. Len(a) : c[i] = a[i]
      /\ \A i \in 1 .. Len(b) : c[Len(a) + i] = b[i]
      /\ \A i \in 1 .. Len(a) + Len(b) :
           i \in 1 .. Len(a) \/ (i - Len(a) \in 1 .. Len(b) /\ c[i] = b[i - Len(a)])
  BY <1>1, ConcatElements
<1> HIDE DEF c
<1>3. \A i \in DOMAIN c :
        \/ i \in DOMAIN a /\ c[i] = a[i] /\ c[i].to \in X
        \/ i - Len(a) \in DOMAIN b /\ c[i] = b[i - Len(a)] /\ c[i].to \in Y
  BY <1>2 DEF Leaves
<1>4. \A i \in DOMAIN c : /\ c[i].to \in X \union Y /\ c[i].item.node \in Yields(c[i].to)
                          /\ Source(c[i].to, c[i].item.node) = node
                          /\ c[i].item = ItemOf(c[i].to, c[i].item.node)
  BY <1>3 DEF Leaves
<1>5. ASSUME NEW i \in DOMAIN c, NEW j \in DOMAIN c, i < j, c[i].to = c[j].to
      PROVE  Before(c[i].to, c[i].item.node, c[j].item.node)
  <2>0. i \in Nat /\ j \in Nat
    BY <1>2
  <2>1. CASE i \in DOMAIN a /\ c[i] = a[i] /\ c[i].to \in X
    <3>1. j \in DOMAIN a /\ c[j] = a[j]
      BY <1>3, <1>5, <2>1
    <3> QED BY <1>5, <2>1, <3>1 DEF Leaves
  <2>2. CASE i - Len(a) \in DOMAIN b /\ c[i] = b[i - Len(a)] /\ c[i].to \in Y
    <3>1. j - Len(a) \in DOMAIN b /\ c[j] = b[j - Len(a)]
      BY <1>3, <1>5, <2>2
    <3>2. i - Len(a) < j - Len(a)
      BY <1>2, <1>5, <2>0
    <3> QED BY <1>5, <2>2, <3>1, <3>2 DEF Leaves
  <2> QED BY <1>3, <2>1, <2>2
<1>6. ASSUME NEW x \in X \union Y, NEW n \in Yields(x), Source(x, n) = node
      PROVE  \E i \in DOMAIN c : c[i].to = x /\ c[i].item.node = n
  <2>1. CASE x \in X
    <3>1. PICK i \in DOMAIN a : a[i].to = x /\ a[i].item.node = n
      BY <1>6, <2>1 DEF Leaves
    <3>2. i \in DOMAIN c /\ c[i] = a[i]
      BY <1>2
    <3> QED BY <3>1, <3>2
  <2>2. CASE x \in Y
    <3>1. PICK i \in DOMAIN b : b[i].to = x /\ b[i].item.node = n
      BY <1>6, <2>2 DEF Leaves
    <3>2. Len(a) + i \in DOMAIN c /\ c[Len(a) + i] = b[i]
      BY <1>2
    <3> QED BY <3>1, <3>2
  <2> QED BY <2>1, <2>2
<1>7. c \in Seq(Works)
  BY <1>2
<1>8. \A i, j \in DOMAIN c :
        i < j /\ c[i].to = c[j].to => Before(c[i].to, c[i].item.node, c[j].item.node)
  BY <1>5
<1>9. \A x \in X \union Y : \A n \in Yields(x) : Source(x, n) = node =>
        \E i \in DOMAIN c : c[i].to = x /\ c[i].item.node = n
  BY <1>6
<1>10. Leaves(c, X \union Y)
  BY <1>4, <1>7, <1>8, <1>9 DEF Leaves
<1> QED BY <1>10 DEF c

LEMMA LeavesOne ==
  ASSUME file \in Files, node \in Nodes, NEW x \in Attributed
  PROVE  /\ node \in Yields(x) => Leaves(<<Item(x, node, Caller(node))>>, {x})
         /\ node \notin Yields(x) => Leaves(<<>>, {x})
<1>1. /\ ItemOf(x, node) = [node |-> node, func |-> Caller(node)]
      /\ ItemOf(x, node) \in ItemSet /\ x \in Arrays
      /\ \A n : Source(x, n) = n
  <2>1. node \in Nat \ {0} /\ Caller(node) \in Seq(Nat)
    BY NamesAreNumbers, TreeFacts
  <2>2. x # "imports" /\ x # "type_refs" /\ x \in Arrays
    BY DEF Attributed, Arrays
  <2> QED BY <2>1, <2>2 DEF ItemOf, ItemSet, Source
<1>2. PICK w : w = Item(x, node, Caller(node))
  OBVIOUS
<1>3. w.to = x /\ w.item = ItemOf(x, node) /\ w.item.node = node /\ w \in Works
  BY <1>1, <1>2 DEF Item, Works
<1>4. ASSUME node \in Yields(x) PROVE Leaves(<<w>>, {x})
  <2>1. <<w>> \in Seq(Works) /\ DOMAIN <<w>> = {1} /\ <<w>>[1] = w
    BY <1>3
  <2> QED BY <1>1, <1>3, <1>4, <2>1 DEF Leaves
<1>5. ASSUME node \notin Yields(x) PROVE Leaves(<<>>, {x})
  <2>1. <<>> \in Seq(Works) /\ DOMAIN <<>> = {}
    OBVIOUS
  <2> QED BY <1>1, <1>5, <2>1 DEF Leaves
<1> QED BY <1>2, <1>4, <1>5

\* In the scopes of the nodes above, the types at a node go to the function
\* that the tree says.
LEMMA TypesAreFound ==
  ASSUME file \in Files, node \in Nodes,
         NEW s \in Seq(ScopeSet), StackOf(s, Ancestors(node))
  PROVE  Leaves(handle_type_refs(s), {"type_refs"})
<1> DEFINE refs(func) == [i \in DOMAIN Types(node) |-> Item("type_refs", Types(node)[i], func)]
           signature == Is(node, "function") /\ HasName(node) /\ ~ Is(node, "arrow")
           body == ~ Is(node, "function") /\ Is(node, "typing")
           own == IF Is(node, "function") THEN QualifiedName(node) ELSE Caller(node)
<1>1. handle_type_refs(s) = IF signature \/ body THEN refs(own) ELSE <<>>
  <2>1. Append(EnclosingClass(s), node) = QualifiedName(node)
    <3>1. EnclosingClass(s) = IF Around(node, "class") = {} THEN <<>>
                              ELSE <<Max(Around(node, "class"))>>
      BY StateOfTheWalk
    <3>2. node \in Nat /\ (Around(node, "class") # {} => Max(Around(node, "class")) \in Nat)
      BY NamesAreNumbers, LastNode, TreeFacts
    <3>3. Append(<<>>, node) = <<node>>
      OBVIOUS
    <3> QED BY <3>1, <3>2, <3>3, AppendToOne DEF QualifiedName
  <2>2. EnclosingFunc(s) = Caller(node)
    BY StateOfTheWalk
  <2>3. CASE signature
    <3>1. handle_type_refs(s) = refs(Append(EnclosingClass(s), node))
      BY <2>3 DEF handle_type_refs
    <3> QED BY <2>1, <2>3, <3>1
  <2>4. CASE body
    <3>1. handle_type_refs(s) = refs(EnclosingFunc(s))
      BY <2>4 DEF handle_type_refs
    <3> QED BY <2>2, <2>4, <3>1
  <2>5. CASE ~ signature /\ ~ body
    BY <2>5 DEF handle_type_refs
  <2> QED BY <2>3, <2>4, <2>5
<1>2. handle_type_refs(s) \in Seq(Works)
  BY TypeRefsFacts
<1>3. \A m : Parent(m) = node =>
        /\ m \in Yields("type_refs")
             <=> m \in Nodes /\ m > 1 /\ Is(m, "type") /\ (signature \/ body)
        /\ ItemOf("type_refs", m) = [node |-> m, func |-> own]
  BY DEF Yields, ItemOf, InSignature, InBody
<1>4. /\ DOMAIN Types(node) = 1 .. Len(Types(node)) /\ Len(Types(node)) \in Nat
      /\ \A i \in DOMAIN Types(node) :
           /\ Types(node)[i] \in Nodes /\ Types(node)[i] \in Nat
           /\ Types(node)[i] > 1 /\ Parent(Types(node)[i]) = node /\ Is(Types(node)[i], "type")
      /\ \A i, j \in DOMAIN Types(node) : i < j => Types(node)[i] < Types(node)[j]
      /\ \A m \in Nodes : m > 1 /\ Parent(m) = node /\ Is(m, "type") =>
           \E i \in DOMAIN Types(node) : Types(node)[i] = m
  BY TypesFacts DEF Increasing
<1>5. \A m : Source("type_refs", m) = Parent(m)
  BY DEF Source
<1>6. "type_refs" \notin Ordered
  BY DEF Ordered, Attributed
<1>7. CASE signature \/ body
  <2>1. PICK r : r = handle_type_refs(s)
    OBVIOUS
  <2>2. r = [i \in DOMAIN Types(node) |-> Item("type_refs", Types(node)[i], own)]
    BY <1>1, <1>7, <2>1
  <2> HIDE DEF own
  <2>3. /\ DOMAIN r = DOMAIN Types(node)
        /\ \A i \in DOMAIN r : /\ r[i].to = "type_refs" /\ r[i].item.node = Types(node)[i]
                               /\ r[i].item = [node |-> Types(node)[i], func |-> own]
    BY <2>2 DEF Item
  <2>4. \A i \in DOMAIN r :
          /\ r[i].to \in {"type_refs"} /\ r[i].item.node \in Yields(r[i].to)
          /\ Source(r[i].to, r[i].item.node) = node
          /\ r[i].item = ItemOf(r[i].to, r[i].item.node)
    <3> TAKE i \in DOMAIN r
    <3> DEFINE m == r[i].item.node
    <3>1. /\ r[i].to = "type_refs" /\ m = Types(node)[i] /\ i \in DOMAIN Types(node)
          /\ r[i].item = [node |-> m, func |-> own]
      BY <2>3
    <3>2. Parent(m) = node /\ m \in Nodes /\ m > 1 /\ Is(m, "type")
      BY <1>4, <3>1
    <3> HIDE DEF m, signature, body
    <3>3. m \in Yields("type_refs") /\ ItemOf("type_refs", m) = [node |-> m, func |-> own]
      BY <1>3, <1>7, <3>2
    <3> QED BY <1>5, <3>1, <3>2, <3>3 DEF m
  <2>5. \A i, j \in DOMAIN r :
          i < j /\ r[i].to = r[j].to => Before(r[i].to, r[i].item.node, r[j].item.node)
    <3> TAKE i, j \in DOMAIN r
    <3> HAVE i < j /\ r[i].to = r[j].to
    <3>1. Types(node)[i] < Types(node)[j] /\ Types(node)[i] \in Nat /\ Types(node)[j] \in Nat
      BY <1>4, <2>3
    <3>2. r[i].item.node = Types(node)[i] /\ r[j].item.node = Types(node)[j] /\ r[i].to = "type_refs"
      BY <2>3
    <3>3. Types(node)[i] # Types(node)[j]
      BY <3>1
    <3>4. r[i].item.node # r[j].item.node
      BY <3>2, <3>3
    <3> QED BY <1>6, <3>2, <3>4 DEF Before
  <2>6. \A x \in {"type_refs"} : \A n \in Yields(x) : Source(x, n) = node =>
          \E i \in DOMAIN r : r[i].to = x /\ r[i].item.node = n
    <3> SUFFICES ASSUME NEW n \in Yields("type_refs"), Parent(n) = node
                 PROVE  \E i \in DOMAIN r : r[i].to = "type_refs" /\ r[i].item.node = n
      BY <1>5
    <3>1. n \in Nodes /\ n > 1 /\ Is(n, "type")
      BY <1>3
    <3>2. PICK i \in DOMAIN Types(node) : Types(node)[i] = n
      BY <1>4, <3>1
    <3> QED BY <2>3, <3>2
  <2> QED BY <1>2, <2>1, <2>4, <2>5, <2>6 DEF Leaves
<1>8. CASE ~ (signature \/ body)
  <2>1. handle_type_refs(s) = <<>> /\ DOMAIN <<>> = {} /\ <<>> \in Seq(Works)
    BY <1>1, <1>8
  <2>2. \A n \in Yields("type_refs") : Source("type_refs", n) # node
    BY <1>3, <1>5, <1>8
  <2> QED BY <2>1, <2>2 DEF Leaves
<1> QED BY <1>7, <1>8

\* In the scopes of the nodes above, the handlers find what the tree says.
LEMMA HandledIsFound ==
  ASSUME file \in Files, node \in Nodes, lost = {},
         NEW s \in Seq(ScopeSet), StackOf(s, Ancestors(node))
  PROVE  Leaves(Handled(s), Found \ {"imports"})
<1> DEFINE func == EnclosingFunc(s)
<1>1. func = Caller(node)
  BY StateOfTheWalk
<1>2. (~ InsideCall(s) /\ ~ InsideImport(s))
        <=> \A m \in Ancestors(node) : ~ Is(m, "call") /\ ~ Is(m, "import")
  <2>1. ASSUME NEW k \in {"call", "import"}, Kinds(s, k) # {}
        PROVE  \E m \in Ancestors(node) : Is(m, k)
    <3>1. PICK i \in DOMAIN s : s[i].kind = k
      BY <2>1 DEF Kinds
    <3>2. PICK m \in Ancestors(node), h \in ScopeKinds :
            /\ s[i] = [kind |-> h, depth |-> file.level[m], qn |-> QNOf(m, h), at |-> m]
            /\ Opens(m, h)
      BY DEF StackOf
    <3>3. Opens(m, k)
      BY <3>1, <3>2
    <3> QED BY <2>1, <3>3 DEF Opens
  <2>2. ~ InsideCall(s) => \A m \in Ancestors(node) : ~ Is(m, "call")
    BY StateOfTheWalk
  <2>3. ~ InsideImport(s) => \A m \in Ancestors(node) : ~ Is(m, "import")
    BY StateOfTheWalk
  <2> QED BY <2>1, <2>2, <2>3 DEF InsideCall, InsideImport
<1> HIDE DEF func
<1>3. \A x \in Attributed :
        /\ node \in Yields(x) => Leaves(<<Item(x, node, func)>>, {x})
        /\ node \notin Yields(x) => Leaves(<<>>, {x})
  BY <1>1, LeavesOne
<1>4. Leaves(handle_calls(func), {"calls"})
  <2>1. "calls" \in Attributed /\ (node \in Yields("calls") <=> Is(node, "call") /\ Is(node, "callee"))
    BY DEF Attributed, Yields
  <2> QED BY <1>3, <2>1 DEF handle_calls
<1>5. Leaves(handle_usages(s, func), {"usages"})
  <2>1. "usages" \in Attributed
        /\ (node \in Yields("usages") <=> Is(node, "reference") /\ ~ InsideCall(s) /\ ~ InsideImport(s))
    BY <1>2 DEF Attributed, Yields
  <2> QED BY <1>3, <2>1 DEF handle_usages
<1>6. Leaves(handle_throws(func), {"throws"})
  <2>1. "throws" \in Attributed
        /\ (node \in Yields("throws") <=> Is(node, "throw") \/ Is(node, "clause"))
    BY DEF Attributed, Yields
  <2> QED BY <1>3, <2>1 DEF handle_throws
<1>7. Leaves(handle_readwrites(func), {"rw"})
  <2>1. "rw" \in Attributed /\ (node \in Yields("rw") <=> Is(node, "assignment"))
    BY DEF Attributed, Yields
  <2> QED BY <1>3, <2>1 DEF handle_readwrites
<1>8. Leaves(handle_type_refs(s), {"type_refs"})
  BY TypesAreFound
<1>9. Leaves(handle_env_accesses(func), {"env_accesses"})
  <2>1. "env_accesses" \in Attributed /\ (node \in Yields("env_accesses") <=> Is(node, "env"))
    BY DEF Attributed, Yields
  <2> QED BY <1>3, <2>1 DEF handle_env_accesses
<1>10. Leaves(handle_type_assigns(func), {"type_assigns"})
  <2>1. /\ "type_assigns" \in Attributed
        /\ node \in Yields("type_assigns") <=> Is(node, "constructed")
    BY DEF Attributed, Yields
  <2> QED BY <1>3, <2>1 DEF handle_type_assigns
<1>11. Leaves(handle_calls(func) \o handle_usages(s, func), {"calls", "usages"})
  <2>1. {"calls"} \union {"usages"} = {"calls", "usages"} /\ {"calls"} \intersect {"usages"} = {}
    OBVIOUS
  <2> QED BY <1>4, <1>5, <2>1, LeavesConcat
<1>12. Leaves(handle_calls(func) \o handle_usages(s, func) \o handle_throws(func),
              {"calls", "usages", "throws"})
  <2>1. /\ {"calls", "usages"} \union {"throws"} = {"calls", "usages", "throws"}
        /\ {"calls", "usages"} \intersect {"throws"} = {}
    OBVIOUS
  <2> QED BY <1>6, <1>11, <2>1, LeavesConcat
<1>13. Leaves(handle_calls(func) \o handle_usages(s, func) \o handle_throws(func)
                \o handle_readwrites(func), {"calls", "usages", "throws", "rw"})
  <2>1. /\ {"calls", "usages", "throws"} \union {"rw"} = {"calls", "usages", "throws", "rw"}
        /\ {"calls", "usages", "throws"} \intersect {"rw"} = {}
    OBVIOUS
  <2> QED BY <1>7, <1>12, <2>1, LeavesConcat
<1>14. Leaves(handle_calls(func) \o handle_usages(s, func) \o handle_throws(func)
                \o handle_readwrites(func) \o handle_type_refs(s),
              {"calls", "usages", "throws", "rw", "type_refs"})
  <2>1. /\ {"calls", "usages", "throws", "rw"} \union {"type_refs"}
             = {"calls", "usages", "throws", "rw", "type_refs"}
        /\ {"calls", "usages", "throws", "rw"} \intersect {"type_refs"} = {}
    OBVIOUS
  <2> QED BY <1>8, <1>13, <2>1, LeavesConcat
<1>15. Leaves(handle_calls(func) \o handle_usages(s, func) \o handle_throws(func)
                \o handle_readwrites(func) \o handle_type_refs(s) \o handle_env_accesses(func),
              {"calls", "usages", "throws", "rw", "type_refs", "env_accesses"})
  <2>1. /\ {"calls", "usages", "throws", "rw", "type_refs"} \union {"env_accesses"}
             = {"calls", "usages", "throws", "rw", "type_refs", "env_accesses"}
        /\ {"calls", "usages", "throws", "rw", "type_refs"} \intersect {"env_accesses"} = {}
    OBVIOUS
  <2> QED BY <1>9, <1>14, <2>1, LeavesConcat
<1>16. Leaves(Handled(s), {"calls", "usages", "throws", "rw", "type_refs", "env_accesses"}
                            \union {"type_assigns"})
  <2>1. {"calls", "usages", "throws", "rw", "type_refs", "env_accesses"}
          \intersect {"type_assigns"} = {}
    OBVIOUS
  <2>2. Handled(s) = handle_calls(func) \o handle_usages(s, func) \o handle_throws(func)
                       \o handle_readwrites(func) \o handle_type_refs(s)
                       \o handle_env_accesses(func) \o handle_type_assigns(func)
    BY DEF Handled, func
  <2> QED BY <1>10, <1>15, <2>1, <2>2, LeavesConcat
<1>17. {"calls", "usages", "throws", "rw", "type_refs", "env_accesses"} \union {"type_assigns"}
         = Found \ {"imports"}
  BY DEF Found, Arrays
<1> QED BY <1>16, <1>17

-----------------------------------------------------------------------------
(* Every step keeps the items in order.                                    *)

LEMMA SameItems ==
  ASSUME file' = file, lost' = lost
  PROVE  /\ \A x : Yields(x)' = Yields(x) /\ \A n : ItemOf(x, n)' = ItemOf(x, n)
         /\ \A x, n : Source(x, n)' = Source(x, n)
         /\ \A n : /\ Imported(n)' = Imported(n) /\ Alone(n)' = Alone(n)
                   /\ Fallback(n)' = Fallback(n)
<1>1. /\ Nodes' = Nodes
      /\ \A n : Ancestors(n)' = Ancestors(n) /\ NamedScope(n)' = NamedScope(n)
      /\ \A n, k : Is(n, k)' = Is(n, k)
  BY SameTree
<1>2. \A n : HasName(n)' = HasName(n) /\ Parent(n)' = Parent(n)
  BY <1>1 DEF HasName, Parent
<1>3. \A n : Statement(n)' = Statement(n)
  BY <1>1 DEF Statement
<1>4. \A n : Imported(n)' = Imported(n)
  BY <1>1, <1>3 DEF Imported
<1>5. \A n : Alone(n)' = Alone(n)
  BY <1>1, <1>3, <1>4 DEF Alone
<1>6. \A n : Fallback(n)' = Fallback(n)
  BY <1>1, <1>3 DEF Fallback
<1>7. \A n : InSignature(n)' = InSignature(n) /\ InBody(n)' = InBody(n)
  <2> TAKE n
  <2>1. PICK p : p = Parent(n)
    OBVIOUS
  <2>2. Parent(n)' = p
    BY <1>2, <2>1
  <2> QED BY <1>1, <1>2, <2>1, <2>2 DEF InSignature, InBody
<1>8. \A x : Yields(x)' = Yields(x)
  BY <1>1, <1>4, <1>5, <1>6, <1>7 DEF Yields
<1>9. \A n, k : Around(n, k)' = Around(n, k)
  BY <1>1 DEF Around
<1>10. \A n : QualifiedName(n)' = QualifiedName(n)
  BY <1>9 DEF QualifiedName
<1>11. ASSUME NEW n PROVE Caller(n)' = Caller(n)
  <2>1. PICK f : f = Max(Around(n, "func"))
    OBVIOUS
  <2>2. Max(Around(n, "func"))' = f
    BY <1>9, <2>1
  <2> QED BY <1>9, <1>10, <2>1, <2>2 DEF Caller
<1>12. ASSUME NEW x, NEW n PROVE ItemOf(x, n)' = ItemOf(x, n)
  <2>1. PICK p : p = Parent(n)
    OBVIOUS
  <2>2. Parent(n)' = p
    BY <1>2, <2>1
  <2>3. /\ QualifiedName(p)' = QualifiedName(p) /\ Caller(p)' = Caller(p)
        /\ Caller(n)' = Caller(n) /\ Is(p, "function")' = Is(p, "function")
    BY <1>1, <1>10, <1>11
  <2> QED BY <2>1, <2>2, <2>3 DEF ItemOf
<1>13. \A x, n : Source(x, n)' = Source(x, n)
  BY <1>2 DEF Source
<1> QED BY <1>4, <1>5, <1>6, <1>8, <1>12, <1>13

\* A step that pushes nothing, at whose beginning nothing was to come: what it
\* announces are the items of the nodes it sees, in order and after the others.
LEMMA AnnouncedInOrder ==
  ASSUME NEW x, file' = file, lost' = lost, pushed' = pushed, todo = <<>>,
         InOrderSoFar(x), Seen(x) \subseteq Seen(x)',
         \A j \in DOMAIN todo' : todo'[j].to = x =>
           /\ todo'[j].item = ItemOf(x, todo'[j].item.node)
           /\ todo'[j].item.node \in Yields(x) \intersect Seen(x)'
           /\ \A n \in Seen(x) : Before(x, n, todo'[j].item.node),
         \A i, j \in DOMAIN todo' :
           i < j /\ todo'[i].to = x /\ todo'[j].to = x =>
             Before(x, todo'[i].item.node, todo'[j].item.node),
         \A n \in Yields(x) \intersect Seen(x)' :
           n \in Seen(x) \/ \E j \in DOMAIN todo' : todo'[j].to = x /\ todo'[j].item.node = n
  PROVE  InOrderSoFar(x)'
<1>1. Yields(x)' = Yields(x) /\ \A n : ItemOf(x, n)' = ItemOf(x, n)
  BY SameItems
<1>2. DOMAIN todo = {}
  OBVIOUS
<1>3. \A i \in DOMAIN pushed'[x] : OfTheTree(x, pushed[x][i])'
  BY <1>1 DEF InOrderSoFar, OfTheTree
<1>4. \A j \in DOMAIN todo' : todo'[j].to = x => OfTheTree(x, todo[j].item)'
  BY <1>1 DEF OfTheTree
<1>5. \A i \in DOMAIN pushed'[x], j \in DOMAIN todo' :
        todo'[j].to = x => Before(x, pushed'[x][i].node, todo'[j].item.node)
  BY DEF InOrderSoFar, OfTheTree
<1>6. \A n \in Yields(x)' \intersect Seen(x)' :
        \/ \E i \in DOMAIN pushed'[x] : pushed'[x][i].node = n
        \/ \E j \in DOMAIN todo' : todo'[j].to = x /\ todo'[j].item.node = n
  BY <1>1, <1>2 DEF InOrderSoFar
<1>7. \A i, j \in DOMAIN pushed'[x] :
        i < j => Before(x, pushed'[x][i].node, pushed'[x][j].node)
  BY DEF InOrderSoFar
<1> QED BY <1>3, <1>4, <1>5, <1>6, <1>7 DEF InOrderSoFar, Before

\* The walks are where they were.
LEMMA SeenIsKept ==
  ASSUME UNCHANGED <<pc, file, node, lost>>, NEW x
  PROVE  /\ Yields(x)' = Yields(x) /\ \A n : ItemOf(x, n)' = ItemOf(x, n)
         /\ Seen(x)' = Seen(x)
<1>1. /\ Yields(x)' = Yields(x) /\ \A n : ItemOf(x, n)' = ItemOf(x, n)
      /\ \A n : Source(x, n)' = Source(x, n) /\ Imported(n)' = Imported(n) /\ Alone(n)' = Alone(n)
      /\ Nodes' = Nodes
  BY SameItems, SameTree
<1>2. Passed(x)' = Passed(x)
  BY <1>1 DEF Passed
<1>3. Seen(x)' = Seen(x)
  BY <1>1, <1>2 DEF Seen
<1> QED BY <1>1, <1>3

\* A push moves the next item from those to come to those pushed.
LEMMA PushStep ==
  ASSUME ArenaInv, BlockOrFailure, ParserInv, WalkInv, ArraysInv, Push, lost = {},
         EnoughMemory', NEW x \in Found, InOrderSoFar(x)
  PROVE  InOrderSoFar(x)'
<1>1. /\ todo # <<>> /\ todo' = Tail(todo) /\ UNCHANGED <<pc, file, node, lost>>
      /\ file' = file /\ x \in Arrays /\ pushed[x] \in Seq(ItemSet)
      /\ pushed \in [Arrays -> Seq(ItemSet)]
  BY DEF Push, walkVars, ArraysInv, Found, Arrays
<1>2. PICK y, it : y = Head(todo).to /\ it = Head(todo).item
  OBVIOUS
<1>3. /\ y \in Arrays /\ it \in ItemSet /\ y = todo[1].to /\ it = todo[1].item
      /\ 1 \in DOMAIN todo /\ todo \in Seq(Works)
      /\ \A i \in DOMAIN todo' : i + 1 \in DOMAIN todo /\ todo'[i] = todo[i + 1]
      /\ \A i \in DOMAIN todo : i = 1 \/ (i - 1 \in DOMAIN todo' /\ todo'[i - 1] = todo[i])
  BY <1>1, <1>2, TodoFacts DEF Works, WalkInv
<1>4. pushed' = [pushed EXCEPT ![y] = Append(@, it)]
  BY <1>2, PushSucceeds
<1>5. /\ Yields(x)' = Yields(x) /\ \A n : ItemOf(x, n)' = ItemOf(x, n)
      /\ Seen(x)' = Seen(x)
  BY <1>1, SeenIsKept
<1>6. \A i \in DOMAIN todo' : i \in Nat \ {0}
  <2>1. Tail(todo) \in Seq(Works)
    BY <1>1, TodoFacts
  <2> QED BY <1>1, <2>1, Elements
<1>7. \A i \in DOMAIN todo : i \in Nat \ {0}
  BY <1>3, Elements
<1>8. \A i, j \in DOMAIN todo' :
        i < j /\ todo'[i].to = x /\ todo'[j].to = x => Before(x, todo'[i].item.node, todo'[j].item.node)
  <2> SUFFICES ASSUME NEW i \in DOMAIN todo', NEW j \in DOMAIN todo', i < j,
                      todo'[i].to = x, todo'[j].to = x
               PROVE  Before(x, todo'[i].item.node, todo'[j].item.node)
    OBVIOUS
  <2>1. i + 1 < j + 1 /\ i + 1 \in DOMAIN todo /\ j + 1 \in DOMAIN todo
    BY <1>3, <1>6
  <2> QED BY <1>3, <2>1 DEF InOrderSoFar
<1>9. \A j \in DOMAIN todo' : todo'[j].to = x => OfTheTree(x, todo[j].item)'
  BY <1>3, <1>5 DEF InOrderSoFar, OfTheTree
<1>10. CASE x # y
  <2>1. pushed'[x] = pushed[x]
    BY <1>1, <1>4, <1>10
  <2>2. \A i \in DOMAIN pushed'[x] : OfTheTree(x, pushed[x][i])'
    BY <1>5, <2>1 DEF InOrderSoFar, OfTheTree
  <2>3. \A i \in DOMAIN pushed'[x], j \in DOMAIN todo' :
          todo'[j].to = x => Before(x, pushed'[x][i].node, todo'[j].item.node)
    BY <1>3, <2>1 DEF InOrderSoFar
  <2>4. \A n \in Yields(x)' \intersect Seen(x)' :
          \/ \E i \in DOMAIN pushed'[x] : pushed'[x][i].node = n
          \/ \E j \in DOMAIN todo' : todo'[j].to = x /\ todo'[j].item.node = n
    <3> SUFFICES ASSUME NEW n \in Yields(x) \intersect Seen(x),
                        ~ \E i \in DOMAIN pushed[x] : pushed[x][i].node = n
                 PROVE  \E j \in DOMAIN todo' : todo'[j].to = x /\ todo'[j].item.node = n
      BY <1>5, <2>1
    <3>1. PICK j \in DOMAIN todo : todo[j].to = x /\ todo[j].item.node = n
      BY DEF InOrderSoFar
    <3>2. j # 1
      BY <1>3, <1>10, <3>1
    <3> QED BY <1>3, <3>1, <3>2
  <2>5. \A i, j \in DOMAIN pushed'[x] : i < j => Before(x, pushed'[x][i].node, pushed'[x][j].node)
    BY <2>1 DEF InOrderSoFar
  <2> QED BY <1>8, <1>9, <2>2, <2>3, <2>4, <2>5 DEF InOrderSoFar, Before
<1>11. CASE x = y
  <2>1. PICK q \in Seq(ItemSet) : q = pushed[x]
    BY <1>1
  <2>2. pushed'[x] = Append(q, it)
    BY <1>1, <1>4, <1>11, <2>1
  <2>3. Len(q) \in Nat
    BY Elements
  <2>4. PICK r : r = pushed'[x]
    OBVIOUS
  <2>5. /\ DOMAIN q = 1 .. Len(q) /\ DOMAIN r = 1 .. Len(q) + 1
        /\ \A i \in 1 .. Len(q) : r[i] = q[i]
        /\ r[Len(q) + 1] = it
    BY <1>3, <2>2, <2>4, AppendFacts
  <2>6. \A i \in DOMAIN r : i \in Nat /\ ((i \in DOMAIN q /\ r[i] = q[i]) \/ (i = Len(q) + 1 /\ r[i] = it))
    BY <2>3, <2>5
  <2>7. /\ OfTheTree(x, it) /\ \A i \in DOMAIN q : OfTheTree(x, q[i]) /\ Before(x, q[i].node, it.node)
        /\ \A i, j \in DOMAIN q : i < j => Before(x, q[i].node, q[j].node)
    BY <1>3, <1>11, <2>1 DEF InOrderSoFar
  <2>8. \A i \in DOMAIN pushed'[x] : OfTheTree(x, pushed[x][i])'
    BY <1>5, <2>4, <2>6, <2>7 DEF OfTheTree
  <2>9. \A i \in DOMAIN pushed'[x], j \in DOMAIN todo' :
          todo'[j].to = x => Before(x, pushed'[x][i].node, todo'[j].item.node)
    <3> SUFFICES ASSUME NEW i \in DOMAIN r, NEW j \in DOMAIN todo', todo'[j].to = x
                 PROVE  Before(x, r[i].node, todo'[j].item.node)
      BY <2>4
    <3>1. 1 < j + 1 /\ j + 1 \in DOMAIN todo /\ todo'[j] = todo[j + 1]
      BY <1>3, <1>6
    <3>2. Before(x, it.node, todo'[j].item.node)
      BY <1>3, <1>11, <3>1 DEF InOrderSoFar
    <3>3. \A k \in DOMAIN q : Before(x, q[k].node, todo'[j].item.node)
      BY <2>1, <3>1 DEF InOrderSoFar
    <3> QED BY <2>6, <3>2, <3>3
  <2>10. \A n \in Yields(x)' \intersect Seen(x)' :
           \/ \E i \in DOMAIN pushed'[x] : pushed'[x][i].node = n
           \/ \E j \in DOMAIN todo' : todo'[j].to = x /\ todo'[j].item.node = n
    <3> SUFFICES ASSUME NEW n \in Yields(x) \intersect Seen(x)
                 PROVE  \/ \E i \in DOMAIN r : r[i].node = n
                        \/ \E j \in DOMAIN todo' : todo'[j].to = x /\ todo'[j].item.node = n
      BY <1>5, <2>4
    <3>1. CASE \E i \in DOMAIN q : q[i].node = n
      <4>1. PICK i \in DOMAIN q : q[i].node = n
        BY <3>1
      <4>2. i \in DOMAIN r /\ r[i] = q[i]
        BY <2>3, <2>5
      <4> QED BY <4>1, <4>2
    <3>2. CASE \E j \in DOMAIN todo : todo[j].to = x /\ todo[j].item.node = n
      <4>1. PICK j \in DOMAIN todo : todo[j].to = x /\ todo[j].item.node = n
        BY <3>2
      <4>2. CASE j = 1
        <5>1. Len(q) + 1 \in DOMAIN r
          BY <2>3, <2>5
        <5> QED BY <1>3, <2>5, <4>1, <4>2, <5>1
      <4>3. CASE j # 1
        BY <1>3, <4>1, <4>3
      <4> QED BY <4>2, <4>3
    <3> QED BY <2>1, <3>1, <3>2 DEF InOrderSoFar
  <2>11. \A i, j \in DOMAIN pushed'[x] : i < j => Before(x, pushed'[x][i].node, pushed'[x][j].node)
    <3> SUFFICES ASSUME NEW i \in DOMAIN r, NEW j \in DOMAIN r, i < j
                 PROVE  Before(x, r[i].node, r[j].node)
      BY <2>4
    <3>1. i \in 1 .. Len(q)
      BY <2>3, <2>5
    <3> QED BY <2>5, <2>6, <2>7, <3>1
  <2> QED BY <1>8, <1>9, <2>8, <2>9, <2>10, <2>11 DEF InOrderSoFar, Before
<1> QED BY <1>10, <1>11

LEMMA VisitStep ==
  ASSUME ParserInv, WalkInv, StackInv, Visit, lost = {},
         NEW x \in Found, InOrderSoFar(x)
  PROVE  InOrderSoFar(x)'
<1>1. /\ pc = "visit" /\ pc' = "scopes" /\ UNCHANGED <<node, file, lost, pushed>> /\ todo = <<>>
      /\ file \in Files /\ node \in Nodes /\ depth = file.level[node] /\ node \in Nat
  BY DEF Visit, ParserInv, WalkInv, resultVars
<1>2. scopes \in Seq(ScopeSet) /\ StackOf(scopes, Path(node - 1))
  BY <1>1 DEF StackInv, Inside
<1>3. PICK s : s = PopExpired(scopes, depth)
  OBVIOUS
<1>4. s \in Seq(ScopeSet) /\ StackOf(s, Ancestors(node))
  BY <1>1, <1>2, <1>3, Popped
<1>5. todo' = Handled(s)
  BY <1>3 DEF Visit
<1>6. Leaves(todo', Found \ {"imports"})
  BY <1>1, <1>4, <1>5, HandledIsFound
<1>7. /\ Nodes' = Nodes /\ Nodes = 1 .. Len(file.kind) /\ Len(file.kind) \in Nat
      /\ Yields(x) \subseteq Nodes /\ \A n : Source(x, n)' = Source(x, n)
  BY <1>1, SameTree, SameItems, TreeFacts DEF Yields
<1>8. /\ Passed(x) = IF x = "imports" THEN Nodes ELSE 1 .. node - 1
      /\ Passed(x)' = IF x = "imports" THEN Nodes ELSE 1 .. node
  BY <1>1, <1>7 DEF Passed, BeforeTree
<1>9. /\ Seen(x) = {n \in Nodes : Source(x, n) \in Passed(x)}
      /\ Seen(x)' = {n \in Nodes : Source(x, n) \in Passed(x)'}
  BY <1>7 DEF Seen
<1>10. node \in 1 .. node /\ node \notin 1 .. node - 1 /\ 1 .. node - 1 \subseteq 1 .. node
  BY <1>1, <1>7
<1>11. Seen(x) \subseteq Seen(x)'
  BY <1>8, <1>9, <1>10
<1>12. \A j \in DOMAIN todo' : todo'[j].to = x =>
         /\ todo'[j].item = ItemOf(x, todo'[j].item.node)
         /\ todo'[j].item.node \in Yields(x) \intersect Seen(x)'
         /\ \A n \in Seen(x) : Before(x, n, todo'[j].item.node)
  <2> SUFFICES ASSUME NEW j \in DOMAIN todo', todo'[j].to = x
               PROVE  /\ todo'[j].item = ItemOf(x, todo'[j].item.node)
                      /\ todo'[j].item.node \in Yields(x) \intersect Seen(x)'
                      /\ \A n \in Seen(x) : Before(x, n, todo'[j].item.node)
    OBVIOUS
  <2>1. PICK k : k = todo'[j].item.node
    OBVIOUS
  <2>2. /\ x # "imports" /\ todo'[j].item = ItemOf(x, k) /\ k \in Yields(x)
        /\ Source(x, k) = node /\ k \in Nodes
    BY <1>6, <1>7, <2>1 DEF Leaves
  <2>3. k \in Seen(x)'
    BY <1>8, <1>9, <1>10, <2>2
  <2>4. ASSUME NEW n \in Seen(x) PROVE Before(x, n, k)
    <3>1. Source(x, n) \in 1 .. node - 1
      BY <1>8, <1>9, <2>2
    <3>2. CASE x = "type_refs"
      <4>1. x \notin Ordered
        BY <3>2 DEF Ordered, Attributed
      <4>2. n # k
        BY <1>10, <2>2, <3>1
      <4> QED BY <4>1, <4>2 DEF Before
    <3>3. CASE x # "type_refs"
      <4>1. n \in 1 .. node - 1 /\ k = node
        BY <2>2, <3>1, <3>3 DEF Source
      <4>2. n < k
        BY <1>1, <4>1
      <4>3. x \in Ordered
        BY <3>3 DEF Found, Ordered, Attributed, Arrays
      <4> QED BY <4>2, <4>3 DEF Before
    <3> QED BY <3>2, <3>3
  <2> QED BY <2>1, <2>2, <2>3, <2>4
<1>13. \A i, j \in DOMAIN todo' :
         i < j /\ todo'[i].to = x /\ todo'[j].to = x =>
           Before(x, todo'[i].item.node, todo'[j].item.node)
  BY <1>6 DEF Leaves
<1>14. \A n \in Yields(x) \intersect Seen(x)' :
         n \in Seen(x) \/ \E j \in DOMAIN todo' : todo'[j].to = x /\ todo'[j].item.node = n
  <2> SUFFICES ASSUME NEW n \in Yields(x) \intersect Seen(x)', n \notin Seen(x)
               PROVE  \E j \in DOMAIN todo' : todo'[j].to = x /\ todo'[j].item.node = n
    OBVIOUS
  <2>1. x # "imports" /\ Source(x, n) \in 1 .. node /\ Source(x, n) \notin 1 .. node - 1
    BY <1>8, <1>9
  <2>2. Source(x, n) = node
    BY <1>1, <2>1
  <2> QED BY <1>6, <2>1, <2>2 DEF Leaves
<1> QED BY <1>1, <1>11, <1>12, <1>13, <1>14, AnnouncedInOrder

LEMMA PushScopesStep ==
  ASSUME ParserInv, WalkInv, StackInv, PushScopes, lost = {}, lost' = {},
         NEW x \in Found, InOrderSoFar(x)
  PROVE  InOrderSoFar(x)'
<1>1. /\ pc = "scopes" /\ file' = file /\ todo = <<>> /\ todo' = <<>> /\ pushed' = pushed
      /\ lost' = lost
      /\ \/ node < Len(file.kind) /\ node' = node + 1 /\ pc' = "visit"
         \/ ~ (node < Len(file.kind)) /\ node' = node /\ pc' = "convert"
      /\ file \in Files /\ node \in Nodes
  BY DEF PushScopes, Enter, ParserInv, WalkInv, resultVars
<1>2. /\ Nodes' = Nodes /\ Nodes = 1 .. Len(file.kind) /\ Len(file.kind) \in Nat
      /\ \A n : Source(x, n)' = Source(x, n)
  BY <1>1, SameTree, SameItems, TreeFacts
<1>3. Passed(x)' = Passed(x)
  <2>1. Passed(x) = IF x = "imports" THEN Nodes ELSE 1 .. node
    BY <1>1 DEF Passed, BeforeTree
  <2>2. CASE pc' = "visit"
    <3>1. Passed(x)' = IF x = "imports" THEN Nodes ELSE 1 .. node' - 1
      BY <1>2, <2>2 DEF Passed, BeforeTree
    <3> QED BY <1>1, <1>2, <2>1, <2>2, <3>1
  <2>3. CASE pc' = "convert"
    <3>1. Passed(x)' = Nodes
      BY <1>2, <2>3 DEF Passed, BeforeTree
    <3> QED BY <1>1, <1>2, <2>1, <2>3, <3>1
  <2> QED BY <1>1, <2>2, <2>3
<1>4. DOMAIN todo' = {} /\ Seen(x)' = Seen(x)
  BY <1>1, <1>2, <1>3 DEF Seen
<1> QED BY <1>1, <1>4, AnnouncedInOrder

\* From the walks before to the unified walk there is nothing to see.
LEMMA NotYetSeen ==
  ASSUME file' = file, lost' = lost, pushed' = pushed, todo = <<>>, NEW x,
         \A j \in DOMAIN todo' : todo'[j].to # x,
         Passed(x) = {}, Passed(x)' = {}, InOrderSoFar(x)
  PROVE  InOrderSoFar(x)'
<1>1. Seen(x) = {} /\ Seen(x)' = {}
  BY DEF Seen
<1> QED BY <1>1, AnnouncedInOrder

\* The imports that the walk finds at a node, but for the statement itself.
LEMMA ParseImportsStep ==
  ASSUME ParserInv, WalkInv, ParseImports, NEW x \in Found, InOrderSoFar(x)
  PROVE  InOrderSoFar(x)'
<1>1. /\ pc = "imports" /\ UNCHANGED <<file, lost, pushed>> /\ todo = <<>>
      /\ todo' = ImportsAt(node) /\ file \in Files /\ node \in Nodes
      /\ \/ Fallback(node) /\ pc' = "fallback" /\ node' = node
         \/ ~ Fallback(node) /\ node < Len(file.kind) /\ pc' = "imports" /\ node' = node + 1
         \/ ~ Fallback(node) /\ ~ (node < Len(file.kind)) /\ pc' = "visit" /\ node' = 1
  BY DEF ParseImports, MoveOn, ParserInv, WalkInv, resultVars
<1>2. /\ Nodes' = Nodes /\ Nodes = 1 .. Len(file.kind) /\ Len(file.kind) \in Nat
      /\ node \in Nat /\ Yields(x) \subseteq Nodes
      /\ \A n : /\ Source(x, n)' = Source(x, n)
                /\ Imported(n)' = Imported(n) /\ Alone(n)' = Alone(n)
  BY <1>1, SameTree, SameItems, TreeFacts DEF Yields
<1>3. CASE x # "imports"
  <2>1. Passed(x) = {}
    BY <1>1, <1>3 DEF Passed, BeforeTree
  <2>2. Passed(x)' = {}
    <3>1. CASE pc' \in {"fallback", "imports"}
      BY <1>3, <3>1 DEF Passed, BeforeTree
    <3>2. CASE pc' = "visit"
      <4>1. node' = 1 /\ 1 .. 1 - 1 = {}
        BY <1>1, <3>2
      <4> QED BY <1>3, <3>2, <4>1 DEF Passed, BeforeTree
    <3> QED BY <1>1, <3>1, <3>2
  <2>3. \A j \in DOMAIN todo' : todo'[j].to # x
    <3>1. \A j \in DOMAIN todo' : todo'[j].to = "imports"
      BY ImportsFacts
    <3> QED BY <1>3, <3>1
  <2> QED BY <1>1, <2>1, <2>2, <2>3, NotYetSeen
<1>4. CASE x = "imports"
  <2>1. Passed(x) = 1 .. node - 1
    BY <1>1, <1>4 DEF Passed, BeforeTree
  <2>2. Passed(x)' = IF Fallback(node)
                       THEN {n \in 1 .. node : n = node => Imported(n) \/ Alone(n)}
                       ELSE 1 .. node
    <3>1. CASE pc' = "fallback"
      <4>1. Passed(x)' = {n \in 1 .. node' : n = node' => (Imported(n) \/ Alone(n))'}
        BY <1>4, <3>1 DEF Passed, BeforeTree
      <4> QED BY <1>1, <1>2, <3>1, <4>1
    <3>2. CASE pc' = "imports"
      <4>1. Passed(x)' = 1 .. node' - 1
        BY <1>4, <3>2 DEF Passed, BeforeTree
      <4> QED BY <1>1, <1>2, <3>2, <4>1
    <3>3. CASE pc' = "visit"
      <4>1. Passed(x)' = Nodes
        BY <1>2, <1>4, <3>3 DEF Passed, BeforeTree
      <4> QED BY <1>1, <1>2, <3>3, <4>1
    <3> QED BY <1>1, <3>1, <3>2, <3>3
  <2>3. /\ Seen(x) = 1 .. node - 1
        /\ Seen(x)' = Passed(x)'
    <3>1. \A n : Source(x, n) = n
      BY <1>4 DEF Source
    <3>2. /\ Seen(x) = {n \in Nodes : n \in Passed(x)}
          /\ Seen(x)' = {n \in Nodes : n \in Passed(x)'}
      BY <1>2, <3>1 DEF Seen
    <3>3. 1 .. node - 1 \subseteq Nodes /\ 1 .. node \subseteq Nodes
      BY <1>1, <1>2
    <3> QED BY <2>1, <2>2, <3>2, <3>3
  <2>4. /\ 1 .. node - 1 \subseteq 1 .. node /\ node \in 1 .. node /\ node \notin 1 .. node - 1
        /\ \A n \in 1 .. node : n = node \/ n \in 1 .. node - 1
        /\ \A n \in 1 .. node - 1 : n < node
    BY <1>1, <1>2
  <2>5. Seen(x) \subseteq Seen(x)'
    BY <2>2, <2>3, <2>4
  <2>6. Imported(node) \/ Alone(node) => node \in Yields(x)
    BY <1>1, <1>4 DEF Yields
  <2>7. \A n \in Seen(x) : Before(x, n, node)
    BY <1>4, <2>3, <2>4 DEF Before, Ordered
  <2>8. CASE Imported(node) \/ Alone(node)
    <3>1. PICK w : w = Item("imports", node, <<>>)
      OBVIOUS
    <3>2. todo' = <<w>> /\ w.to = x /\ w.item.node = node /\ w.item = ItemOf(x, node)
      BY <1>1, <1>4, <2>8, <3>1 DEF ImportsAt, Item, ItemOf
    <3>3. DOMAIN todo' = {1} /\ todo'[1] = w
      BY <3>2
    <3>4. node \in Seen(x)'
      BY <2>2, <2>3, <2>4, <2>8
    <3>5. \A n \in Seen(x)' : n \in Seen(x) \/ n = node
      BY <2>2, <2>3, <2>4
    <3>6. \A j \in DOMAIN todo' : todo'[j].to = x =>
            /\ todo'[j].item = ItemOf(x, todo'[j].item.node)
            /\ todo'[j].item.node \in Yields(x) \intersect Seen(x)'
            /\ \A n \in Seen(x) : Before(x, n, todo'[j].item.node)
      BY <2>6, <2>7, <2>8, <3>2, <3>3, <3>4
    <3>7. \A i, j \in DOMAIN todo' : ~ (i < j)
      BY <3>3
    <3>8. \A n \in Yields(x) \intersect Seen(x)' :
            n \in Seen(x) \/ \E j \in DOMAIN todo' : todo'[j].to = x /\ todo'[j].item.node = n
      BY <3>2, <3>3, <3>5
    <3> QED BY <1>1, <2>5, <3>6, <3>7, <3>8, AnnouncedInOrder
  <2>9. CASE ~ (Imported(node) \/ Alone(node))
    <3>1. todo' = <<>>
      BY <1>1, <2>9 DEF ImportsAt
    <3>2. DOMAIN todo' = {}
      BY <3>1
    <3>3. \A n \in Yields(x) \intersect Seen(x)' : n \in Seen(x)
      <4> SUFFICES ASSUME NEW n \in Yields(x) \intersect Seen(x)', n \notin Seen(x) PROVE FALSE
        OBVIOUS
      <4>1. n = node /\ ~ Fallback(node)
        BY <2>2, <2>3, <2>4, <2>9
      <4> QED BY <1>4, <2>9, <4>1 DEF Yields
    <3> QED BY <1>1, <2>5, <3>2, <3>3, AnnouncedInOrder
  <2> QED BY <2>8, <2>9
<1> QED BY <1>3, <1>4

\* The statement itself, if there is no import yet.
LEMMA ParseFallbackStep ==
  ASSUME ParserInv, WalkInv, ArraysInv, ParseFallback, Fallback(node),
         NEW x \in Found, InOrderSoFar(x)
  PROVE  InOrderSoFar(x)'
<1>1. /\ pc = "fallback" /\ UNCHANGED <<file, lost, pushed>> /\ todo = <<>>
      /\ todo' = IF arrays["imports"].count = 0 THEN <<Item("imports", node, <<>>)>> ELSE <<>>
      /\ file \in Files /\ node \in Nodes
      /\ \/ node < Len(file.kind) /\ pc' = "imports" /\ node' = node + 1
         \/ ~ (node < Len(file.kind)) /\ pc' = "visit" /\ node' = 1
  BY DEF ParseFallback, MoveOn, ParserInv, WalkInv, resultVars
<1>2. /\ Nodes' = Nodes /\ Nodes = 1 .. Len(file.kind) /\ Len(file.kind) \in Nat
      /\ node \in Nat /\ Yields(x) \subseteq Nodes
      /\ \A n : Source(x, n)' = Source(x, n)
  BY <1>1, SameTree, SameItems, TreeFacts DEF Yields
<1>3. CASE x # "imports"
  <2>1. Passed(x) = {}
    BY <1>1, <1>3 DEF Passed, BeforeTree
  <2>2. Passed(x)' = {}
    <3>1. CASE pc' = "imports"
      BY <1>3, <3>1 DEF Passed, BeforeTree
    <3>2. CASE pc' = "visit"
      <4>1. node' = 1 /\ 1 .. 1 - 1 = {}
        BY <1>1, <3>2
      <4> QED BY <1>3, <3>2, <4>1 DEF Passed, BeforeTree
    <3> QED BY <1>1, <3>1, <3>2
  <2>3. \A j \in DOMAIN todo' : todo'[j].to # x
    <3>1. \A j \in DOMAIN todo' : todo'[j].to = "imports"
      BY ImportsFacts
    <3> QED BY <1>3, <3>1
  <2> QED BY <1>1, <2>1, <2>2, <2>3, NotYetSeen
<1>4. CASE x = "imports"
  <2>1. /\ Seen(x) = {n \in 1 .. node : n = node => Imported(n) \/ Alone(n)}
        /\ Seen(x)' = 1 .. node
    <3>1. Passed(x) = {n \in 1 .. node : n = node => Imported(n) \/ Alone(n)}
      BY <1>1, <1>4 DEF Passed, BeforeTree
    <3>2. Passed(x)' = 1 .. node
      <4>1. CASE pc' = "imports"
        <5>1. Passed(x)' = 1 .. node' - 1
          BY <1>4, <4>1 DEF Passed, BeforeTree
        <5> QED BY <1>1, <1>2, <4>1, <5>1
      <4>2. CASE pc' = "visit"
        <5>1. Passed(x)' = Nodes
          BY <1>2, <1>4, <4>2 DEF Passed, BeforeTree
        <5> QED BY <1>1, <1>2, <4>2, <5>1
      <4> QED BY <1>1, <4>1, <4>2
    <3>3. \A n : Source(x, n) = n
      BY <1>4 DEF Source
    <3>4. /\ Seen(x) = {n \in Nodes : n \in Passed(x)}
          /\ Seen(x)' = {n \in Nodes : n \in Passed(x)'}
      BY <1>2, <3>3 DEF Seen
    <3>5. 1 .. node \subseteq Nodes
      BY <1>1, <1>2
    <3> QED BY <3>1, <3>2, <3>4, <3>5
  <2>2. /\ node \in 1 .. node /\ \A n \in 1 .. node : n = node \/ n < node
        /\ \A n \in 1 .. node - 1 : n \in 1 .. node /\ n # node
    BY <1>1, <1>2
  <2>3. Seen(x) \subseteq Seen(x)'
    BY <2>1
  <2>4. /\ pushed[x] \in Seq(ItemSet) /\ Len(pushed[x]) = arrays["imports"].count
        /\ DOMAIN pushed[x] = 1 .. Len(pushed[x]) /\ Len(pushed[x]) \in Nat
    <3>1. pushed[x] \in Seq(ItemSet) /\ Len(pushed[x]) = arrays["imports"].count
      BY <1>4 DEF ArraysInv, Found
    <3> QED BY <3>1, Elements
  <2>5. DOMAIN todo = {}
    BY <1>1
  <2>6. CASE arrays["imports"].count = 0
    <3>1. DOMAIN pushed[x] = {}
      BY <2>4, <2>6
    <3>2. \A n \in Seen(x) : n \notin Yields(x)
      BY <2>5, <3>1 DEF InOrderSoFar
    <3>3. \A m \in 1 .. node - 1 : ~ Imported(m) /\ ~ Alone(m)
      <4> SUFFICES ASSUME NEW m \in 1 .. node - 1, Imported(m) \/ Alone(m) PROVE FALSE
        OBVIOUS
      <4>1. m \in Seen(x)
        BY <2>1, <2>2
      <4>2. m \in Yields(x)
        <5>1. m \in Nodes
          BY <1>1, <1>2
        <5> QED BY <1>4, <5>1 DEF Yields
      <4> QED BY <3>2, <4>1, <4>2
    <3>4. \A m \in 1 .. node - 1 : ~ Fallback(m)
      <4> SUFFICES ASSUME NEW m0 \in 1 .. node - 1, Fallback(m0) PROVE FALSE
        OBVIOUS
      <4> DEFINE T == {m \in 1 .. node - 1 : Fallback(m)}
      <4>1. T \subseteq Nat /\ T # {}
        OBVIOUS
      <4>2. PICK m \in T : \A k \in T : m <= k
        BY <4>1, LeastNatural
      <4>3. m \in 1 .. node - 1 /\ Fallback(m) /\ m \in Nat /\ m \in Nodes
        BY <1>1, <1>2
      <4>4. \A k \in 1 .. m - 1 : k \in 1 .. node - 1 /\ ~ (m <= k)
        BY <1>2, <4>3
      <4>5. \A k \in 1 .. m - 1 : ~ Imported(k) /\ ~ Alone(k) /\ ~ Fallback(k)
        BY <3>3, <4>2, <4>4
      <4>6. m \in Yields(x)
        BY <1>4, <4>3, <4>5 DEF Yields
      <4>7. m \in Seen(x)
        BY <2>1, <2>2, <4>3
      <4> QED BY <3>2, <4>6, <4>7
    <3>5. node \in Yields(x)
      BY <1>1, <1>4, <3>3, <3>4 DEF Yields
    <3>6. node \notin Seen(x)
      BY <3>2, <3>5
    <3>7. \A n \in Seen(x) : Before(x, n, node)
      <4> TAKE n \in Seen(x)
      <4>1. n < node
        BY <2>1, <2>2, <3>6
      <4> QED BY <1>4, <4>1 DEF Before, Ordered
    <3>8. PICK w : w = Item("imports", node, <<>>)
      OBVIOUS
    <3>9. todo' = <<w>> /\ w.to = x /\ w.item.node = node /\ w.item = ItemOf(x, node)
      BY <1>1, <1>4, <2>6, <3>8 DEF Item, ItemOf
    <3>10. DOMAIN todo' = {1} /\ todo'[1] = w
      BY <3>9
    <3>11. \A j \in DOMAIN todo' : todo'[j].to = x =>
             /\ todo'[j].item = ItemOf(x, todo'[j].item.node)
             /\ todo'[j].item.node \in Yields(x) \intersect Seen(x)'
             /\ \A n \in Seen(x) : Before(x, n, todo'[j].item.node)
      BY <2>1, <2>2, <3>5, <3>7, <3>9, <3>10
    <3>12. \A i, j \in DOMAIN todo' : ~ (i < j)
      BY <3>10
    <3>13. \A n \in Yields(x) \intersect Seen(x)' :
             n \in Seen(x) \/ \E j \in DOMAIN todo' : todo'[j].to = x /\ todo'[j].item.node = n
      <4> TAKE n \in Yields(x) \intersect Seen(x)'
      <4>1. n = node \/ n \in Seen(x)
        BY <2>1, <2>2
      <4> QED BY <3>9, <3>10, <4>1
    <3> QED BY <1>1, <2>3, <3>11, <3>12, <3>13, AnnouncedInOrder
  <2>7. CASE arrays["imports"].count # 0
    <3>1. DOMAIN todo' = {}
      BY <1>1, <2>7
    <3>2. \A n \in Yields(x) \intersect Seen(x)' : n \in Seen(x)
      <4> SUFFICES ASSUME NEW n \in Yields(x) \intersect Seen(x)', n \notin Seen(x) PROVE FALSE
        OBVIOUS
      <4>1. n = node /\ ~ Imported(node) /\ ~ Alone(node)
        BY <2>1, <2>2
      <4>2. \A m \in 1 .. node - 1 : ~ Imported(m) /\ ~ Alone(m) /\ ~ Fallback(m)
        BY <1>4, <4>1 DEF Yields
      <4>3. 1 \in DOMAIN pushed[x]
        BY <2>4, <2>7
      <4>4. PICK k : k = pushed[x][1].node
        OBVIOUS
      <4>5. k \in Yields(x) /\ k \in Seen(x)
        BY <4>3, <4>4 DEF InOrderSoFar, OfTheTree
      <4>6. k \in 1 .. node - 1
        <5>1. k \in 1 .. node /\ k # node
          BY <2>1, <4>1, <4>5
        <5> QED BY <1>2, <5>1
      <4>7. Imported(k) \/ Alone(k) \/ Fallback(k)
        BY <1>4, <4>5 DEF Yields
      <4> QED BY <4>2, <4>6, <4>7
    <3> QED BY <1>1, <2>3, <3>1, <3>2, AnnouncedInOrder
  <2> QED BY <2>6, <2>7
<1> QED BY <1>3, <1>4

LEMMA FoundStep ==
  ASSUME IInv, FoundInv, [Next]_vars
  PROVE  FoundInv'
<1>0. /\ ArenaInv /\ BlockOrFailure /\ ParserInv /\ WalkInv /\ StackInv /\ ArraysInv
      /\ pushed \in [Arrays -> Seq(ItemSet)]
      /\ "defs" \notin Found /\ Found \subseteq Arrays
  BY DEF IInv, ArraysInv, Found, Arrays
\* A step that starts or ends an extraction leaves nothing in the arrays.
<1>1. ASSUME pushed' = [x \in Arrays |-> <<>>], todo' = <<>>, pc' \in BeforeTree
      PROVE  FoundInv'
  <2>1. DOMAIN <<>> = {} /\ DOMAIN todo' = {} /\ pc' # "fallback"
    BY <1>1 DEF BeforeTree
  <2>2. ASSUME NEW x \in Found PROVE InOrderSoFar(x)'
    <3>1. pushed'[x] = <<>>
      BY <1>0, <1>1
    <3>2. Passed(x)' = {}
      BY <1>1 DEF Passed, BeforeTree
    <3>3. Seen(x)' = {} /\ DOMAIN pushed'[x] = {}
      BY <2>1, <3>1, <3>2 DEF Seen
    <3> QED BY <2>1, <3>3 DEF InOrderSoFar
  <2> QED BY <2>1, <2>2 DEF FoundInv
\* A step before the imports sees nothing.
<1>2. ASSUME pc \in BeforeTree \union {"definitions"}, pc # "idle",
             pc' \in BeforeTree \union {"definitions", "imports"},
             pc' = "imports" => node' = 1, todo = <<>>,
             \A i \in DOMAIN todo' : todo'[i].to = "defs",
             UNCHANGED <<file, lost, pushed, failures, nblocks>>
      PROVE  FoundInv'
  <2>1. ASSUME NEW x \in Found, InOrderSoFar(x) PROVE InOrderSoFar(x)'
    <3>1. Passed(x) = {}
      BY <1>2 DEF Passed, BeforeTree
    <3>2. Passed(x)' = {}
      <4>1. CASE pc' = "imports"
        <5>1. node' = 1 /\ 1 .. 1 - 1 = {}
          BY <1>2, <4>1
        <5> QED BY <4>1, <5>1 DEF Passed, BeforeTree
      <4>2. CASE pc' # "imports"
        BY <1>2, <4>2 DEF Passed, BeforeTree
      <4> QED BY <4>1, <4>2
    <3>3. \A j \in DOMAIN todo' : todo'[j].to # x
      BY <1>0, <1>2
    <3> QED BY <1>2, <2>1, <3>1, <3>2, <3>3, NotYetSeen
  <2>2. EnoughMemory' = EnoughMemory /\ pc' # "fallback"
    BY <1>2 DEF EnoughMemory, BeforeTree
  <2> QED BY <1>2, <2>1, <2>2 DEF FoundInv
<1>3. ASSUME NEW f \in Files, Begin(f) PROVE FoundInv'
  <2>1. pc = "idle" /\ pc' \in {"parse", "failed"} /\ pushed' = pushed /\ todo' = todo
    BY <1>3 DEF Begin, resultVars
  <2>2. pushed = [x \in Arrays |-> <<>>] /\ todo = <<>>
    BY <1>0, <2>1 DEF ArraysInv, WalkInv, BeforeTree
  <2> QED BY <1>1, <2>1, <2>2 DEF BeforeTree
<1>4. CASE Parse
  <2>1. /\ pc = "parse" /\ pc' = "definitions" /\ todo' = <<Item("defs", 1, <<>>)>>
        /\ UNCHANGED <<file, lost, pushed, failures, nblocks>>
    BY <1>4 DEF Parse, resultVars, arenaVars
  <2>2. \A i \in DOMAIN todo' : todo'[i].to = "defs"
    BY <2>1 DEF Item
  <2>3. todo = <<>>
    BY <1>0, <2>1 DEF WalkInv, BeforeTree
  <2> QED BY <1>2, <2>1, <2>2, <2>3 DEF BeforeTree
<1>5. CASE ParseTimeout
  <2>1. /\ pc = "parse" /\ pc' = "failed" /\ todo' = todo
        /\ UNCHANGED <<file, lost, pushed, failures, nblocks>>
    BY <1>5 DEF ParseTimeout, resultVars, arenaVars, walkVars
  <2>2. todo = <<>> /\ todo' = <<>> /\ DOMAIN todo' = {}
    <3>1. todo = <<>>
      BY <1>0, <2>1 DEF WalkInv, BeforeTree
    <3> QED BY <2>1, <3>1
  <2> QED BY <1>2, <2>1, <2>2 DEF BeforeTree
<1>6. CASE WalkDefs
  <2>1. /\ pc = "definitions" /\ todo = <<>> /\ file \in Files /\ node \in Nodes
        /\ UNCHANGED <<file, lost, pushed, failures, nblocks>>
        /\ todo' = IF Reached(node) THEN DefinitionsAt(node) ELSE <<>>
        /\ pc' = "definitions" \/ (pc' = "imports" /\ node' = 1)
    BY <1>0, <1>6 DEF WalkDefs, resultVars, arenaVars, ParserInv, WalkInv
  <2>2. \A i \in DOMAIN DefinitionsAt(node) : DefinitionsAt(node)[i].to = "defs"
    BY <2>1, DefinitionsFacts
  <2>3. DOMAIN <<>> = {}
    OBVIOUS
  <2>4. \A i \in DOMAIN todo' : todo'[i].to = "defs"
    BY <2>1, <2>2, <2>3
  <2> QED BY <1>2, <2>1, <2>4
<1>7. CASE ParseImports
  <2>1. /\ pc = "imports" /\ UNCHANGED <<file, lost>>
        /\ pc' = "fallback" => node' = node /\ Fallback(node)
    BY <1>7 DEF ParseImports, MoveOn
  <2>2. EnoughMemory' => EnoughMemory
    BY <1>0, <1>7, MemoryKept
  <2>3. \A x \in Found : InOrderSoFar(x) => InOrderSoFar(x)'
    BY <1>0, <1>7, ParseImportsStep
  <2>4. pc' = "fallback" => Fallback(node)'
    <3>1. \A n : /\ Statement(n)' = Statement(n)
                 /\ Is(n, "fallback")' = Is(n, "fallback")
      <4>1. \A n, k : Is(n, k)' = Is(n, k)
        BY <2>1, SameTree
      <4> QED BY <2>1, <4>1 DEF Statement
    <3> QED BY <2>1, <3>1 DEF Fallback
  <2> QED BY <2>1, <2>2, <2>3, <2>4 DEF FoundInv
<1>8. CASE ParseFallback
  <2>1. pc = "fallback" /\ pc' # "fallback" /\ lost' = lost /\ Fallback(node)
    BY <1>8 DEF ParseFallback, MoveOn, FoundInv
  <2>2. EnoughMemory' => EnoughMemory
    BY <1>0, <1>8, MemoryKept
  <2>3. \A x \in Found : InOrderSoFar(x) => InOrderSoFar(x)'
    BY <1>0, <1>8, <2>1, ParseFallbackStep
  <2> QED BY <2>1, <2>2, <2>3 DEF FoundInv
<1>9. CASE Visit
  <2>1. pc = "visit" /\ pc' = "scopes" /\ lost' = lost
    BY <1>9 DEF Visit
  <2>2. EnoughMemory' => EnoughMemory
    BY <1>0, <1>9, MemoryKept
  <2>3. \A x \in Found : lost = {} /\ InOrderSoFar(x) => InOrderSoFar(x)'
    BY <1>0, <1>9, VisitStep
  <2> QED BY <2>1, <2>2, <2>3 DEF FoundInv
<1>10. CASE PushScopes
  <2>1. pc = "scopes" /\ pc' \in {"visit", "convert"} /\ lost \subseteq lost'
    BY <1>10 DEF PushScopes, Enter
  <2>2. EnoughMemory' => EnoughMemory
    BY <1>0, <1>10, MemoryKept
  <2>3. \A x \in Found : lost' = {} /\ InOrderSoFar(x) => InOrderSoFar(x)'
    BY <1>0, <1>10, <2>1, PushScopesStep
  <2> QED BY <2>1, <2>2, <2>3 DEF FoundInv
<1>11. CASE Push
  <2>1. UNCHANGED <<pc, lost, node, file>>
    BY <1>11 DEF Push, walkVars
  <2>2. EnoughMemory' => EnoughMemory
    BY <1>0, <1>11, PushSucceeds
  <2>3. \A x \in Found : EnoughMemory' /\ lost = {} /\ InOrderSoFar(x) => InOrderSoFar(x)'
    BY <1>0, <1>11, PushStep
  <2>4. Fallback(node)' = Fallback(node)
    BY <2>1, SameItems
  <2> QED BY <2>1, <2>2, <2>3, <2>4 DEF FoundInv
<1>12. CASE Convert
  <2>1. /\ pc = "convert" /\ pc' = "free" /\ todo = <<>>
        /\ UNCHANGED <<file, node, lost, todo, pushed>>
    BY <1>0, <1>12 DEF Convert, walkVars, resultVars
  <2>2. DOMAIN todo' = {}
    BY <2>1
  <2>3. \A x : /\ Passed(x) = Nodes /\ Passed(x)' = Nodes'
               /\ Nodes' = Nodes /\ \A n : Source(x, n)' = Source(x, n)
    BY <2>1, SameTree, SameItems DEF Passed, BeforeTree
  <2>4. \A x : Seen(x)' = Seen(x)
    BY <2>3 DEF Seen
  <2>5. EnoughMemory' => EnoughMemory
    BY <1>0, <1>12, MemoryKept
  <2>6. ASSUME NEW x \in Found, InOrderSoFar(x) PROVE InOrderSoFar(x)'
    <3>1. Seen(x) \subseteq Seen(x)' /\ Seen(x)' \subseteq Seen(x)
      BY <2>4
    <3>2. file' = file /\ lost' = lost /\ pushed' = pushed /\ todo = <<>>
      BY <2>1
    <3> QED BY <2>2, <2>6, <3>1, <3>2, AnnouncedInOrder
  <2> QED BY <2>1, <2>5, <2>6 DEF FoundInv
<1>13. CASE Free
  <2>1. pc' = "idle" /\ todo' = <<>> /\ pushed' = [x \in Arrays |-> <<>>]
    BY <1>0, <1>13 DEF Free, WalkInv, BeforeTree
  <2> QED BY <1>1, <2>1 DEF BeforeTree
<1>14. CASE UNCHANGED vars
  <2>1. UNCHANGED <<pc, file, node, todo, lost, pushed, failures, nblocks>>
    BY <1>14 DEF vars, arenaVars, walkVars, resultVars
  <2>2. EnoughMemory' = EnoughMemory /\ Fallback(node)' = Fallback(node)
    BY <2>1, SameItems DEF EnoughMemory
  <2>3. \A x : Yields(x)' = Yields(x) /\ (\A n : ItemOf(x, n)' = ItemOf(x, n)) /\ Seen(x)' = Seen(x)
    BY <2>1, SeenIsKept
  <2>4. \A x : InOrderSoFar(x) => InOrderSoFar(x)'
    BY <2>1, <2>3 DEF InOrderSoFar, OfTheTree, Before
  <2> QED BY <2>1, <2>2, <2>4 DEF FoundInv
<1> QED BY <1>3, <1>4, <1>5, <1>6, <1>7, <1>8, <1>9, <1>10, <1>11, <1>12, <1>13, <1>14 DEF Next

LEMMA FoundInvariant == Spec => []FoundInv
<1>1. Init => FoundInv
  <2> SUFFICES ASSUME Init PROVE FoundInv
    OBVIOUS
  <2>1. pc = "idle" /\ todo = <<>> /\ pushed = [x \in Arrays |-> <<>>]
    BY DEF Init
  <2>2. DOMAIN todo = {} /\ DOMAIN <<>> = {} /\ Found \subseteq Arrays
    BY <2>1 DEF Found
  <2>3. ASSUME NEW x \in Found PROVE InOrderSoFar(x)
    <3>1. Passed(x) = {} /\ DOMAIN pushed[x] = {}
      BY <2>1, <2>2 DEF Passed, BeforeTree
    <3>2. Seen(x) = {}
      BY <3>1 DEF Seen
    <3> QED BY <2>2, <3>1, <3>2 DEF InOrderSoFar
  <2> QED BY <2>1, <2>3 DEF FoundInv
<1> QED BY <1>1, FoundStep, Invariant, PTL DEF Spec

-----------------------------------------------------------------------------
\* When all nodes have been passed, everything that should be found has been.
LEMMA AllIsSeen ==
  ASSUME file \in Files, NEW x, Passed(x) = Nodes
  PROVE  Yields(x) \subseteq Seen(x)
<1> SUFFICES ASSUME NEW n \in Yields(x) PROVE n \in Seen(x)
  OBVIOUS
<1>1. n \in Nodes
  BY DEF Yields
<1>2. CASE x # "type_refs"
  BY <1>1, <1>2 DEF Seen, Source
<1>3. CASE x = "type_refs"
  <2>1. n > 1
    BY <1>3 DEF Yields
  <2>2. /\ n \in Nat /\ n <= Len(file.kind) /\ Len(file.kind) = Len(file.level)
        /\ file.level \in Seq(Nat) /\ Len(file.kind) \in Nat /\ file.level[1] = 0
        /\ \A k \in 2 .. Len(file.level) : file.level[k] \in 1 .. file.level[k - 1] + 1
    BY <1>1, TreeFacts, ExtractionAssumption
  <2>3. \A k \in 1 + 1 .. n : file.level[k] > file.level[1]
    <3> TAKE k \in 1 + 1 .. n
    <3>1. k \in 2 .. Len(file.level) /\ k - 1 \in 1 .. Len(file.level)
      BY <2>2
    <3>2. file.level[k - 1] \in Nat
      BY <2>2, <3>1
    <3>3. file.level[k] \in 1 .. file.level[k - 1] + 1
      BY <2>2, <3>1
    <3> QED BY <2>2, <3>2, <3>3
  <2>4. 1 \in Ancestors(n)
    <3>1. 1 \in 1 .. n - 1
      BY <2>1, <2>2
    <3> QED BY <2>3, <3>1 DEF Ancestors
  <2>5. Ancestors(n) \subseteq Nodes
    BY <1>1, Above
  <2>6. Parent(n) \in Nodes
    BY <2>4, <2>5, LastNode DEF Parent
  <2> QED BY <1>1, <1>3, <2>6 DEF Seen, Source
<1> QED BY <1>2, <1>3

\* As long as there is memory and no scope was dropped, the Go side gets of a
\* file one item of every node that should leave one, no other, with the
\* function that the tree says and, but for the types, in the order of the
\* text, whatever file the thread did before and however the arrays and the
\* arena grew (cbm_extract_unified, cbm_extract_imports, convertResult).
THEOREM ResultToldByTheTree == Spec => []ResultIsOfTheTree
<1>1. IInv /\ FoundInv => ResultIsOfTheTree
  <2> SUFFICES ASSUME IInv, FoundInv, pc = "free", EnoughMemory, lost = {},
                      NEW x \in Arrays \ {"defs"}
               PROVE  /\ \A i \in DOMAIN out[x] : out[x][i] = ItemOf(x, out[x][i].node)
                      /\ \A i, j \in DOMAIN out[x] : i < j =>
                           IF x \in Ordered THEN out[x][i].node < out[x][j].node
                                           ELSE out[x][i].node # out[x][j].node
                      /\ {out[x][i].node : i \in DOMAIN out[x]} = Yields(x)
    BY DEF ResultIsOfTheTree
  <2>1. out = pushed /\ todo = <<>> /\ DOMAIN todo = {} /\ file \in Files
    <3>1. out = pushed /\ todo = <<>> /\ file \in Files
      BY DEF IInv, ArraysInv, WalkInv, ParserInv
    <3> QED BY <3>1
  <2>2. InOrderSoFar(x)
    BY DEF FoundInv, Found
  <2>3. Yields(x) \subseteq Seen(x)
    <3>1. Passed(x) = Nodes
      BY DEF Passed, BeforeTree
    <3> QED BY <2>1, <3>1, AllIsSeen
  <2>4. {out[x][i].node : i \in DOMAIN out[x]} \subseteq Yields(x)
    BY <2>1, <2>2 DEF InOrderSoFar, OfTheTree
  <2>5. Yields(x) \subseteq {out[x][i].node : i \in DOMAIN out[x]}
    BY <2>1, <2>2, <2>3 DEF InOrderSoFar
  <2> QED BY <2>1, <2>2, <2>4, <2>5 DEF InOrderSoFar, OfTheTree, Before
<1> QED BY <1>1, Invariant, FoundInvariant, PTL

=============================================================================
