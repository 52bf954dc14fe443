----------------------------- MODULE Extraction -----------------------------
(***************************************************************************)
(* The extraction of one file after the other on one thread:               *)
(* cbm_extract_file of internal/cbm/cbm.c with the passes it calls, and     *)
(* the Go side of the bridge that copies the result and frees it.          *)
(*                                                                         *)
(* A syntax tree is the sequence of its nodes in the order of the cursor,  *)
(* each with its kind and its level; node 1 is the root, at level 0. The   *)
(* name of a node is the node itself, a qualified name is the sequence of  *)
(* the names after the module's: <<>> is the module, <<f>> a function,     *)
(* <<c, m>> a method. The children of a class stand for those of its body, *)
(* those of a function for those of its parameters too. A grammar says     *)
(* what the kinds of its language are: lang_specs.c has most of these sets, *)
(* helpers.c, extract_imports.c and extract_type_refs.c have their own.    *)
(***************************************************************************)
EXTENDS Arena, FiniteSetsExt, SequencesExt

CONSTANTS Grammar,   \* per language, the kinds of its nodes
          Files,     \* what may be extracted: [lang, kind, level]
          MaxScopes, \* MAX_SCOPES
          InitCap,   \* the first capacity of an array, 32 in GROW_ARRAY
          ItemSize,  \* bytes of an item
          TextSize,  \* bytes of a qualified name
          None

Arrays == {"defs", "imports", "calls", "usages", "throws", "rw",
           "type_refs", "env_accesses", "type_assigns"}

KindSets == {"function", "class", "call", "import", "throw", "assignment",
             "reference", "env", "callee", "clause", "constructed",
             "nameless", "declarator", "arrow", "variable_declarator",
             "enclosing",                             \* func_kinds_for_lang
             "importing", "anywhere", "imported", "alone", "fallback",
             "typing", "type"}

ScopeKinds == {"func", "class", "call", "import"}

ASSUME ExtractionAssumption ==
  /\ MaxScopes \in Nat \ {0} /\ InitCap \in Nat \ {0}
  /\ ItemSize \in Nat \ {0} /\ TextSize \in Nat \ {0}
  /\ None \notin DOMAIN Grammar /\ None \notin Files /\ None \notin ScopeKinds
  /\ \A l \in DOMAIN Grammar : Grammar[l]["function"] \intersect Grammar[l]["class"] = {}
  /\ \A f \in Files :
       /\ f.kind \in Seq(STRING) /\ f.level \in Seq(Nat)
       /\ Len(f.kind) = Len(f.level) /\ Len(f.kind) > 0
       /\ f.level[1] = 0
       /\ \A n \in 2 .. Len(f.level) : f.level[n] \in 1 .. f.level[n - 1] + 1

VARIABLES
  pc,      \* where the thread is
  parser,  \* tl_parser: None, or its language and whether a parse was broken off
  file,    \* the file being extracted, None between two
  tree,    \* what the parser returned: its language, and whether of this file
  node,    \* the node the walk is at
  depth,   \* the walk's own count of the levels it went down
  scopes,  \* WalkState.scopes
  todo,    \* the pushes of the current handler still to come
  arrays,  \* the arrays of the result: capacity, count and address
  mem,     \* the memory of the arena, where something was written
  out,     \* the result in the Go heap
  pushed,  \* per array, what was pushed and not dropped (not kept by the code)
  lost     \* scopes that were not pushed (not kept by the code)

walkVars   == <<node, depth, scopes, lost>>
resultVars == <<arrays, mem, pushed>>
vars == <<arenaVars, pc, parser, file, tree, walkVars, todo, resultVars, out>>

-----------------------------------------------------------------------------
(* The tree and the names in it.                                           *)

Nodes == 1 .. Len(file.kind)

Is(n, kinds) == file.kind[n] \in Grammar[file.lang][kinds]

\* The nodes above n: everything after them and up to n lies deeper.
Ancestors(n) ==
  {m \in 1 .. n - 1 : \A k \in m + 1 .. n : file.level[k] > file.level[m]}

Parent(n) == Max(Ancestors(n))

Children(n) == {m \in Nodes : m > 1 /\ Parent(m) = n}

\* A name that both passes over the tree find: in the node's `name` field or,
\* of an arrow function, in that of the variable_declarator above it.
HasName(n) ==
  /\ ~ Is(n, "nameless") /\ ~ Is(n, "declarator")
  /\ Is(n, "arrow") => n > 1 /\ Is(Parent(n), "variable_declarator")

\* resolve_func_name and resolve_method_name also look into a declarator,
\* or for the first identifier, as the language wants.
Resolves(n) == HasName(n) \/ Is(n, "declarator")

\* The nodes of a set in the order of the cursor.
InOrder(S) ==
  CHOOSE s \in [1 .. Cardinality(S) -> S] : \A i, j \in DOMAIN s : i < j => s[i] < s[j]

Item(to, n, func) == [to |-> to, item |-> [node |-> n, func |-> func]]

-----------------------------------------------------------------------------
(* The definitions and the imports, each a walk of its own.                *)

\* walk_defs does not go below a function or a class.
Reached(n) ==
  \A m \in Ancestors(n) : ~ Is(m, "function") /\ ~ Is(m, "class")

Methods(n) == InOrder({m \in Children(n) : Is(m, "function") /\ Resolves(m)})

\* What walk_defs pushes at a node it reaches: extract_func_def, or
\* extract_class_def with extract_class_methods.
DefinitionsAt(n) ==
  CASE Is(n, "function") ->
         IF Resolves(n) THEN <<Item("defs", n, <<n>>)>> ELSE <<>>
    [] Is(n, "class") /\ ~ Is(n, "function") ->
         IF Resolves(n)
           THEN <<Item("defs", n, <<n>>)>> \o
                [i \in DOMAIN Methods(n) |->
                   Item("defs", Methods(n)[i], <<n, Methods(n)[i]>>)]
           ELSE <<>>
    [] OTHER -> <<>>

\* An import statement that the parser of its language looks at. Most look at
\* the children of the root only, those of JavaScript and Wolfram everywhere.
Statement(n) == Is(n, "importing") /\ (file.level[n] = 1 \/ Is(n, "anywhere"))

\* What is imported: the statement itself, or a name or a specifier in it.
Imported(n) ==
  Is(n, "imported") /\ \E s \in Ancestors(n) \union {n} : Statement(s)

\* A statement that imports no name stands for itself in JavaScript.
Alone(n) ==
  Statement(n) /\ Is(n, "alone") /\ \A m \in Nodes : Imported(m) => n \notin Ancestors(m)

ImportsAt(n) ==
  IF Imported(n) \/ Alone(n) THEN <<Item("imports", n, <<>>)>> ELSE <<>>

\* The parser that most languages share takes the statement's whole text if
\* the file has no import yet, whether or not this statement has given one.
Fallback(n) == Statement(n) /\ Is(n, "fallback")

-----------------------------------------------------------------------------
(* The scopes of the unified walk.                                         *)

\* Mutant: a scope stays for the siblings of its node.
PopDeeper(s, d) ==
  SubSeq(s, 1, Max({0} \union {i \in DOMAIN s : s[i].depth <= d}))

\* pop_expired_scopes: from the top, all that are not above the current depth.
PopExpired(s, d) ==
  SubSeq(s, 1, Max({0} \union {i \in DOMAIN s : s[i].depth < d}))

Kinds(s, k) == {i \in DOMAIN s : s[i].kind = k}

\* recompute_state
EnclosingFunc(s) ==
  IF Kinds(s, "func") = {} THEN <<>> ELSE s[Max(Kinds(s, "func"))].qn

EnclosingClass(s) ==
  IF Kinds(s, "class") = {} THEN <<>> ELSE s[Max(Kinds(s, "class"))].qn

InsideCall(s)   == Kinds(s, "call") # {}
InsideImport(s) == Kinds(s, "import") # {}

\* Mutant: the class is left out of a method's name.
FlatQN(s, n) == <<n>>

\* compute_func_qn: the name of the innermost class around, if there is one,
\* goes before the function's. compute_class_qn: a class's own name alone.
ScopeQN(s, n) ==
  IF Is(n, "function") THEN Append(EnclosingClass(s), n) ELSE <<n>>

\* Which of the two scopes with a name the node opens, if any.
NamedScope(n) ==
  CASE Is(n, "function") /\ HasName(n) -> "func"
    [] Is(n, "class") /\ ~ Is(n, "function") /\ HasName(n) -> "class"
    [] OTHER -> None

Scope(k, q) == [kind |-> k, depth |-> depth, qn |-> q, at |-> node]

\* What the walk pushes at a node, the scope with a name first.
Opened(named) ==
  named
    \o (IF Is(node, "call") THEN <<Scope("call", None)>> ELSE <<>>)
    \o (IF Is(node, "import") THEN <<Scope("import", None)>> ELSE <<>>)

-----------------------------------------------------------------------------
(* The handlers of the unified walk: what each pushes at the current node. *)

\* Mutant: a call among the arguments of another is left out.
OuterCalls(func) ==
  IF Is(node, "call") /\ Is(node, "callee") /\ ~ InsideCall(scopes')
    THEN <<Item("calls", node, func)>> ELSE <<>>

handle_calls(func) ==
  IF Is(node, "call") /\ Is(node, "callee") THEN <<Item("calls", node, func)>> ELSE <<>>

handle_usages(s, func) ==
  IF Is(node, "reference") /\ ~ InsideCall(s) /\ ~ InsideImport(s)
    THEN <<Item("usages", node, func)>> ELSE <<>>

\* A `throws` clause is read at the method's node, before its scope is pushed.
handle_throws(func) ==
  IF Is(node, "throw") \/ Is(node, "clause")
    THEN <<Item("throws", node, func)>> ELSE <<>>

handle_readwrites(func) ==
  IF Is(node, "assignment") THEN <<Item("rw", node, func)>> ELSE <<>>

\* The types at a node, those that are built in left out.
Types(n) == InOrder({m \in Children(n) : Is(m, "type")})

\* The types of a signature go to the function itself, which needs a name of
\* its own; those of a declaration or a cast in a body to the function around.
handle_type_refs(s) ==
  LET refs(func) == [i \in DOMAIN Types(node) |-> Item("type_refs", Types(node)[i], func)]
  IN  CASE Is(node, "function") /\ HasName(node) /\ ~ Is(node, "arrow") ->
             refs(Append(EnclosingClass(s), node))
        [] ~ Is(node, "function") /\ Is(node, "typing") -> refs(EnclosingFunc(s))
        [] OTHER -> <<>>

handle_env_accesses(func) ==
  IF Is(node, "env") THEN <<Item("env_accesses", node, func)>> ELSE <<>>

handle_type_assigns(func) ==
  IF Is(node, "constructed") THEN <<Item("type_assigns", node, func)>> ELSE <<>>

Handled(s) ==
  LET func == EnclosingFunc(s)
  IN  handle_calls(func) \o handle_usages(s, func) \o handle_throws(func)
        \o handle_readwrites(func) \o handle_type_refs(s)
        \o handle_env_accesses(func) \o handle_type_assigns(func)

-----------------------------------------------------------------------------
(* The arrays of the result.                                               *)

EmptyArray == [cap |-> 0, count |-> 0, block |-> 0, off |-> 0]

Cell(a, i) == <<a.block, a.off + i * ItemSize>>

\* What a reader finds in memory: None where nothing was written.
At(c) == IF c \in DOMAIN mem THEN mem[c] ELSE None

Contents(x) == [i \in 1 .. arrays[x].count |-> At(Cell(arrays[x], i - 1))]

\* The memory m after what new holds was stored.
Store(m, new) ==
  [c \in DOMAIN m \union DOMAIN new |-> IF c \in DOMAIN new THEN new[c] ELSE m[c]]

\* items[count++] = item, in an array that has room.
Write(a, m, x, item) ==
  /\ arrays' = [arrays EXCEPT ![x] = [a EXCEPT !.count = @ + 1]]
  /\ mem' = Store(m, [c \in {Cell(a, a.count)} |-> item])
  /\ pushed' = [pushed EXCEPT ![x] = Append(@, item)]

NewCap(a) == IF a.cap = 0 THEN InitCap ELSE 2 * a.cap

\* GROW_ARRAY: the array at its new address, and its items copied there.
Moved(a, p) == [a EXCEPT !.cap = NewCap(a), !.block = p.block, !.off = p.off]

\* Mutant: the items are not copied.
NotCopied(a, p) == mem

Copied(a, p) ==
  LET new == Moved(a, p)
  IN  Store(mem, [c \in {Cell(new, i) : i \in 0 .. a.count - 1} |->
                    At(Cell(a, CHOOSE i \in 0 .. a.count - 1 : c = Cell(new, i)))])

\* One push: cbm_defs_push, cbm_calls_push and the others.
Push ==
  /\ todo # <<>>
  /\ todo' = Tail(todo)
  /\ LET x    == Head(todo).to
         item == Head(todo).item
         a    == arrays[x]
         need == NewCap(a) * ItemSize
     IN  \/ /\ a.count < a.cap
            /\ Write(a, mem, x, item)
            /\ UNCHANGED arenaVars
         \/ /\ a.count >= a.cap
            /\ AllocOK(need)
            /\ Write(Moved(a, Place(need)), Copied(a, Place(need)), x, item)
         \/ /\ a.count >= a.cap
            /\ AllocFails(need)
            /\ UNCHANGED resultVars
  /\ UNCHANGED <<pc, parser, file, tree, walkVars, out>>

-----------------------------------------------------------------------------
(* The steps of the thread.                                                *)

Init ==
  /\ ArenaZero
  /\ pc = "idle" /\ parser = None /\ file = None /\ tree = None
  /\ node = 0 /\ depth = 0 /\ scopes = <<>> /\ lost = {} /\ todo = <<>>
  /\ arrays = [x \in Arrays |-> EmptyArray] /\ mem = <<>>
  /\ pushed = [x \in Arrays |-> <<>>]
  /\ out = None

\* Mutant: the parser is not reset.
BeginWithoutReset(f) ==
  /\ pc = "idle"
  /\ file' = f
  /\ out' = None
  /\ ArenaInit
  /\ f.lang \in DOMAIN Grammar
  /\ parser' = IF parser # None /\ parser.lang = f.lang THEN parser
               ELSE [lang |-> f.lang, broken_off |-> FALSE]
  /\ pc' = "parse"
  /\ UNCHANGED <<tree, walkVars, todo, resultVars>>

\* cbm_extract_file up to the parse: the arena, the parser of the thread, which
\* keeps its language from the file before, and its reset.
Begin(f) ==
  /\ pc = "idle"
  /\ file' = f
  /\ out' = None
  /\ ArenaInit
  /\ \/ /\ f.lang \in DOMAIN Grammar
        /\ parser' = [lang |-> f.lang, broken_off |-> FALSE]
        /\ pc' = "parse"
     \/ \* an unsupported language, or no memory for a parser
        /\ f.lang \in DOMAIN Grammar => parser = None
        /\ pc' = "failed"
        /\ UNCHANGED parser
  /\ UNCHANGED <<tree, walkVars, todo, resultVars>>

\* ts_parser_parse_with_options returns a tree, of what it had left over if a
\* parse was broken off and not reset; the module's definition comes first.
Parse ==
  /\ pc = "parse"
  /\ tree' = [lang |-> parser.lang, stale |-> parser.broken_off]
  /\ pc' = "definitions"
  /\ node' = 1
  /\ todo' = <<Item("defs", 1, <<>>)>>
  /\ UNCHANGED <<arenaVars, parser, file, depth, scopes, lost, resultVars, out>>

\* The deadline passes: the parser keeps what it has.
ParseTimeout ==
  /\ pc = "parse"
  /\ parser' = [parser EXCEPT !.broken_off = TRUE]
  /\ pc' = "failed"
  /\ UNCHANGED <<arenaVars, file, tree, walkVars, todo, resultVars, out>>

\* walk_defs, one node at a time.
WalkDefs ==
  /\ pc = "definitions" /\ todo = <<>>
  /\ todo' = IF Reached(node) THEN DefinitionsAt(node) ELSE <<>>
  /\ IF node < Len(file.kind)
       THEN node' = node + 1 /\ UNCHANGED pc
       ELSE node' = 1 /\ pc' = "imports"
  /\ UNCHANGED <<arenaVars, parser, file, tree, depth, scopes, lost, resultVars, out>>

\* cbm_extract_imports goes on from a node: to the next one or, from the last,
\* to the unified walk.
MoveOn ==
  IF node < Len(file.kind)
    THEN node' = node + 1 /\ pc' = "imports" /\ UNCHANGED depth
    ELSE node' = 1 /\ pc' = "visit" /\ depth' = 0

\* The imports of one node ...
ParseImports ==
  /\ pc = "imports" /\ todo = <<>>
  /\ todo' = ImportsAt(node)
  /\ IF Fallback(node) THEN pc' = "fallback" /\ UNCHANGED <<node, depth>> ELSE MoveOn
  /\ UNCHANGED <<arenaVars, parser, file, tree, scopes, lost, resultVars, out>>

\* ... and, where the statement is a last resort, itself if there are none.
ParseFallback ==
  /\ pc = "fallback" /\ todo = <<>>
  /\ todo' = IF arrays["imports"].count = 0 THEN <<Item("imports", node, <<>>)>> ELSE <<>>
  /\ MoveOn
  /\ UNCHANGED <<arenaVars, parser, file, tree, scopes, lost, resultVars, out>>

\* cbm_extract_unified at one node: first the scopes that the cursor has left
\* go, then the handlers run in their state ...
Visit ==
  /\ pc = "visit" /\ todo = <<>>
  /\ scopes' = PopExpired(scopes, depth)
  /\ todo' = Handled(scopes')
  /\ pc' = "scopes"
  /\ UNCHANGED <<arenaVars, parser, file, tree, node, depth, lost, resultVars, out>>

\* ... and the scopes that the node opens are pushed, those that do not fit
\* dropped, and the cursor moves on: to a child, a sibling, or up and on.
Enter(named) ==
  /\ LET all == scopes \o Opened(named)
     IN  /\ scopes' = SubSeq(all, 1, Min({Len(all), MaxScopes}))
         /\ lost' = lost \union
              {<<node, all[i].kind>> : i \in MaxScopes + 1 .. Len(all)} \union
              (IF named = <<>> /\ NamedScope(node) # None
                 THEN {<<node, NamedScope(node)>>} ELSE {})
  /\ IF node < Len(file.kind)
       THEN /\ node' = node + 1
            /\ depth' = depth + (file.level[node + 1] - file.level[node])
            /\ pc' = "visit"
       ELSE pc' = "convert" /\ UNCHANGED <<node, depth>>
  /\ UNCHANGED <<parser, file, tree, todo, resultVars, out>>

PushScopes ==
  /\ pc = "scopes" /\ todo = <<>>
  /\ \/ /\ NamedScope(node) # None
        /\ AllocOK(TextSize)
        /\ Enter(<<Scope(NamedScope(node), ScopeQN(scopes, node))>>)
     \/ /\ NamedScope(node) # None
        /\ AllocFails(TextSize)
        /\ Enter(<<>>)
     \/ /\ NamedScope(node) = None
        /\ Enter(<<>>)
        /\ UNCHANGED arenaVars

\* convertResult: the Go side copies what it finds ...
Convert ==
  /\ pc = "convert" /\ todo = <<>>
  /\ out' = [x \in Arrays |-> Contents(x)]
  /\ pc' = "free"
  /\ UNCHANGED <<arenaVars, parser, file, tree, walkVars, todo, resultVars>>

\* ... and cbm_free_result, deferred, runs after that, or after an error.
Free ==
  /\ pc \in {"free", "failed"}
  /\ ArenaDestroy
  /\ pc' = "idle" /\ file' = None /\ tree' = None
  /\ node' = 0 /\ depth' = 0 /\ scopes' = <<>> /\ lost' = {}
  /\ arrays' = [x \in Arrays |-> EmptyArray] /\ mem' = <<>>
  /\ pushed' = [x \in Arrays |-> <<>>]
  /\ out' = None
  /\ UNCHANGED <<parser, todo>>

Next ==
  \/ \E f \in Files : Begin(f)
  \/ Parse \/ ParseTimeout
  \/ WalkDefs \/ ParseImports \/ ParseFallback \/ Visit \/ PushScopes \/ Push
  \/ Convert \/ Free

Spec == Init /\ [][Next]_vars
-----------------------------------------------------------------------------
(* What the walks are held against: the tree, read upwards.                *)

\* The functions and the classes around a node whose scope was pushed.
Around(n, kind) == {m \in Ancestors(n) : NamedScope(m) = kind /\ <<m, kind>> \notin lost}

QualifiedName(f) ==
  IF Around(f, "class") = {} THEN <<f>> ELSE <<Max(Around(f, "class")), f>>

Caller(n) ==
  IF Around(n, "func") = {} THEN <<>> ELSE QualifiedName(Max(Around(n, "func")))

\* cbm_enclosing_func_qn of helpers.c, which walks up from the node and which
\* the unified walk took the place of. Its functions are those of a list of
\* its own, which leaves out JavaScript's generators, local functions of C#
\* and all that Fortran, Perl and Julia have.
cbm_find_enclosing_func(n) == {m \in Ancestors(n) : Is(m, "enclosing")}

cbm_enclosing_func_qn(n) ==
  LET f       == Max(cbm_find_enclosing_func(n))
      classes == {m \in Ancestors(f) : Is(m, "class") /\ HasName(m)}
  IN  IF cbm_find_enclosing_func(n) = {} \/ ~ HasName(f) THEN <<>>
      ELSE IF classes = {} THEN <<f>> ELSE <<Max(classes), f>>

\* A node that both lists have or leave out, with a name if it is a function.
Alike(m) ==
  /\ Is(m, "function") <=> Is(m, "enclosing")
  /\ Is(m, "function") => HasName(m)

\* The arrays whose items name the function around them.
Attributed == {"calls", "usages", "throws", "rw", "env_accesses", "type_assigns"}

Items(x) == {pushed[x][i] : i \in DOMAIN pushed[x]}

\* The arrays that are filled in the order of the nodes; the types are found
\* at the node above them, and those within a type after those beside it.
Ordered == Attributed \union {"imports"}

\* The types that are read at a function, for that function ...
InSignature(n) ==
  Is(Parent(n), "function") /\ HasName(Parent(n)) /\ ~ Is(Parent(n), "arrow")

\* ... and those that are read elsewhere, for the function around.
InBody(n) == ~ Is(Parent(n), "function") /\ Is(Parent(n), "typing")

\* The nodes of the tree that have an item in such an array ...
Yields(x) ==
  {n \in Nodes :
     CASE x = "imports" -> \/ Imported(n) \/ Alone(n)
                           \/ /\ Fallback(n)
                              /\ \A m \in 1 .. n - 1 :
                                   ~ Imported(m) /\ ~ Alone(m) /\ ~ Fallback(m)
       [] x = "calls" -> Is(n, "call") /\ Is(n, "callee")
       [] x = "usages" -> /\ Is(n, "reference")
                          /\ \A m \in Ancestors(n) : ~ Is(m, "call") /\ ~ Is(m, "import")
       [] x = "throws" -> Is(n, "throw") \/ Is(n, "clause")
       [] x = "rw" -> Is(n, "assignment")
       [] x = "type_refs" -> n > 1 /\ Is(n, "type") /\ (InSignature(n) \/ InBody(n))
       [] x = "env_accesses" -> Is(n, "env")
       [] OTHER -> Is(n, "constructed")}

\* ... and the item of a node.
ItemOf(x, n) ==
  [node |-> n,
   func |-> CASE x = "imports" -> <<>>
              [] x = "type_refs" -> IF Is(Parent(n), "function")
                                      THEN QualifiedName(Parent(n)) ELSE Caller(Parent(n))
              [] OTHER -> Caller(n)]

\* No allocation has failed in this file.
EnoughMemory == failures = 0 /\ nblocks < MaxBlocks

\* A function that walk_defs does not reach: in a function, in a class that is
\* not the one it is a member of, or in a class without a name.
Hidden(f) ==
  \E m \in Ancestors(f) :
     \/ Is(m, "function")
     \/ Is(m, "class") /\ ~ (m = Parent(f) /\ HasName(m))

-----------------------------------------------------------------------------
(* Properties.                                                             *)

ItemSet == [node : Nat \ {0}, func : Seq(Nat)]

TypeOK ==
  /\ pc \in {"idle", "parse", "failed", "definitions", "imports", "fallback",
             "visit", "scopes", "convert", "free"}
  /\ parser \in {None} \union [lang : DOMAIN Grammar, broken_off : BOOLEAN]
  /\ file = None <=> pc = "idle"
  /\ tree \in {None} \union [lang : DOMAIN Grammar, stale : BOOLEAN]
  /\ node \in Nat /\ depth \in Nat
  /\ Len(scopes) <= MaxScopes
  /\ \A x \in Arrays :
       /\ arrays[x] \in [cap : Nat, count : Nat, block : Nat, off : Nat]
       /\ arrays[x].count <= arrays[x].cap
       /\ pushed[x] \in Seq(ItemSet)

\* The tree that is walked is of the file at hand and in its language, whatever
\* the thread's parser was used for before and however that ended
\* (get_thread_parser, ts_parser_reset in cbm_extract_file).
NoStaleParse ==
  tree # None => tree.lang = file.lang /\ ~ tree.stale

\* The arrays hold the items pushed, in order: growing an array and allocating
\* for others in between loses and overwrites nothing, and the Go side has
\* them all before they are freed (GROW_ARRAY, convertResult).
ItemsSurvive ==
  /\ pc # "idle" => \A x \in Arrays : Contents(x) = pushed[x]
  /\ pc = "free" => out = pushed

\* The cursor's stack of scopes says of every item what the tree says: the
\* nearest function around it that has a name, with the innermost class
\* around that; and no usage is within a call or an import. Where no scope
\* was dropped, and on the way up the function kinds of the two agree and have
\* names, it is what cbm_enclosing_func_qn gives, which compute_func_qn's
\* comment says it mirrors.
AttributedToNearest ==
  \A x \in Attributed : \A it \in Items(x) :
    /\ it.func = Caller(it.node)
    /\ x = "usages" =>
         \A m \in Ancestors(it.node) :
            /\ Is(m, "call") => <<m, "call">> \in lost
            /\ Is(m, "import") => <<m, "import">> \in lost
    /\ (lost = {} /\ \A m \in Ancestors(it.node) : Alike(m)) =>
         it.func = cbm_enclosing_func_qn(it.node)

\* As long as there is memory and no scope was dropped, what the Go side gets
\* of a file is told by its tree alone, whatever the thread did before: of
\* every node that should leave an item exactly one, none of any other, with
\* the function that the tree says, and but for the types in the order of the
\* text (cbm_extract_unified, cbm_extract_imports, convertResult).
ResultIsOfTheTree ==
  (pc = "free" /\ EnoughMemory /\ lost = {}) =>
    \A x \in Arrays \ {"defs"} :
      /\ \A i \in DOMAIN out[x] : out[x][i] = ItemOf(x, out[x][i].node)
      /\ \A i, j \in DOMAIN out[x] : i < j =>
           IF x \in Ordered THEN out[x][i].node < out[x][j].node
                           ELSE out[x][i].node # out[x][j].node
      /\ {out[x][i].node : i \in DOMAIN out[x]} = Yields(x)

\* The pass that names callers and the pass that writes definitions recurse
\* differently and compute names differently, and the Go side drops an edge
\* whose caller has no node: every caller is the module or has a definition of
\* that very name, but for the functions that walk_defs does not reach.
CallersAreDefined ==
  (EnoughMemory /\ lost = {}) =>
    \A x \in Attributed : \A it \in Items(x) :
       \/ it.func = <<>>
       \/ it.func \in {d.func : d \in Items("defs")}
       \/ Hidden(it.func[Len(it.func)])

=============================================================================
