-------------------------- MODULE ExtractionProofs --------------------------
(***************************************************************************)
(* Safety of Extraction, and of the arena it works in, for any trees,      *)
(* grammars, sizes and limits.                                             *)
(*                                                                         *)
(* What would be an induction over the numbers is an argument from a least *)
(* counterexample (LeastNatural).                                          *)
(***************************************************************************)
EXTENDS Extraction, TLAPS, WellFoundedInduction, FiniteSetTheorems

-----------------------------------------------------------------------------
(* The strengthening that makes the invariants inductive.                  *)

\* The blocks of the arena are filled from the first byte on.
ArenaInv ==
  /\ nblocks \in Nat /\ block_size \in Nat /\ used \in Nat /\ failures \in Nat
  /\ sizes \in Seq(Nat) /\ Len(sizes) = nblocks
  /\ regions \in Seq([block : Nat, off : Nat, len : Nat])
  /\ nblocks <= MaxBlocks
  /\ nblocks > 0 => sizes[nblocks] = block_size /\ used <= block_size
  /\ used % Align = 0
  /\ \A i \in DOMAIN regions :
       /\ regions[i].block \in 1 .. nblocks
       /\ regions[i].off % Align = 0
       /\ regions[i].off + regions[i].len <= sizes[regions[i].block]
       /\ regions[i].block = nblocks => regions[i].off + regions[i].len <= used
  /\ \A i, j \in DOMAIN regions : i # j => ~ Overlap(regions[i], regions[j])

\* No block without a failure: what an extraction begins with is one block.
BlockOrFailure == pc # "idle" /\ nblocks = 0 => failures > 0

Phases == {"idle", "parse", "failed", "definitions", "imports", "fallback",
           "visit", "scopes", "convert", "free"}
BeforeTree == {"idle", "parse", "failed"}
BeforeWalk == {"idle", "parse", "failed", "definitions", "imports", "fallback"}

Works == [to : Arrays, item : ItemSet]

\* The parser is fresh when it is used, and what it gave is of this file.
ParserInv ==
  /\ pc \in Phases
  /\ file = None <=> pc = "idle"
  /\ pc # "idle" => file \in Files
  /\ parser \in {None} \union [lang : DOMAIN Grammar, broken_off : BOOLEAN]
  /\ pc = "parse" => /\ file.lang \in DOMAIN Grammar
                     /\ parser = [lang |-> file.lang, broken_off |-> FALSE]
  /\ pc \in BeforeTree => tree = None
  /\ pc \notin BeforeTree => /\ tree = [lang |-> file.lang, stale |-> FALSE]
                             /\ file.lang \in DOMAIN Grammar

\* The cursor is in the tree, and the walk's count is the level of its node.
WalkInv ==
  /\ node \in Nat /\ depth \in Nat
  /\ todo \in Seq(Works)
  /\ pc \in BeforeTree \union {"free"} => todo = <<>>
  /\ pc \in {"definitions", "imports", "fallback", "visit", "scopes"} => node \in Nodes
  /\ pc \in {"visit", "scopes"} => depth = file.level[node]

\* A node and what is above it.
Path(n) == IF n = 0 THEN {} ELSE Ancestors(n) \union {n}

\* What the stack is about: until the scopes are popped, where the cursor was.
Inside == IF pc = "visit" THEN Path(node - 1) ELSE Ancestors(node)

ScopeSet == [kind : ScopeKinds, depth : Nat, qn : Seq(Nat) \union {None}, at : Nat \ {0}]

Opens(n, k) ==
  IF k \in {"func", "class"} THEN NamedScope(n) = k ELSE Is(n, k)

QNOf(n, k) ==
  CASE k = "func" -> QualifiedName(n) [] k = "class" -> <<n>> [] OTHER -> None

\* The stack s holds the scopes of the nodes in S, outermost first, but for
\* those that were dropped.
StackOf(s, S) ==
  /\ \A i \in DOMAIN s : \E m \in S, k \in ScopeKinds :
       /\ s[i] = [kind |-> k, depth |-> file.level[m], qn |-> QNOf(m, k), at |-> m]
       /\ Opens(m, k) /\ <<m, k>> \notin lost
  /\ \A i, j \in DOMAIN s : i < j => s[i].at <= s[j].at
  /\ \A m \in S, k \in ScopeKinds :
       Opens(m, k) => \/ <<m, k>> \in lost
                      \/ \E i \in DOMAIN s : s[i].at = m /\ s[i].kind = k

\* It is the nodes that the cursor is inside of.
StackInv ==
  /\ scopes \in Seq(ScopeSet) /\ Len(scopes) <= MaxScopes
  /\ lost \subseteq Nat \X ScopeKinds
  /\ pc \in BeforeWalk => scopes = <<>> /\ lost = {}
  /\ pc \in {"visit", "scopes"} =>
       /\ \A p \in lost : p[1] < node
       /\ StackOf(scopes, Inside)

\* What the tree says of an item, at the node the walk is at or before it.
Right(x, it) ==
  /\ it.node \in Nodes /\ it.node <= node
  /\ it.func = Caller(it.node)
  /\ x = "usages" =>
       \A m \in Ancestors(it.node) :
          /\ Is(m, "call") => <<m, "call">> \in lost
          /\ Is(m, "import") => <<m, "import">> \in lost

\* It is said of what was pushed and of what is about to be.
ItemsInv ==
  \A x \in Attributed :
    IF pc \in BeforeWalk
      THEN pushed[x] = <<>> /\ \A i \in DOMAIN todo : todo[i].to # x
      ELSE /\ \A i \in DOMAIN pushed[x] : Right(x, pushed[x][i])
           /\ \A i \in DOMAIN todo : todo[i].to = x => Right(x, todo[i].item)

\* The region of an array.
RegionOf(a) == Region(a.block, a.off, a.cap * ItemSize)

\* The arrays lie in regions of their own, and hold what was pushed.
ArraysInv ==
  /\ arrays \in [Arrays -> [cap : Nat, count : Nat, block : Nat, off : Nat]]
  /\ pushed \in [Arrays -> Seq(ItemSet)]
  /\ \A x \in Arrays :
       /\ arrays[x].count <= arrays[x].cap
       /\ arrays[x].cap > 0 => \E i \in DOMAIN regions : regions[i] = RegionOf(arrays[x])
       /\ Len(pushed[x]) = arrays[x].count
       /\ \A i \in 1 .. arrays[x].count : At(Cell(arrays[x], i - 1)) = pushed[x][i]
  /\ \A x, y \in Arrays :
       x # y /\ arrays[x].cap > 0 /\ arrays[y].cap > 0 =>
         ~ Overlap(RegionOf(arrays[x]), RegionOf(arrays[y]))
  /\ pc = "idle" => arrays = [x \in Arrays |-> EmptyArray] /\ pushed = [x \in Arrays |-> <<>>]
  /\ pc = "free" => out = pushed

\* The nodes that walk_defs has been at.
Walked == IF pc = "definitions" THEN 1 .. node - 1
          ELSE IF pc \in BeforeTree THEN {} ELSE Nodes

\* Their definitions are there or on their way.
DefsInv ==
  EnoughMemory => \A m \in Walked : Reached(m) =>
    \A i \in DOMAIN DefinitionsAt(m) :
       \/ DefinitionsAt(m)[i].item \in Items("defs")
       \/ /\ pc \in {"definitions", "imports"}
          /\ \E j \in DOMAIN todo : todo[j] = DefinitionsAt(m)[i]

IInv == /\ ArenaInv /\ BlockOrFailure /\ ParserInv /\ WalkInv /\ StackInv
        /\ ItemsInv /\ ArraysInv /\ DefsInv

-----------------------------------------------------------------------------
(* Numbers, sets and sequences.                                            *)

\* A set of natural numbers has a least one, if any.
LEMMA LeastNatural ==
  ASSUME NEW T, T \subseteq Nat, T # {}
  PROVE  \E x \in T : \A y \in T : x <= y
<1> DEFINE R == {ss \in Nat \X Nat : ss[1] < ss[2]}
<1>1. IsWellFoundedOn({ss \in Nat \X Nat : ss[1] < ss[2]}, Nat)
  BY NatLessThanWellFounded DEF OpToRel
<1>2. IsWellFoundedOn(R, Nat)
  BY <1>1
<1>3. \A x, y \in Nat : <<y, x>> \notin R => x <= y
  OBVIOUS
<1>4. \E x \in T : \A y \in T : ~ (<<y, x>> \in R)
  <2> HIDE DEF R
  <2> QED BY <1>2, WFMin
<1> QED BY <1>3, <1>4

\* A bounded set of natural numbers has a greatest one.
LEMMA GreatestNatural ==
  ASSUME NEW N \in Nat, NEW S, S \subseteq 0 .. N, S # {}
  PROVE  Max(S) \in S /\ \A y \in S : Max(S) >= y
<1> DEFINE T == {N - y : y \in S}
<1>0. \A y \in S : y \in Nat /\ N - y \in Nat
  OBVIOUS
<1>1. T \subseteq Nat /\ T # {}
  BY <1>0
<1>2. PICK x \in T : \A y \in T : x <= y
  BY <1>1, LeastNatural
<1>3. PICK m \in S : x = N - m
  OBVIOUS
<1>4. \A y \in S : N - y \in T
  OBVIOUS
<1>5. \A y \in S : N - m <= N - y
  BY <1>2, <1>3, <1>4
<1>6. \A y \in S : m >= y
  BY <1>0, <1>5
<1> QED BY <1>6 DEF Max

\* The greatest is the one that nothing exceeds.
LEMMA GreatestIs ==
  ASSUME NEW S, S \subseteq Nat, NEW m \in S, \A y \in S : m >= y
  PROVE  Max(S) = m
<1>1. Max(S) \in S /\ \A y \in S : Max(S) >= y
  BY DEF Max
<1>2. Max(S) >= m /\ m >= Max(S) /\ m \in Nat /\ Max(S) \in Nat
  BY <1>1
<1> QED BY <1>2

LEMMA LesserOfTwo ==
  ASSUME NEW a \in Nat, NEW b \in Nat
  PROVE  Min({a, b}) = IF a <= b THEN a ELSE b
BY DEF Min

LEMMA RoundedUp ==
  ASSUME NEW n \in Nat
  PROVE  /\ RoundUp(n) \in Nat /\ RoundUp(n) >= n /\ RoundUp(n) % Align = 0
         /\ \A u \in Nat : u % Align = 0 => (u + RoundUp(n)) % Align = 0
BY DEF RoundUp, Align

\* Products with a size.
LEMMA Products ==
  ASSUME NEW c \in Nat, NEW a \in Nat, NEW b \in Nat
  PROVE  /\ a * c \in Nat
         /\ a < b => a * c + c <= b * c
         /\ c > 0 /\ a * c = b * c => a = b
OBVIOUS

LEMMA AppendFacts ==
  ASSUME NEW S, NEW s \in Seq(S), NEW e \in S
  PROVE  /\ Append(s, e) \in Seq(S)
         /\ Len(Append(s, e)) = Len(s) + 1
         /\ \A i \in 1 .. Len(s) : Append(s, e)[i] = s[i]
         /\ Append(s, e)[Len(s) + 1] = e
         /\ DOMAIN s = 1 .. Len(s) /\ DOMAIN Append(s, e) = 1 .. Len(s) + 1
OBVIOUS

LEMMA AppendToOne ==
  ASSUME NEW c \in Nat, NEW n \in Nat
  PROVE  Append(<<c>>, n) = <<c, n>>
<1>1. /\ <<c>> \in Seq(Nat) /\ Len(<<c>>) = 1 /\ <<c>>[1] = c
      /\ <<c, n>> \in Seq(Nat) /\ Len(<<c, n>>) = 2 /\ <<c, n>>[1] = c /\ <<c, n>>[2] = n
  OBVIOUS
<1>2. /\ Append(<<c>>, n) \in Seq(Nat) /\ Len(Append(<<c>>, n)) = 2
      /\ Append(<<c>>, n)[1] = c /\ Append(<<c>>, n)[2] = n
  BY <1>1
<1>3. \A s, t \in Seq(Nat) :
        Len(s) = 2 /\ Len(t) = 2 /\ s[1] = t[1] /\ s[2] = t[2] => s = t
  OBVIOUS
<1> QED BY <1>1, <1>2, <1>3

LEMMA Elements ==
  ASSUME NEW S, NEW s \in Seq(S)
  PROVE  Len(s) \in Nat /\ DOMAIN s = 1 .. Len(s) /\ \A i \in DOMAIN s : s[i] \in S
OBVIOUS

LEMMA Narrower ==
  ASSUME NEW S, NEW T, NEW s \in Seq(S), \A i \in DOMAIN s : s[i] \in T
  PROVE  s \in Seq(T)
<1>1. Len(s) \in Nat /\ DOMAIN s = 1 .. Len(s) /\ s \in [1 .. Len(s) -> S]
  OBVIOUS
<1>2. PICK n \in Nat : n = Len(s)
  BY <1>1
<1>3. s \in [1 .. n -> T]
  BY <1>1, <1>2
<1> QED BY <1>2, <1>3

-----------------------------------------------------------------------------
(* The arena.                                                              *)

LEMMA ArenaStarts ==
  ASSUME ArenaInit
  PROVE  ArenaInv' /\ (nblocks' = 0 => failures' > 0) /\ regions' = <<>>
<1>1. regions' = <<>> /\ used' = 0 /\ block_size' \in Nat /\ 0 % Align = 0
  BY ArenaAssumption DEF ArenaInit, Align
<1>2. regions' \in Seq([block : Nat, off : Nat, len : Nat]) /\ DOMAIN regions' = {}
  BY <1>1
<1>3. \/ nblocks' = 1 /\ sizes' = <<DefaultBlockSize>> /\ failures' = 0
      \/ nblocks' = 0 /\ sizes' = <<>> /\ failures' = 1
  BY DEF ArenaInit
<1>4. /\ nblocks' \in Nat /\ nblocks' <= MaxBlocks /\ failures' \in Nat
      /\ sizes' \in Seq(Nat) /\ Len(sizes') = nblocks'
      /\ nblocks' > 0 => sizes'[nblocks'] = DefaultBlockSize
      /\ block_size' = DefaultBlockSize /\ DefaultBlockSize >= 0
  <2>1. block_size' = DefaultBlockSize /\ DefaultBlockSize \in Nat /\ MaxBlocks \in Nat \ {0}
    BY ArenaAssumption DEF ArenaInit
  <2>2. CASE nblocks' = 1 /\ sizes' = <<DefaultBlockSize>> /\ failures' = 0
    BY <2>1, <2>2
  <2>3. CASE nblocks' = 0 /\ sizes' = <<>> /\ failures' = 1
    BY <2>1, <2>3
  <2> QED BY <1>3, <2>2, <2>3
<1>5. ArenaInv'
  BY <1>1, <1>2, <1>4 DEF ArenaInv
<1> QED BY <1>1, <1>3, <1>5

LEMMA ArenaEnds ==
  ASSUME ArenaDestroy
  PROVE  ArenaInv' /\ regions' = <<>>
<1>1. /\ nblocks' = 0 /\ block_size' = 0 /\ used' = 0 /\ failures' = 0
      /\ sizes' = <<>> /\ regions' = <<>> /\ 0 % Align = 0
  BY DEF ArenaDestroy, Align
<1>2. /\ regions' \in Seq([block : Nat, off : Nat, len : Nat]) /\ DOMAIN regions' = {}
      /\ sizes' \in Seq(Nat) /\ Len(sizes') = 0
  BY <1>1
<1> QED BY <1>1, <1>2, ArenaAssumption DEF ArenaInv

LEMMA ArenaZeroed == ArenaZero => ArenaInv
<1> SUFFICES ASSUME ArenaZero PROVE ArenaInv
  OBVIOUS
<1>1. /\ nblocks = 0 /\ block_size = 0 /\ used = 0 /\ failures = 0
      /\ sizes = <<>> /\ regions = <<>> /\ 0 % Align = 0
  BY DEF ArenaZero, Align
<1>2. /\ regions \in Seq([block : Nat, off : Nat, len : Nat]) /\ DOMAIN regions = {}
      /\ sizes \in Seq(Nat) /\ Len(sizes) = 0
  BY <1>1
<1> QED BY <1>1, <1>2, ArenaAssumption DEF ArenaInv

LEMMA ArenaKept ==
  ASSUME ArenaInv, UNCHANGED arenaVars
  PROVE  ArenaInv'
BY DEF ArenaInv, arenaVars, Overlap

\* Where an allocation goes is beyond everything handed out.
LEMMA ArenaAllocates ==
  ASSUME ArenaInv, NEW n \in Nat \ {0}, AllocOK(n)
  PROVE  /\ ArenaInv'
         /\ Place(n) \in [block : Nat, off : Nat, len : Nat] /\ Place(n).len = n
         /\ regions' = Append(regions, Place(n))
         /\ \A i \in DOMAIN regions : ~ Overlap(regions[i], Place(n)) /\ ~ Overlap(Place(n), regions[i])
         /\ failures' = failures /\ nblocks' >= nblocks /\ nblocks' > 0
<1> DEFINE p == Place(n)
<1>1. /\ RoundUp(n) \in Nat /\ RoundUp(n) >= n /\ RoundUp(n) % Align = 0
      /\ \A u \in Nat : u % Align = 0 => (u + RoundUp(n)) % Align = 0
  BY RoundedUp
<1>2. /\ nblocks \in Nat /\ block_size \in Nat /\ used \in Nat /\ failures \in Nat
      /\ sizes \in Seq(Nat) /\ Len(sizes) = nblocks
      /\ regions \in Seq([block : Nat, off : Nat, len : Nat])
      /\ nblocks > 0 /\ regions' = Append(regions, p)
  BY DEF ArenaInv, AllocOK
<1>3. p \in [block : Nat, off : Nat, len : Nat] /\ p.len = n
  BY <1>2 DEF Place, Region
<1>4. /\ \A i \in DOMAIN regions : regions'[i] = regions[i]
      /\ regions'[Len(regions) + 1] = p
      /\ DOMAIN regions' = DOMAIN regions \union {Len(regions) + 1}
      /\ Len(regions) + 1 \notin DOMAIN regions
      /\ regions' \in Seq([block : Nat, off : Nat, len : Nat])
  <2>1. /\ DOMAIN regions = 1 .. Len(regions) /\ Len(regions) \in Nat
        /\ DOMAIN regions' = 1 .. Len(regions) + 1
        /\ \A i \in 1 .. Len(regions) : regions'[i] = regions[i]
        /\ regions'[Len(regions) + 1] = p
        /\ regions' \in Seq([block : Nat, off : Nat, len : Nat])
    <3> HIDE DEF p
    <3> QED BY <1>2, <1>3, AppendFacts
  <2> QED BY <2>1
<1>5. \A i \in DOMAIN regions :
        /\ regions[i] \in [block : Nat, off : Nat, len : Nat]
        /\ regions[i].block \in 1 .. nblocks
        /\ regions[i].off % Align = 0
        /\ regions[i].off + regions[i].len <= sizes[regions[i].block]
        /\ regions[i].block = nblocks => regions[i].off + regions[i].len <= used
  <2>1. \A i \in DOMAIN regions : regions[i] \in [block : Nat, off : Nat, len : Nat]
    BY <1>2, Elements
  <2> QED BY <2>1 DEF ArenaInv
<1>6. \A i \in DOMAIN regions : ~ Overlap(regions[i], p) /\ ~ Overlap(p, regions[i])
  <2>1. (p.block = nblocks /\ p.off = used) \/ p.block = nblocks + 1
    BY DEF Place, Region
  <2>2. p.block \in Nat /\ p.off \in Nat /\ p.len \in Nat
    BY <1>3
  <2> HIDE DEF p
  <2> TAKE i \in DOMAIN regions
  <2>3. /\ regions[i].block \in Nat /\ regions[i].off \in Nat /\ regions[i].len \in Nat
        /\ regions[i].block <= nblocks
        /\ regions[i].block = nblocks => regions[i].off + regions[i].len <= used
    BY <1>2, <1>5
  <2>4. regions[i].block = p.block => regions[i].off + regions[i].len <= p.off
    BY <1>2, <2>1, <2>3
  <2> QED BY <2>2, <2>3, <2>4 DEF Overlap
<1>7. /\ nblocks' \in Nat /\ block_size' \in Nat /\ used' \in Nat /\ failures' = failures
      /\ sizes' \in Seq(Nat) /\ Len(sizes') = nblocks'
      /\ nblocks' <= MaxBlocks /\ nblocks' >= nblocks
      /\ sizes'[nblocks'] = block_size' /\ used' <= block_size' /\ used' % Align = 0
      /\ \A b \in 1 .. nblocks : sizes'[b] = sizes[b]
      /\ p.block = nblocks' /\ p.off + p.len <= used' /\ p.off % Align = 0
      /\ nblocks' = nblocks => used' >= used
  <2>1. CASE Fits(n)
    <3>1. /\ nblocks' = nblocks /\ block_size' = block_size /\ used' = used + RoundUp(n)
          /\ sizes' = sizes /\ failures' = failures /\ p = Region(nblocks, used, n)
      BY <2>1 DEF AllocOK, Place
    <3>2. used' <= block_size /\ used' % Align = 0 /\ used % Align = 0
      BY <1>1, <1>2, <2>1, <3>1 DEF Fits, ArenaInv
    <3>3. sizes[nblocks] = block_size /\ nblocks <= MaxBlocks
      BY <1>2 DEF ArenaInv
    <3>4. p.block = nblocks /\ p.off = used /\ p.len = n
      BY <3>1 DEF Region
    <3> HIDE DEF p
    <3> QED BY <1>1, <1>2, <3>1, <3>2, <3>3, <3>4
  <2>2. CASE ~ Fits(n)
    <3>1. NewSize(n) \in Nat /\ NewSize(n) >= RoundUp(n)
      BY <1>1, <1>2 DEF NewSize
    <3>2. /\ nblocks' = nblocks + 1 /\ block_size' = NewSize(n) /\ used' = RoundUp(n)
          /\ sizes' = Append(sizes, NewSize(n)) /\ failures' = failures
          /\ nblocks < MaxBlocks /\ p = Region(nblocks + 1, 0, n)
      BY <2>2 DEF AllocOK, Place
    <3>3. /\ sizes' \in Seq(Nat) /\ Len(sizes') = nblocks + 1
          /\ \A b \in 1 .. nblocks : sizes'[b] = sizes[b]
          /\ sizes'[nblocks + 1] = NewSize(n)
      BY <1>2, <3>1, <3>2, AppendFacts
    <3>4. p.block = nblocks + 1 /\ p.off = 0 /\ p.len = n /\ 0 % Align = 0
      BY <3>2 DEF Region, Align
    <3> HIDE DEF p
    <3> QED BY <1>1, <1>2, <3>1, <3>2, <3>3, <3>4, ArenaAssumption
  <2> QED BY <2>1, <2>2
<1>8. \A i \in DOMAIN regions' :
        /\ regions'[i].block \in 1 .. nblocks'
        /\ regions'[i].off % Align = 0
        /\ regions'[i].off + regions'[i].len <= sizes'[regions'[i].block]
        /\ regions'[i].block = nblocks' => regions'[i].off + regions'[i].len <= used'
  <2> TAKE i \in DOMAIN regions'
  <2>1. CASE i \in DOMAIN regions
    <3>1. /\ regions'[i] = regions[i] /\ regions[i].block \in 1 .. nblocks'
          /\ sizes'[regions[i].block] = sizes[regions[i].block]
          /\ regions[i].block \in Nat /\ regions[i].off \in Nat /\ regions[i].len \in Nat
      <4>1. regions'[i] = regions[i] /\ regions[i].block \in 1 .. nblocks
        BY <1>4, <1>5, <2>1
      <4>2. regions[i] \in [block : Nat, off : Nat, len : Nat]
        BY <1>5, <2>1
      <4>3. nblocks \in Nat /\ nblocks' \in Nat /\ nblocks' >= nblocks
        BY <1>2, <1>7
      <4>4. \A b \in 1 .. nblocks : sizes'[b] = sizes[b]
        BY <1>7
      <4> QED BY <4>1, <4>2, <4>3, <4>4
    <3>2. regions[i].block = nblocks' => nblocks' = nblocks
      BY <1>2, <1>5, <1>7, <2>1
    <3>3. regions[i].block = nblocks' => regions[i].off + regions[i].len <= used'
      BY <1>2, <1>5, <1>7, <2>1, <3>1, <3>2
    <3> QED BY <1>5, <2>1, <3>1, <3>3
  <2>2. CASE i = Len(regions) + 1
    BY <1>2, <1>3, <1>4, <1>7, <2>2
  <2> QED BY <1>4, <2>1, <2>2
<1>9. \A i, j \in DOMAIN regions' : i # j => ~ Overlap(regions'[i], regions'[j])
  BY <1>4, <1>6 DEF ArenaInv
<1>10. failures' \in Nat
  BY <1>2, <1>7
<1>11. ArenaInv'
  BY <1>4, <1>7, <1>8, <1>9, <1>10 DEF ArenaInv, Overlap
<1> QED BY <1>2, <1>3, <1>6, <1>7, <1>11

LEMMA ArenaRefuses ==
  ASSUME ArenaInv, NEW n \in Nat \ {0}, AllocFails(n)
  PROVE  /\ ArenaInv' /\ regions' = regions /\ nblocks' = nblocks
         /\ failures' >= failures
         /\ nblocks = 0 \/ nblocks >= MaxBlocks \/ failures' > 0
BY DEF AllocFails, ArenaInv, Overlap

-----------------------------------------------------------------------------
(* The tree.                                                               *)

LEMMA TreeFacts ==
  ASSUME file \in Files
  PROVE  /\ Len(file.kind) \in Nat \ {0} /\ Nodes = 1 .. Len(file.kind)
         /\ DOMAIN file.level = Nodes /\ \A n \in Nodes : file.level[n] \in Nat
         /\ 1 \in Nodes /\ file.level[1] = 0
         /\ \A n \in Nodes : n \in Nat /\ n > 0
<1>1. /\ file.kind \in Seq(STRING) /\ file.level \in Seq(Nat)
      /\ Len(file.kind) = Len(file.level) /\ Len(file.kind) > 0 /\ file.level[1] = 0
  BY ExtractionAssumption
<1>2. /\ Len(file.kind) \in Nat /\ DOMAIN file.level = 1 .. Len(file.level)
      /\ \A n \in DOMAIN file.level : file.level[n] \in Nat
  BY <1>1, Elements
<1> QED BY <1>1, <1>2 DEF Nodes

LEMMA Above ==
  ASSUME file \in Files, NEW n \in Nodes
  PROVE  /\ Ancestors(n) \subseteq 1 .. n - 1 /\ Ancestors(n) \subseteq Nodes
         /\ \A m \in Ancestors(n) : m \in Nat /\ m < n /\ m > 0 /\ file.level[m] < file.level[n]
         /\ Path(n) = Ancestors(n) \union {n} /\ Path(n) \subseteq Nodes /\ n \in Nat
<1>1. n \in Nat /\ n > 0 /\ n \in 1 .. Len(file.kind) /\ Len(file.kind) \in Nat
  BY TreeFacts
<1>2. Ancestors(n) \subseteq 1 .. n - 1
  BY DEF Ancestors
<1>3. \A m \in Ancestors(n) : m \in Nat /\ m < n /\ m > 0 /\ m \in Nodes
  BY <1>1, <1>2, TreeFacts
<1>4. \A m \in Ancestors(n) : file.level[m] < file.level[n]
  <2> TAKE m \in Ancestors(n)
  <2>1. n \in m + 1 .. n
    BY <1>1, <1>3
  <2>2. file.level[n] > file.level[m] /\ file.level[n] \in Nat /\ file.level[m] \in Nat
    BY <1>3, <2>1, TreeFacts DEF Ancestors
  <2> QED BY <2>2
<1> QED BY <1>1, <1>2, <1>3, <1>4 DEF Path

LEMMA RootHasNoneAbove ==
  ASSUME file \in Files
  PROVE  Ancestors(1) = {}
BY DEF Ancestors

\* What is above the next node is what the cursor was inside of, as far as it
\* does not come up again.
LEMMA NextNode ==
  ASSUME file \in Files, NEW n \in Nodes
  PROVE  Ancestors(n) = {m \in Path(n - 1) : file.level[m] < file.level[n]}
<1>1. n \in Nat /\ n > 0 /\ n \in 1 .. Len(file.kind) /\ Len(file.kind) \in Nat
  BY TreeFacts
<1>2. CASE n = 1
  BY <1>2, RootHasNoneAbove DEF Path
<1>3. CASE n > 1
  <2>1. n - 1 \in Nodes /\ n - 1 \in Nat /\ n - 1 # 0
    BY <1>1, <1>3, TreeFacts
  <2>2. Path(n - 1) = Ancestors(n - 1) \union {n - 1} /\ Path(n - 1) \subseteq 1 .. n - 1
    BY <2>1, <1>1, Above
  <2>3. ASSUME NEW m \in Ancestors(n)
        PROVE  m \in Path(n - 1) /\ file.level[m] < file.level[n]
    <3>1. m \in 1 .. n - 1 /\ \A k \in m + 1 .. n : file.level[k] > file.level[m]
      BY DEF Ancestors
    <3>2. m # n - 1 => m \in 1 .. (n - 1) - 1
      BY <1>1, <3>1
    <3>3. \A k \in m + 1 .. n - 1 : k \in m + 1 .. n
      BY <1>1, <3>1
    <3>4. m # n - 1 => m \in Ancestors(n - 1)
      BY <3>1, <3>2, <3>3 DEF Ancestors
    <3> QED BY <2>2, <3>4, Above
  <2>4. ASSUME NEW m \in Path(n - 1), file.level[m] < file.level[n]
        PROVE  m \in Ancestors(n)
    <3>1. m \in 1 .. n - 1 /\ m \in Nat
      BY <1>1, <2>2
    <3>2. \A k \in m + 1 .. n - 1 : file.level[k] > file.level[m]
      <4>1. CASE m = n - 1
        BY <1>1, <4>1
      <4>2. CASE m # n - 1
        BY <2>2, <4>2 DEF Ancestors
      <4> QED BY <4>1, <4>2
    <3>3. \A k \in m + 1 .. n : k = n \/ k \in m + 1 .. n - 1
      BY <1>1, <3>1
    <3>4. file.level[n] \in Nat /\ file.level[m] \in Nat /\ file.level[n] > file.level[m]
      <4>1. m \in Nodes
        BY <2>1, Above
      <4> QED BY <2>4, <4>1, TreeFacts
    <3>5. \A k \in m + 1 .. n : file.level[k] > file.level[m]
      BY <3>2, <3>3, <3>4
    <3> QED BY <3>1, <3>5 DEF Ancestors
  <2> QED BY <2>3, <2>4
<1> QED BY <1>1, <1>2, <1>3

\* What the cursor is inside of is a chain.
LEMMA Chain ==
  ASSUME file \in Files, NEW n \in Nodes, NEW m \in Path(n), NEW k \in Path(n), k < m
  PROVE  k \in Ancestors(m) /\ file.level[k] < file.level[m]
<1>1. /\ n \in Nat /\ k \in Nodes /\ m \in Nodes /\ k \in Nat /\ m \in Nat /\ k > 0 /\ m <= n
      /\ k \in Ancestors(n)
  BY Above, TreeFacts
<1>2. \A j \in k + 1 .. m : j \in k + 1 .. n
  BY <1>1
<1>3. \A j \in k + 1 .. m : file.level[j] > file.level[k]
  BY <1>1, <1>2 DEF Ancestors
<1>4. k \in 1 .. m - 1
  BY <1>1
<1>5. k \in Ancestors(m)
  BY <1>3, <1>4 DEF Ancestors
<1> QED BY <1>1, <1>5, Above

LEMMA AboveIsTransitive ==
  ASSUME file \in Files, NEW n \in Nodes, NEW m \in Ancestors(n), NEW k \in Ancestors(m)
  PROVE  k \in Ancestors(n)
<1>1. /\ n \in Nat /\ m \in Nodes /\ m < n /\ m \in Nat /\ k \in Nat /\ k > 0 /\ k < m
      /\ k \in Nodes
  BY Above
<1>2. ASSUME NEW j \in k + 1 .. n PROVE file.level[j] > file.level[k]
  <2>1. CASE j <= m
    <3>1. j \in k + 1 .. m
      BY <1>1, <2>1
    <3> QED BY <3>1 DEF Ancestors
  <2>2. CASE j > m
    <3>1. j \in m + 1 .. n /\ j \in Nodes
      BY <1>1, <2>2, TreeFacts
    <3>2. file.level[j] > file.level[m] /\ file.level[k] < file.level[m]
      BY <1>1, <3>1, Above DEF Ancestors
    <3>3. file.level[j] \in Nat /\ file.level[k] \in Nat /\ file.level[m] \in Nat
      BY <1>1, <3>1, TreeFacts
    <3> QED BY <3>2, <3>3
  <2> QED BY <1>1, <2>1, <2>2
<1>3. k \in 1 .. n - 1
  BY <1>1
<1> QED BY <1>2, <1>3 DEF Ancestors

\* The greatest of a set of nodes is one of them.
LEMMA LastNode ==
  ASSUME file \in Files, NEW S, S \subseteq Nodes, S # {}
  PROVE  Max(S) \in S /\ Max(S) \in Nodes /\ Max(S) \in Nat /\ \A m \in S : m <= Max(S)
<1>1. Len(file.kind) \in Nat /\ S \subseteq 0 .. Len(file.kind)
  BY TreeFacts
<1>2. Max(S) \in S /\ \A m \in S : Max(S) >= m
  BY <1>1, GreatestNatural
<1> QED BY <1>2, TreeFacts

LEMMA NamesAreNumbers ==
  ASSUME file \in Files, NEW n \in Nodes
  PROVE  /\ \A k : Around(n, k) \subseteq Nodes
         /\ QualifiedName(n) \in Seq(Nat) /\ Caller(n) \in Seq(Nat)
<1>1. \A m \in Nodes : \A k : Around(m, k) \subseteq Nodes
  BY Above DEF Around
<1>2. \A m \in Nodes : QualifiedName(m) \in Seq(Nat)
  <2> TAKE m \in Nodes
  <2>1. m \in Nat
    BY TreeFacts
  <2>2. Around(m, "class") # {} => Max(Around(m, "class")) \in Nat
    BY <1>1, LastNode
  <2> QED BY <2>1, <2>2 DEF QualifiedName
<1>3. Around(n, "func") # {} => Max(Around(n, "func")) \in Nodes
  BY <1>1, LastNode
<1>4. Caller(n) \in Seq(Nat)
  BY <1>2, <1>3 DEF Caller
<1> QED BY <1>1, <1>2, <1>4

-----------------------------------------------------------------------------
(* The stack of scopes.                                                    *)

LEMMA StackEntries ==
  ASSUME NEW s, NEW S, StackOf(s, S)
  PROVE  \A i \in DOMAIN s :
           /\ s[i].at \in S /\ s[i].kind \in ScopeKinds
           /\ Opens(s[i].at, s[i].kind)
           /\ <<s[i].at, s[i].kind>> \notin lost
           /\ s[i].depth = file.level[s[i].at]
           /\ s[i].qn = QNOf(s[i].at, s[i].kind)
<1> TAKE i \in DOMAIN s
<1>1. PICK m \in S, k \in ScopeKinds :
        /\ s[i] = [kind |-> k, depth |-> file.level[m], qn |-> QNOf(m, k), at |-> m]
        /\ Opens(m, k) /\ <<m, k>> \notin lost
  BY DEF StackOf
<1>2. /\ s[i].at = m /\ s[i].kind = k
      /\ s[i].depth = file.level[m] /\ s[i].qn = QNOf(m, k)
  BY <1>1
<1> QED BY <1>1, <1>2

LEMMA PopExpiredCuts ==
  ASSUME NEW s \in Seq(ScopeSet), NEW d \in Nat,
         \A i, j \in DOMAIN s : i < j => s[i].depth <= s[j].depth
  PROVE  LET t == PopExpired(s, d) IN
         /\ t \in Seq(ScopeSet) /\ Len(t) <= Len(s) /\ DOMAIN t \subseteq DOMAIN s
         /\ \A i \in DOMAIN t : t[i] = s[i] /\ s[i].depth < d
         /\ \A i \in DOMAIN s : s[i].depth < d => i \in DOMAIN t
<1> DEFINE S == {i \in DOMAIN s : s[i].depth < d}
           k == Max({0} \union S)
<1>1. Len(s) \in Nat /\ DOMAIN s = 1 .. Len(s) /\ \A i \in DOMAIN s : s[i].depth \in Nat
  <2>1. Len(s) \in Nat /\ DOMAIN s = 1 .. Len(s) /\ \A i \in DOMAIN s : s[i] \in ScopeSet
    BY Elements
  <2> QED BY <2>1 DEF ScopeSet
<1>2. {0} \union S \subseteq 0 .. Len(s)
  BY <1>1
<1>3. k \in {0} \union S /\ \A i \in {0} \union S : k >= i
  <2> HIDE DEF S
  <2> QED BY <1>1, <1>2, GreatestNatural
<1>4. k \in 0 .. Len(s)
  BY <1>2, <1>3
<1>5. \A i \in S : i <= k
  BY <1>1, <1>3
<1>6. \A i \in 1 .. k : s[i].depth < d
  <2> TAKE i \in 1 .. k
  <2>1. k \in S /\ i \in DOMAIN s /\ k \in DOMAIN s /\ i <= k /\ i \in Nat /\ k \in Nat
    BY <1>1, <1>3, <1>4
  <2>2. s[k].depth < d /\ s[i].depth <= s[k].depth
    <3>1. CASE i = k
      BY <1>1, <2>1, <3>1
    <3>2. CASE i < k
      BY <1>1, <2>1, <3>2
    <3> QED BY <2>1, <3>1, <3>2
  <2> QED BY <1>1, <2>1, <2>2
<1>7. PopExpired(s, d) = SubSeq(s, 1, k)
  BY DEF PopExpired
<1>8. /\ SubSeq(s, 1, k) \in Seq(ScopeSet) /\ Len(SubSeq(s, 1, k)) = k
      /\ DOMAIN SubSeq(s, 1, k) = 1 .. k
      /\ \A i \in 1 .. k : SubSeq(s, 1, k)[i] = s[i]
  <2> HIDE DEF k
  <2> QED BY <1>1, <1>4
<1> HIDE DEF k
<1> QED BY <1>1, <1>4, <1>5, <1>6, <1>7, <1>8

\* Along the stack the depths grow with the nodes.
LEMMA DepthsGrow ==
  ASSUME file \in Files, NEW n \in Nodes, NEW s \in Seq(ScopeSet), StackOf(s, Path(n))
  PROVE  \A i, j \in DOMAIN s : i < j => s[i].depth <= s[j].depth
<1> TAKE i, j \in DOMAIN s
<1> HAVE i < j
<1>0. \A a \in DOMAIN s : s[a].at \in Path(n) /\ s[a].depth = file.level[s[a].at]
  BY StackEntries
<1>1. /\ s[i].at \in Path(n) /\ s[j].at \in Path(n) /\ s[i].at <= s[j].at
      /\ s[i].depth = file.level[s[i].at] /\ s[j].depth = file.level[s[j].at]
  BY <1>0 DEF StackOf
<1>2. s[i].at \in Nodes /\ s[j].at \in Nodes
  BY <1>1, Above
<1>3. s[i].at \in Nat /\ s[j].at \in Nat /\ s[i].depth \in Nat /\ s[j].depth \in Nat
  BY <1>1, <1>2, TreeFacts
<1>4. CASE s[i].at = s[j].at
  BY <1>1, <1>3, <1>4
<1>5. CASE s[i].at < s[j].at
  BY <1>1, <1>3, <1>5, Chain
<1> QED BY <1>1, <1>3, <1>4, <1>5

\* Popping the scopes that the cursor has left leaves those of the nodes above.
LEMMA Popped ==
  ASSUME file \in Files, NEW n \in Nodes, NEW s \in Seq(ScopeSet), StackOf(s, Path(n - 1))
  PROVE  /\ PopExpired(s, file.level[n]) \in Seq(ScopeSet)
         /\ Len(PopExpired(s, file.level[n])) <= Len(s)
         /\ StackOf(PopExpired(s, file.level[n]), Ancestors(n))
<1> DEFINE t == PopExpired(s, file.level[n])
<1>1. n \in Nat /\ n > 0 /\ file.level[n] \in Nat /\ (n # 1 => n - 1 \in Nodes /\ n - 1 # 0)
  BY TreeFacts
<1>2. \A i, j \in DOMAIN s : i < j => s[i].depth <= s[j].depth
  <2>1. CASE n = 1
    BY <2>1 DEF StackOf, Path
  <2>2. CASE n # 1
    BY <1>1, <2>2, DepthsGrow
  <2> QED BY <2>1, <2>2
<1>3. /\ t \in Seq(ScopeSet) /\ Len(t) <= Len(s) /\ DOMAIN t \subseteq DOMAIN s
      /\ \A i \in DOMAIN t : t[i] = s[i] /\ s[i].depth < file.level[n]
      /\ \A i \in DOMAIN s : s[i].depth < file.level[n] => i \in DOMAIN t
  BY <1>1, <1>2, PopExpiredCuts
<1>4. \A m : m \in Ancestors(n) <=> m \in Path(n - 1) /\ file.level[m] < file.level[n]
  BY NextNode
<1> HIDE DEF t
<1>5. \A i \in DOMAIN t : \E m \in Ancestors(n), k \in ScopeKinds :
       /\ t[i] = [kind |-> k, depth |-> file.level[m], qn |-> QNOf(m, k), at |-> m]
       /\ Opens(m, k) /\ <<m, k>> \notin lost
  <2> TAKE i \in DOMAIN t
  <2>1. i \in DOMAIN s /\ t[i] = s[i] /\ s[i].depth < file.level[n]
    BY <1>3
  <2>2. PICK m \in Path(n - 1), k \in ScopeKinds :
          /\ s[i] = [kind |-> k, depth |-> file.level[m], qn |-> QNOf(m, k), at |-> m]
          /\ Opens(m, k) /\ <<m, k>> \notin lost
    BY <2>1 DEF StackOf
  <2>3. m \in Ancestors(n)
    BY <1>4, <2>1, <2>2
  <2> QED BY <2>1, <2>2, <2>3
<1>6. \A i, j \in DOMAIN t : i < j => t[i].at <= t[j].at
  BY <1>3 DEF StackOf
<1>7. ASSUME NEW m \in Ancestors(n), NEW k \in ScopeKinds, Opens(m, k), <<m, k>> \notin lost
      PROVE  \E i \in DOMAIN t : t[i].at = m /\ t[i].kind = k
  <2>1. PICK i \in DOMAIN s : s[i].at = m /\ s[i].kind = k
    BY <1>4, <1>7 DEF StackOf
  <2>2. s[i].depth < file.level[n]
    <3>1. \A a \in DOMAIN s : s[a].depth = file.level[s[a].at]
      BY StackEntries
    <3> QED BY <1>4, <2>1, <3>1
  <2> QED BY <1>3, <2>1, <2>2
<1>8. StackOf(t, Ancestors(n))
  BY <1>5, <1>6, <1>7 DEF StackOf
<1> QED BY <1>3, <1>8 DEF t

\* The scopes of a kind are those of the nodes above that open one, the last
\* being the innermost.
LEMMA KindsOf ==
  ASSUME file \in Files, NEW n \in Nodes, NEW s \in Seq(ScopeSet), StackOf(s, Ancestors(n)),
         NEW k \in ScopeKinds
  PROVE  LET open == {m \in Ancestors(n) : Opens(m, k) /\ <<m, k>> \notin lost} IN
         /\ Kinds(s, k) = {} <=> open = {}
         /\ Kinds(s, k) # {} => /\ Max(Kinds(s, k)) \in DOMAIN s
                                /\ s[Max(Kinds(s, k))].kind = k
                                /\ s[Max(Kinds(s, k))].at = Max(open)
<1> DEFINE open == {m \in Ancestors(n) : Opens(m, k) /\ <<m, k>> \notin lost}
<1>1. Len(s) \in Nat /\ DOMAIN s = 1 .. Len(s) /\ open \subseteq Nodes /\ open \subseteq Nat
  BY Elements, Above
<1>2. \A i \in Kinds(s, k) : i \in DOMAIN s /\ s[i].kind = k /\ s[i].at \in open
  BY StackEntries DEF Kinds
<1>3. \A m \in open : \E i \in Kinds(s, k) : s[i].at = m
  BY DEF Kinds, StackOf
<1> HIDE DEF open
<1>4. Kinds(s, k) = {} <=> open = {}
  BY <1>2, <1>3
<1>5. ASSUME Kinds(s, k) # {}
      PROVE  /\ Max(Kinds(s, k)) \in DOMAIN s
             /\ s[Max(Kinds(s, k))].kind = k
             /\ s[Max(Kinds(s, k))].at = Max(open)
  <2> DEFINE i == Max(Kinds(s, k))
  <2>1. Kinds(s, k) \subseteq 0 .. Len(s)
    BY <1>1, <1>2
  <2>2. i \in Kinds(s, k) /\ \A j \in Kinds(s, k) : i >= j
    BY <1>1, <1>5, <2>1, GreatestNatural
  <2> HIDE DEF i
  <2>3. s[i].at \in open
    BY <1>2, <2>2
  <2>4. ASSUME NEW m \in open PROVE s[i].at >= m
    <3>1. PICK j \in Kinds(s, k) : s[j].at = m
      BY <1>3
    <3>2. i \in Nat /\ j \in Nat /\ j <= i /\ i \in DOMAIN s /\ j \in DOMAIN s
      BY <1>1, <1>2, <2>2, <3>1
    <3>3. s[i].at \in Nat /\ s[j].at \in Nat
      BY <1>1, <2>3, <3>1
    <3>4. CASE j = i
      BY <3>1, <3>3, <3>4
    <3>5. CASE j < i
      BY <3>1, <3>2, <3>3, <3>5 DEF StackOf
    <3> QED BY <3>2, <3>4, <3>5
  <2>5. Max(open) = s[i].at
    BY <1>1, <2>3, <2>4, GreatestIs
  <2> QED BY <1>2, <2>2, <2>5 DEF i
<1> QED BY <1>4, <1>5 DEF open

\* What the walk derives from its stack is what the tree says.
LEMMA StateOfTheWalk ==
  ASSUME file \in Files, NEW n \in Nodes, NEW s \in Seq(ScopeSet), StackOf(s, Ancestors(n))
  PROVE  /\ EnclosingFunc(s) = Caller(n)
         /\ EnclosingClass(s) = IF Around(n, "class") = {} THEN <<>>
                                ELSE <<Max(Around(n, "class"))>>
         /\ ~ InsideCall(s) => \A m \in Ancestors(n) : Is(m, "call") => <<m, "call">> \in lost
         /\ ~ InsideImport(s) =>
              \A m \in Ancestors(n) : Is(m, "import") => <<m, "import">> \in lost
<1>1. ASSUME NEW k \in {"func", "class"}
      PROVE  Around(n, k) = {m \in Ancestors(n) : Opens(m, k) /\ <<m, k>> \notin lost}
  BY <1>1 DEF Around, Opens
<1>2. EnclosingFunc(s) = Caller(n)
  <2>1. /\ Kinds(s, "func") = {} <=> Around(n, "func") = {}
        /\ Kinds(s, "func") # {} => /\ Max(Kinds(s, "func")) \in DOMAIN s
                                    /\ s[Max(Kinds(s, "func"))].kind = "func"
                                    /\ s[Max(Kinds(s, "func"))].at = Max(Around(n, "func"))
    BY <1>1, KindsOf DEF ScopeKinds
  <2>2. CASE Kinds(s, "func") = {}
    BY <2>1, <2>2 DEF EnclosingFunc, Caller
  <2>3. CASE Kinds(s, "func") # {}
    <3>1. s[Max(Kinds(s, "func"))].qn = QualifiedName(Max(Around(n, "func")))
      <4>1. \A i \in DOMAIN s : s[i].qn = QNOf(s[i].at, s[i].kind)
        BY StackEntries
      <4>2. \A m : QNOf(m, "func") = QualifiedName(m)
        BY DEF QNOf
      <4> QED BY <2>1, <2>3, <4>1, <4>2
    <3> QED BY <2>1, <2>3, <3>1 DEF EnclosingFunc, Caller
  <2> QED BY <2>2, <2>3
<1>3. EnclosingClass(s) = IF Around(n, "class") = {} THEN <<>>
                          ELSE <<Max(Around(n, "class"))>>
  <2>1. /\ Kinds(s, "class") = {} <=> Around(n, "class") = {}
        /\ Kinds(s, "class") # {} => /\ Max(Kinds(s, "class")) \in DOMAIN s
                                     /\ s[Max(Kinds(s, "class"))].kind = "class"
                                     /\ s[Max(Kinds(s, "class"))].at = Max(Around(n, "class"))
    BY <1>1, KindsOf DEF ScopeKinds
  <2>2. CASE Kinds(s, "class") = {}
    BY <2>1, <2>2 DEF EnclosingClass
  <2>3. CASE Kinds(s, "class") # {}
    <3>1. s[Max(Kinds(s, "class"))].qn = <<Max(Around(n, "class"))>>
      <4>1. \A i \in DOMAIN s : s[i].qn = QNOf(s[i].at, s[i].kind)
        BY StackEntries
      <4>2. \A m : QNOf(m, "class") = <<m>>
        BY DEF QNOf
      <4> QED BY <2>1, <2>3, <4>1, <4>2
    <3> QED BY <2>1, <2>3, <3>1 DEF EnclosingClass
  <2> QED BY <2>2, <2>3
<1>4. ASSUME NEW k \in {"call", "import"}, Kinds(s, k) = {}, NEW m \in Ancestors(n), Is(m, k)
      PROVE  <<m, k>> \in lost
  <2>1. k \in ScopeKinds /\ Opens(m, k)
    BY <1>4 DEF ScopeKinds, Opens
  <2> QED BY <1>4, <2>1 DEF Kinds, StackOf
<1> QED BY <1>2, <1>3, <1>4 DEF InsideCall, InsideImport

-----------------------------------------------------------------------------
(* Entering a node.                                                        *)

LEMMA SameTree ==
  ASSUME file' = file
  PROVE  /\ Nodes' = Nodes
         /\ \A n : Ancestors(n)' = Ancestors(n) /\ Path(n)' = Path(n)
         /\ \A n : NamedScope(n)' = NamedScope(n)
         /\ \A n, k : Opens(n, k)' = Opens(n, k) /\ Is(n, k)' = Is(n, k)
<1>1. Nodes' = Nodes
  BY DEF Nodes
<1>2. \A n : Ancestors(n)' = Ancestors(n)
  BY DEF Ancestors
<1>3. \A n : Path(n)' = Path(n)
  BY <1>2 DEF Path
<1>4. \A n, k : Is(n, k)' = Is(n, k)
  BY DEF Is
<1>5. \A n : Parent(n)' = Parent(n)
  BY <1>2 DEF Parent
<1>6. \A n : HasName(n)' = HasName(n)
  BY <1>4, <1>5 DEF HasName
<1>7. \A n : NamedScope(n)' = NamedScope(n)
  BY <1>4, <1>6 DEF NamedScope
<1>8. \A n, k : Opens(n, k)' = Opens(n, k)
  BY <1>4, <1>7 DEF Opens
<1> QED BY <1>1, <1>2, <1>3, <1>4, <1>7, <1>8

\* Scopes that are dropped at a node change nothing for the nodes before it.
LEMMA DroppedLater ==
  ASSUME file \in Files, file' = file, NEW n \in Nodes,
         lost \subseteq lost', \A p \in lost' : p \in lost \/ p[1] = n
  PROVE  \A m \in Nodes : m <= n =>
           /\ \A k : Around(m, k)' = Around(m, k)
           /\ QualifiedName(m)' = QualifiedName(m) /\ Caller(m)' = Caller(m)
<1>1. ASSUME NEW m \in Nodes, m <= n, NEW k PROVE Around(m, k)' = Around(m, k)
  <2>1. \A a \in Ancestors(m) : a \in Nat /\ a < m
    BY Above
  <2>2. m \in Nat /\ n \in Nat
    BY TreeFacts
  <2>3. \A a \in Ancestors(m) : <<a, k>> \in lost' <=> <<a, k>> \in lost
    <3> TAKE a \in Ancestors(m)
    <3>1. a # n
      BY <1>1, <2>1, <2>2
    <3>2. <<a, k>>[1] # n
      BY <3>1
    <3> QED BY <3>2
  <2> QED BY <2>3, SameTree DEF Around
<1>2. \A m \in Nodes : m <= n => QualifiedName(m)' = QualifiedName(m)
  BY <1>1 DEF QualifiedName
<1>3. ASSUME NEW m \in Nodes, m <= n PROVE Caller(m)' = Caller(m)
  <2>1. Around(m, "func")' = Around(m, "func")
    BY <1>1, <1>3
  <2>2. CASE Around(m, "func") = {}
    BY <2>1, <2>2 DEF Caller
  <2>3. CASE Around(m, "func") # {}
    <3>1. Around(m, "func") \subseteq Ancestors(m) /\ Around(m, "func") \subseteq Nodes
      BY Above DEF Around
    <3>2. PICK f \in Nodes : f = Max(Around(m, "func")) /\ f \in Ancestors(m)
      BY <2>3, <3>1, LastNode
    <3>3. f <= n
      BY <1>3, <3>2, Above, TreeFacts
    <3>4. Max(Around(m, "func"))' = f
      BY <2>1, <3>2
    <3>5. QualifiedName(f)' = QualifiedName(f)
      BY <1>2, <3>3
    <3> QED BY <2>1, <2>3, <3>2, <3>4, <3>5 DEF Caller
  <2> QED BY <2>2, <2>3
<1> QED BY <1>1, <1>2, <1>3

\* The scopes t are those of the current node, one of each kind in K.
ScopesOfNode(t, K) ==
  /\ t \in Seq(ScopeSet)
  /\ \A i \in DOMAIN t : /\ t[i].at = node /\ t[i].depth = depth /\ t[i].kind \in K
                         /\ t[i].qn = QNOf(node, t[i].kind)
  /\ \A i, j \in DOMAIN t : t[i].kind = t[j].kind => i = j
  /\ \A k \in K : \E i \in DOMAIN t : t[i].kind = k

LEMMA ConcatFacts ==
  ASSUME NEW S, NEW s \in Seq(S), NEW t \in Seq(S)
  PROVE  /\ s \o t \in Seq(S) /\ Len(s \o t) = Len(s) + Len(t)
         /\ DOMAIN (s \o t) = 1 .. Len(s) + Len(t)
         /\ \A i \in 1 .. Len(s) : (s \o t)[i] = s[i]
         /\ \A i \in 1 .. Len(s) + Len(t) : i > Len(s) =>
              /\ i - Len(s) \in 1 .. Len(t) /\ (s \o t)[i] = t[i - Len(s)]
         /\ \A i \in 1 .. Len(t) : (s \o t)[Len(s) + i] = t[i]
OBVIOUS

LEMMA MoreScopes ==
  ASSUME NEW s, NEW t, NEW K, NEW L, K \intersect L = {},
         ScopesOfNode(s, K), ScopesOfNode(t, L)
  PROVE  ScopesOfNode(s \o t, K \union L)
<1> DEFINE u == s \o t
<1>1. /\ s \in Seq(ScopeSet) /\ t \in Seq(ScopeSet)
      /\ Len(s) \in Nat /\ DOMAIN s = 1 .. Len(s) /\ Len(t) \in Nat /\ DOMAIN t = 1 .. Len(t)
  BY Elements DEF ScopesOfNode
<1>2. /\ u \in Seq(ScopeSet) /\ DOMAIN u = 1 .. Len(s) + Len(t)
      /\ \A i \in 1 .. Len(s) : u[i] = s[i]
      /\ \A i \in 1 .. Len(s) + Len(t) : i > Len(s) =>
           i - Len(s) \in 1 .. Len(t) /\ u[i] = t[i - Len(s)]
      /\ \A i \in 1 .. Len(t) : u[Len(s) + i] = t[i]
  BY <1>1, ConcatFacts
<1> HIDE DEF u
<1>3. \A i \in DOMAIN u : \/ i \in DOMAIN s /\ u[i] = s[i]
                          \/ i - Len(s) \in DOMAIN t /\ u[i] = t[i - Len(s)] /\ i \in Nat
  BY <1>1, <1>2
<1>4. \A i \in DOMAIN u : /\ u[i].at = node /\ u[i].depth = depth /\ u[i].kind \in K \union L
                          /\ u[i].qn = QNOf(node, u[i].kind)
  BY <1>3 DEF ScopesOfNode
<1>5. ASSUME NEW i \in DOMAIN u, NEW j \in DOMAIN u, u[i].kind = u[j].kind
      PROVE  i = j
  <2>1. CASE i \in DOMAIN s /\ u[i] = s[i]
    <3>1. u[j].kind \in K
      BY <1>5, <2>1 DEF ScopesOfNode
    <3>2. j \in DOMAIN s /\ u[j] = s[j]
      BY <1>3, <3>1 DEF ScopesOfNode
    <3> QED BY <1>5, <2>1, <3>2 DEF ScopesOfNode
  <2>2. CASE i - Len(s) \in DOMAIN t /\ u[i] = t[i - Len(s)] /\ i \in Nat
    <3>1. u[j].kind \in L
      BY <1>5, <2>2 DEF ScopesOfNode
    <3>2. j - Len(s) \in DOMAIN t /\ u[j] = t[j - Len(s)] /\ j \in Nat
      BY <1>3, <3>1 DEF ScopesOfNode
    <3>3. i - Len(s) = j - Len(s)
      BY <1>5, <2>2, <3>2 DEF ScopesOfNode
    <3> QED BY <1>1, <2>2, <3>2, <3>3
  <2> QED BY <1>3, <2>1, <2>2
<1>6. ASSUME NEW k \in K \union L PROVE \E i \in DOMAIN u : u[i].kind = k
  <2>1. CASE k \in K
    <3>1. PICK i \in DOMAIN s : s[i].kind = k
      BY <2>1 DEF ScopesOfNode
    <3> QED BY <1>1, <1>2, <3>1
  <2>2. CASE k \in L
    <3>1. PICK i \in DOMAIN t : t[i].kind = k
      BY <2>2 DEF ScopesOfNode
    <3>2. Len(s) + i \in DOMAIN u /\ u[Len(s) + i] = t[i]
      BY <1>1, <1>2, <3>1
    <3> QED BY <3>1, <3>2
  <2> QED BY <2>1, <2>2
<1> QED BY <1>2, <1>4, <1>5, <1>6 DEF ScopesOfNode, u

LEMMA OneScope ==
  ASSUME node \in Nat \ {0}, depth \in Nat, NEW k \in ScopeKinds,
         NEW q \in Seq(Nat) \union {None}, q = QNOf(node, k)
  PROVE  ScopesOfNode(<<Scope(k, q)>>, {k})
<1>1. Scope(k, q) \in ScopeSet
  BY DEF Scope, ScopeSet
<1>2. /\ <<Scope(k, q)>> \in Seq(ScopeSet) /\ DOMAIN <<Scope(k, q)>> = {1}
      /\ <<Scope(k, q)>>[1] = Scope(k, q)
  BY <1>1
<1> QED BY <1>2 DEF ScopesOfNode, Scope

LEMMA NoScope == ScopesOfNode(<<>>, {})
BY DEF ScopesOfNode

\* A node opens a scope of every kind that it can.
LEMMA OpenedScopes ==
  ASSUME file \in Files, node \in Nodes, depth \in Nat, NEW named,
         \/ named = <<>>
         \/ /\ NamedScope(node) # None
            /\ named = <<Scope(NamedScope(node), ScopeQN(scopes, node))>>
            /\ ScopeQN(scopes, node) = QNOf(node, NamedScope(node))
            /\ ScopeQN(scopes, node) \in Seq(Nat)
  PROVE  \E K \in SUBSET ScopeKinds :
           /\ ScopesOfNode(Opened(named), K)
           /\ \A k \in K : Opens(node, k)
           /\ \A k \in ScopeKinds : Opens(node, k) =>
                k \in K \/ (named = <<>> /\ NamedScope(node) = k)
           /\ named = <<>> => \A k \in K : k # NamedScope(node)
<1> DEFINE A == IF named = <<>> THEN {} ELSE {NamedScope(node)}
           B == IF Is(node, "call") THEN {"call"} ELSE {}
           C == IF Is(node, "import") THEN {"import"} ELSE {}
<1>1. node \in Nat \ {0}
  BY TreeFacts
<1>2. NamedScope(node) \in {"func", "class", None}
  BY DEF NamedScope
<1>3. named # <<>> => NamedScope(node) \in {"func", "class"}
  BY <1>2
<1>4. ScopesOfNode(named, A)
  <2>1. CASE named = <<>>
    BY <2>1, NoScope
  <2>2. CASE named # <<>>
    <3>1. NamedScope(node) \in ScopeKinds
      BY <1>3, <2>2 DEF ScopeKinds
    <3> QED BY <1>1, <2>2, <3>1, OneScope
  <2> QED BY <2>1, <2>2
<1>5. ScopesOfNode(IF Is(node, "call") THEN <<Scope("call", None)>> ELSE <<>>, B)
  <2>1. QNOf(node, "call") = None
    BY DEF QNOf
  <2> QED BY <1>1, <2>1, OneScope, NoScope DEF ScopeKinds
<1>6. ScopesOfNode(IF Is(node, "import") THEN <<Scope("import", None)>> ELSE <<>>, C)
  <2>1. QNOf(node, "import") = None
    BY DEF QNOf
  <2> QED BY <1>1, <2>1, OneScope, NoScope DEF ScopeKinds
<1>7. A \intersect B = {} /\ (A \union B) \intersect C = {}
  BY <1>3
<1>8. ScopesOfNode(Opened(named), (A \union B) \union C)
  <2> HIDE DEF A, B, C
  <2>1. ScopesOfNode(named \o (IF Is(node, "call") THEN <<Scope("call", None)>> ELSE <<>>),
                     A \union B)
    BY <1>4, <1>5, <1>7, MoreScopes
  <2>2. ScopesOfNode((named \o (IF Is(node, "call") THEN <<Scope("call", None)>> ELSE <<>>))
                       \o (IF Is(node, "import") THEN <<Scope("import", None)>> ELSE <<>>),
                     (A \union B) \union C)
    BY <1>6, <1>7, <2>1, MoreScopes
  <2> QED BY <2>2 DEF Opened
<1>9. (A \union B) \union C \subseteq ScopeKinds
  BY <1>3 DEF ScopeKinds
<1>10. \A k \in (A \union B) \union C : Opens(node, k)
  BY <1>3 DEF Opens
<1>11. \A k \in ScopeKinds : Opens(node, k) =>
         k \in (A \union B) \union C \/ (named = <<>> /\ NamedScope(node) = k)
  BY DEF ScopeKinds, Opens
<1>12. named = <<>> => \A k \in (A \union B) \union C : k # NamedScope(node)
  <2>1. NamedScope(node) = None => None \notin B \union C
    BY ExtractionAssumption DEF ScopeKinds
  <2> QED BY <1>2, <2>1
<1> HIDE DEF A, B, C
<1> QED BY <1>8, <1>9, <1>10, <1>11, <1>12

LEMMA Entered ==
  ASSUME file \in Files, NEW n \in Nodes, node = n, depth = file.level[n],
         scopes \in Seq(ScopeSet), Len(scopes) <= MaxScopes, StackOf(scopes, Ancestors(n)),
         lost \subseteq Nat \X ScopeKinds, \A p \in lost : p[1] < n,
         NEW named, Enter(named),
         \/ named = <<>>
         \/ NamedScope(n) # None /\ named = <<Scope(NamedScope(n), ScopeQN(scopes, n))>>
  PROVE  /\ scopes' \in Seq(ScopeSet) /\ Len(scopes') <= MaxScopes
         /\ lost' \subseteq Nat \X ScopeKinds
         /\ lost \subseteq lost' /\ \A p \in lost' : p \in lost \/ p[1] = n
         /\ StackOf(scopes, Path(n))'
<1> DEFINE O == Opened(named)
           unnamed == IF named = <<>> /\ NamedScope(n) # None
                        THEN {<<n, NamedScope(n)>>} ELSE {}
<1>2. n \in Nat \ {0} /\ depth \in Nat /\ MaxScopes \in Nat
  BY TreeFacts, ExtractionAssumption
<1>3. named # <<>> => /\ ScopeQN(scopes, n) = QNOf(n, NamedScope(n))
                      /\ ScopeQN(scopes, n) \in Seq(Nat)
  <2> SUFFICES ASSUME named # <<>>
               PROVE  /\ ScopeQN(scopes, n) = QNOf(n, NamedScope(n))
                      /\ ScopeQN(scopes, n) \in Seq(Nat)
    OBVIOUS
  <2>1. CASE Is(n, "function")
    <3>1. NamedScope(n) = "func"
      BY <2>1 DEF NamedScope
    <3>2. EnclosingClass(scopes) = IF Around(n, "class") = {} THEN <<>>
                                   ELSE <<Max(Around(n, "class"))>>
      BY StateOfTheWalk
    <3>3. Append(EnclosingClass(scopes), n) = QualifiedName(n)
      <4>1. CASE Around(n, "class") = {}
        <5>1. EnclosingClass(scopes) = <<>> /\ QualifiedName(n) = <<n>>
          BY <3>2, <4>1 DEF QualifiedName
        <5> QED BY <5>1
      <4>2. CASE Around(n, "class") # {}
        <5>1. PICK c \in Nat : c = Max(Around(n, "class"))
          BY <4>2, NamesAreNumbers, LastNode
        <5>2. EnclosingClass(scopes) = <<c>> /\ QualifiedName(n) = <<c, n>>
          BY <3>2, <4>2, <5>1 DEF QualifiedName
        <5>3. Append(<<c>>, n) = <<c, n>>
          BY <1>2, AppendToOne
        <5> QED BY <5>2, <5>3
      <4> QED BY <4>1, <4>2
    <3>4. ScopeQN(scopes, n) = QualifiedName(n) /\ QNOf(n, "func") = QualifiedName(n)
      BY <2>1, <3>3 DEF ScopeQN, QNOf
    <3> QED BY <3>1, <3>4, NamesAreNumbers
  <2>2. CASE ~ Is(n, "function")
    <3>1. NamedScope(n) = "class"
      BY <2>2 DEF NamedScope
    <3>2. ScopeQN(scopes, n) = <<n>> /\ QNOf(n, "class") = <<n>>
      BY <2>2 DEF ScopeQN, QNOf
    <3> QED BY <1>2, <3>1, <3>2
  <2> QED BY <2>1, <2>2
<1>4. PICK K \in SUBSET ScopeKinds :
        /\ ScopesOfNode(O, K)
        /\ \A k \in K : Opens(n, k)
        /\ \A k \in ScopeKinds : Opens(n, k) =>
             k \in K \/ (named = <<>> /\ NamedScope(n) = k)
        /\ named = <<>> => \A k \in K : k # NamedScope(n)
  BY <1>2, <1>3, OpenedScopes
<1>5. /\ O \in Seq(ScopeSet)
      /\ \A i \in DOMAIN O : /\ O[i].at = n /\ O[i].depth = depth /\ O[i].kind \in K
                             /\ O[i].qn = QNOf(n, O[i].kind)
      /\ \A i, j \in DOMAIN O : O[i].kind = O[j].kind => i = j
      /\ \A k \in K : \E i \in DOMAIN O : O[i].kind = k
  BY <1>4 DEF ScopesOfNode
<1> HIDE DEF O
<1>6. /\ Len(scopes) \in Nat /\ DOMAIN scopes = 1 .. Len(scopes)
      /\ Len(O) \in Nat /\ DOMAIN O = 1 .. Len(O)
  BY <1>5, Elements
<1>70. PICK all : all = scopes \o O
  OBVIOUS
<1>7. /\ all = scopes \o O
      /\ all \in Seq(ScopeSet) /\ Len(all) = Len(scopes) + Len(O)
      /\ DOMAIN all = 1 .. Len(all)
      /\ \A i \in 1 .. Len(scopes) : all[i] = scopes[i]
      /\ \A i \in 1 .. Len(all) : i > Len(scopes) =>
           i - Len(scopes) \in DOMAIN O /\ all[i] = O[i - Len(scopes)]
      /\ \A i \in DOMAIN O : Len(scopes) + i \in DOMAIN all /\ all[Len(scopes) + i] = O[i]
  <2>1. /\ all \in Seq(ScopeSet) /\ Len(all) = Len(scopes) + Len(O)
        /\ DOMAIN all = 1 .. Len(scopes) + Len(O)
        /\ \A i \in 1 .. Len(scopes) : all[i] = scopes[i]
        /\ \A i \in 1 .. Len(scopes) + Len(O) : i > Len(scopes) =>
             i - Len(scopes) \in 1 .. Len(O) /\ all[i] = O[i - Len(scopes)]
        /\ \A i \in 1 .. Len(O) : all[Len(scopes) + i] = O[i]
    BY <1>5, <1>70, ConcatFacts
  <2>2. \A i \in DOMAIN O : Len(scopes) + i \in DOMAIN all
    BY <1>6, <2>1
  <2> QED BY <1>6, <1>70, <2>1, <2>2
<1> DEFINE cut == Min({Len(all), MaxScopes})
           late == {<<n, all[i].kind>> : i \in MaxScopes + 1 .. Len(all)}
<1>1. /\ file' = file /\ scopes' = SubSeq(all, 1, cut)
      /\ lost' = lost \union late \union unnamed
  BY <1>7 DEF Enter, O
<1>8. cut \in Nat /\ cut <= Len(all) /\ cut <= MaxScopes /\ Len(scopes) <= cut
      /\ (cut = Len(all) \/ cut = MaxScopes)
  <2>1. Len(all) \in Nat
    BY <1>6, <1>7
  <2>2. cut = IF Len(all) <= MaxScopes THEN Len(all) ELSE MaxScopes
    BY <1>2, <2>1, LesserOfTwo
  <2> HIDE DEF cut
  <2> QED BY <1>2, <1>6, <1>7, <2>1, <2>2
<1> HIDE DEF cut
<1>9. /\ scopes' \in Seq(ScopeSet) /\ Len(scopes') = cut /\ DOMAIN scopes' = 1 .. cut
      /\ \A i \in 1 .. cut : scopes'[i] = all[i]
  BY <1>1, <1>7, <1>8
<1>10. late \subseteq {n} \X ScopeKinds
  <2> SUFFICES ASSUME NEW i \in MaxScopes + 1 .. Len(all)
               PROVE  all[i].kind \in ScopeKinds
    OBVIOUS
  <2>1. i \in DOMAIN all /\ all[i] \in ScopeSet
    BY <1>2, <1>6, <1>7
  <2> QED BY <2>1 DEF ScopeSet
<1>11. unnamed \subseteq {n} \X ScopeKinds
  BY DEF NamedScope, ScopeKinds
<1>12. /\ lost' \subseteq Nat \X ScopeKinds /\ lost \subseteq lost'
       /\ \A p \in lost' : p \in lost \/ p[1] = n
  <2> HIDE DEF late, unnamed
  <2>1. \A p \in {n} \X ScopeKinds : p[1] = n
    OBVIOUS
  <2> QED BY <1>1, <1>2, <1>10, <1>11, <2>1
<1>13. \A m \in Nodes : m <= n => \A k : QNOf(m, k)' = QNOf(m, k)
  BY <1>1, <1>12, DroppedLater DEF QNOf
<1>14. Ancestors(n) \subseteq Nodes /\ (\A m \in Ancestors(n) : m < n /\ m \in Nat)
       /\ Path(n)' = Ancestors(n) \union {n}
  BY <1>1, Above, SameTree
<1>15. ASSUME NEW i \in 1 .. cut
       PROVE  \E m \in Path(n)', k \in ScopeKinds :
                /\ all[i] = [kind |-> k, depth |-> file.level[m], qn |-> QNOf(m, k)', at |-> m]
                /\ Opens(m, k)' /\ <<m, k>> \notin lost'
  <2>1. CASE i <= Len(scopes)
    <3>2. i \in DOMAIN scopes /\ all[i] = scopes[i]
      BY <1>6, <1>7, <2>1
    <3>3. PICK m \in Ancestors(n), k \in ScopeKinds :
            /\ all[i] = [kind |-> k, depth |-> file.level[m], qn |-> QNOf(m, k), at |-> m]
            /\ Opens(m, k) /\ <<m, k>> \notin lost
      BY <3>2 DEF StackOf
    <3>4. m \in Nodes /\ m <= n /\ m # n
      BY <1>2, <1>14, <3>3
    <3>5. <<m, k>> \notin lost'
      <4>1. <<m, k>>[1] # n
        BY <3>4
      <4> QED BY <1>12, <3>3, <4>1
    <3>6. Opens(m, k)' /\ QNOf(m, k)' = QNOf(m, k)
      BY <1>1, <1>13, <3>3, <3>4, SameTree
    <3> QED BY <1>14, <3>3, <3>5, <3>6
  <2>2. CASE i > Len(scopes)
    <3>1. PICK k : k = all[i].kind
      OBVIOUS
    <3>2. i \in 1 .. Len(all) /\ i - Len(scopes) \in DOMAIN O /\ all[i] = O[i - Len(scopes)]
      BY <1>6, <1>7, <1>8, <2>2
    <3>3. /\ all[i].at = n /\ all[i].depth = file.level[n] /\ k \in K
          /\ all[i].qn = QNOf(n, k)
      BY <1>5, <3>1, <3>2
    <3>8. all[i] = [kind |-> k, depth |-> file.level[n], qn |-> QNOf(n, k), at |-> n]
      <4>1. all[i] \in ScopeSet
        BY <1>7, <3>2
      <4> QED BY <3>1, <3>3, <4>1 DEF ScopeSet
    <3>4. <<n, k>> \notin lost
      BY <1>2
    <3>5. <<n, k>> \notin late
      <4> SUFFICES ASSUME NEW j \in MaxScopes + 1 .. Len(all), all[j].kind = k
                   PROVE  FALSE
        OBVIOUS
      <4>1. j \in 1 .. Len(all) /\ j > i /\ j > Len(scopes)
        BY <1>2, <1>6, <1>8
      <4>2. j - Len(scopes) \in DOMAIN O /\ all[j] = O[j - Len(scopes)]
        BY <1>7, <4>1
      <4>3. j - Len(scopes) = i - Len(scopes)
        BY <1>5, <3>1, <3>2, <4>2
      <4> QED BY <1>6, <4>1, <4>3
    <3>6. <<n, k>> \notin unnamed
      BY <1>4, <3>3
    <3>7. Opens(n, k)' /\ QNOf(n, k)' = QNOf(n, k)
      BY <1>1, <1>2, <1>4, <1>13, <3>3, SameTree
    <3> HIDE DEF late, unnamed
    <3> QED BY <1>1, <1>14, <3>3, <3>4, <3>5, <3>6, <3>7, <3>8
  <2> QED BY <1>6, <2>1, <2>2
<1>16. ASSUME NEW i \in 1 .. cut, NEW j \in 1 .. cut, i < j
       PROVE  all[i].at <= all[j].at
  <2>1. \A a \in 1 .. cut : \/ a \in DOMAIN scopes /\ all[a] = scopes[a] /\ all[a].at \in Ancestors(n)
                            \/ a > Len(scopes) /\ all[a].at = n
    <3> TAKE a \in 1 .. cut
    <3>1. CASE a <= Len(scopes)
      <4>1. a \in DOMAIN scopes /\ all[a] = scopes[a]
        BY <1>6, <1>7, <3>1
      <4> QED BY <4>1, StackEntries
    <3>2. CASE a > Len(scopes)
      <4>1. a \in 1 .. Len(all) /\ a - Len(scopes) \in DOMAIN O /\ all[a] = O[a - Len(scopes)]
        BY <1>6, <1>7, <1>8, <3>2
      <4> QED BY <1>5, <3>2, <4>1
    <3> QED BY <1>6, <3>1, <3>2
  <2>2. CASE j \in DOMAIN scopes
    <3>1. i \in DOMAIN scopes
      BY <1>6, <1>16, <2>2
    <3>2. all[i] = scopes[i] /\ all[j] = scopes[j]
      BY <1>6, <1>7, <2>2, <3>1
    <3> QED BY <1>16, <2>2, <3>1, <3>2 DEF StackOf
  <2>3. CASE all[j].at = n
    BY <1>2, <1>14, <2>1, <2>3
  <2> QED BY <2>1, <2>2, <2>3
<1>17. ASSUME NEW m \in Ancestors(n) \union {n}, NEW k \in ScopeKinds, Opens(m, k),
              <<m, k>> \notin lost'
       PROVE  \E i \in 1 .. cut : all[i].at = m /\ all[i].kind = k
  <2>1. CASE m \in Ancestors(n)
    <3>1. PICK i \in DOMAIN scopes : scopes[i].at = m /\ scopes[i].kind = k
      BY <1>12, <1>17, <2>1 DEF StackOf
    <3> QED BY <1>6, <1>7, <1>8, <3>1
  <2>2. CASE m = n
    <3>1. k \in K
      BY <1>1, <1>4, <1>17, <2>2, ExtractionAssumption
    <3>2. PICK i \in DOMAIN O : O[i].kind = k
      BY <1>5, <3>1
    <3>3. Len(scopes) + i \in DOMAIN all /\ all[Len(scopes) + i] = O[i]
      BY <1>7, <3>2
    <3>4. ASSUME Len(scopes) + i > cut PROVE FALSE
      <4>1. Len(scopes) + i \in MaxScopes + 1 .. Len(all)
        BY <1>2, <1>6, <1>7, <1>8, <3>3, <3>4
      <4>2. <<n, all[Len(scopes) + i].kind>> \in late
        BY <4>1
      <4> HIDE DEF late, unnamed
      <4> QED BY <1>1, <1>17, <2>2, <3>2, <3>3, <4>2
    <3>5. Len(scopes) + i \in 1 .. cut
      BY <1>6, <1>7, <1>8, <3>3, <3>4
    <3> QED BY <1>5, <2>2, <3>2, <3>3, <3>5
  <2> QED BY <2>1, <2>2
<1>18. StackOf(scopes, Path(n))'
  <2>1. \A i \in DOMAIN scopes' : \E m \in Path(n)', k \in ScopeKinds :
          /\ scopes'[i] = [kind |-> k, depth |-> file'.level[m], qn |-> QNOf(m, k)', at |-> m]
          /\ Opens(m, k)' /\ <<m, k>> \notin lost'
    BY <1>1, <1>9, <1>15
  <2>2. \A i, j \in DOMAIN scopes' : i < j => scopes'[i].at <= scopes'[j].at
    BY <1>9, <1>16
  <2>3. \A m \in Path(n)', k \in ScopeKinds :
          Opens(m, k)' => \/ <<m, k>> \in lost'
                          \/ \E i \in DOMAIN scopes' : scopes'[i].at = m /\ scopes'[i].kind = k
    <3> SUFFICES ASSUME NEW m \in Ancestors(n) \union {n}, NEW k \in ScopeKinds,
                        Opens(m, k)', <<m, k>> \notin lost'
                 PROVE  \E i \in DOMAIN scopes' : scopes'[i].at = m /\ scopes'[i].kind = k
      BY <1>14
    <3>1. Opens(m, k)
      BY <1>1, SameTree
    <3>2. PICK i \in 1 .. cut : all[i].at = m /\ all[i].kind = k
      BY <1>17, <3>1
    <3> QED BY <1>9, <3>2
  <2> QED BY <2>1, <2>2, <2>3 DEF StackOf
<1> QED BY <1>8, <1>9, <1>12, <1>18

-----------------------------------------------------------------------------
(* Nodes in their order, and what the handlers push.                       *)

Increasing(f) == \A i, j \in DOMAIN f : i < j => f[i] < f[j]

LEMMA OrderExists ==
  ASSUME NEW N \in Nat, NEW S \in SUBSET (1 .. N)
  PROVE  \E f \in [1 .. Cardinality(S) -> S] : Increasing(f)
<1> DEFINE Fails(T) == \A f \in [1 .. Cardinality(T) -> T] : ~ Increasing(f)
           Bad == {k \in Nat : \E T \in SUBSET (1 .. N) : Cardinality(T) = k /\ Fails(T)}
<1>1. \A T \in SUBSET (1 .. N) : IsFiniteSet(T) /\ Cardinality(T) \in Nat
  <2>1. IsFiniteSet(1 .. N)
    BY FS_Interval
  <2> QED BY <2>1, FS_Subset, FS_CardinalityType
<1>2. ASSUME Bad # {} PROVE FALSE
  <2>1. PICK k \in Bad : \A j \in Bad : k <= j
    <3>1. Bad \subseteq Nat
      OBVIOUS
    <3> HIDE DEF Bad
    <3> QED BY <1>2, <3>1, LeastNatural
  <2>2. PICK T \in SUBSET (1 .. N) : Cardinality(T) = k /\ Fails(T)
    BY <2>1
  <2>3. k \in Nat
    BY <2>1
  <2>4. CASE T = {}
    <3>1. k = 0
      BY <2>2, <2>4, FS_EmptySet
    <3>2. [i \in 1 .. k |-> i] \in [1 .. k -> T] /\ Increasing([i \in 1 .. k |-> i])
      BY <2>4, <3>1 DEF Increasing
    <3> QED BY <2>2, <3>2
  <2>5. CASE T # {}
    <3> DEFINE m == Max(T)
               U == T \ {m}
    <3>1. m \in T /\ \A y \in T : m >= y
      <4>1. T \subseteq 0 .. N
        OBVIOUS
      <4> QED BY <2>5, <4>1, GreatestNatural
    <3> HIDE DEF m
    <3>2. Cardinality(U) = k - 1 /\ U \in SUBSET (1 .. N)
      BY <1>1, <2>2, <3>1, FS_RemoveElement
    <3>3. k - 1 \in Nat
      BY <1>1, <3>2
    <3>4. k - 1 \notin Bad
      BY <2>1, <2>3, <3>3
    <3>5. PICK f \in [1 .. k - 1 -> U] : Increasing(f)
      BY <3>2, <3>3, <3>4
    <3> DEFINE g == [i \in 1 .. k |-> IF i = k THEN m ELSE f[i]]
    <3>6. \A i \in 1 .. k : i # k => i \in 1 .. k - 1
      BY <2>3
    <3>7. g \in [1 .. k -> T]
      BY <3>1, <3>6
    <3>8. \A y \in U : y < m /\ y \in Nat /\ m \in Nat
      BY <3>1
    <3>9. Increasing(g)
      <4> SUFFICES ASSUME NEW i \in 1 .. k, NEW j \in 1 .. k, i < j
                   PROVE  g[i] < g[j]
        BY DEF Increasing
      <4>1. i # k /\ i \in 1 .. k - 1
        BY <2>3
      <4>2. CASE j = k
        BY <3>8, <4>1, <4>2
      <4>3. CASE j # k
        BY <3>5, <3>6, <4>1, <4>3 DEF Increasing
      <4> QED BY <4>2, <4>3
    <3> QED BY <2>2, <3>7, <3>9
  <2> QED BY <2>4, <2>5
<1>3. Cardinality(S) \notin Bad
  BY <1>2
<1> QED BY <1>1, <1>3

\* The nodes of a set in their order are all of them.
LEMMA InOrderFacts ==
  ASSUME file \in Files, NEW S \in SUBSET Nodes
  PROVE  /\ InOrder(S) \in Seq(S) /\ Increasing(InOrder(S))
         /\ \A n \in S : \E i \in DOMAIN InOrder(S) : InOrder(S)[i] = n
<1> DEFINE f == InOrder(S)
           c == Cardinality(S)
<1>1. Len(file.kind) \in Nat /\ S \in SUBSET (1 .. Len(file.kind)) /\ S \subseteq Nat
  BY TreeFacts
<1>2. \E g \in [1 .. c -> S] : Increasing(g)
  BY <1>1, OrderExists
<1>3. f \in [1 .. c -> S] /\ Increasing(f)
  BY <1>2 DEF InOrder, Increasing
<1>4. IsFiniteSet(S) /\ c \in Nat
  <2>1. IsFiniteSet(1 .. Len(file.kind))
    BY <1>1, FS_Interval
  <2>2. IsFiniteSet(S)
    BY <1>1, <2>1, FS_Subset
  <2> QED BY <2>2, FS_CardinalityType
<1> HIDE DEF f, c
<1>5. f \in Seq(S) /\ DOMAIN f = 1 .. c
  BY <1>3, <1>4
<1>6. \A i, j \in 1 .. c : f[i] = f[j] => i = j
  <2> TAKE i, j \in 1 .. c
  <2>1. f[i] \in Nat /\ f[j] \in Nat
    BY <1>1, <1>3
  <2>2. i < j => f[i] < f[j]
    BY <1>3 DEF Increasing
  <2>3. j < i => f[j] < f[i]
    BY <1>3 DEF Increasing
  <2> QED BY <1>4, <2>1, <2>2, <2>3
<1>7. f \in Injection(1 .. c, S)
  BY <1>3, <1>6 DEF Injection, IsInjective
<1>8. Cardinality(1 .. c) = Cardinality(S)
  BY <1>4, FS_Interval DEF c
<1>9. f \in Surjection(1 .. c, S)
  BY <1>4, <1>7, <1>8, FS_Injection
<1>10. \A n \in S : \E i \in 1 .. c : f[i] = n
  BY <1>9 DEF Surjection
<1> QED BY <1>3, <1>5, <1>10 DEF f

LEMMA DefinitionsFacts ==
  ASSUME file \in Files, NEW n \in Nodes
  PROVE  /\ DefinitionsAt(n) \in Seq(Works)
         /\ \A i \in DOMAIN DefinitionsAt(n) : DefinitionsAt(n)[i].to = "defs"
         /\ Is(n, "class") /\ ~ Is(n, "function") /\ Resolves(n) =>
              \A m \in Children(n) : Is(m, "function") /\ Resolves(m) =>
                \E i \in DOMAIN DefinitionsAt(n) :
                  DefinitionsAt(n)[i].item = [node |-> m, func |-> <<n, m>>]
         /\ Is(n, "function") /\ Resolves(n) =>
              \E i \in DOMAIN DefinitionsAt(n) :
                DefinitionsAt(n)[i].item = [node |-> n, func |-> <<n>>]
<1> DEFINE D == {w \in Works : w.to = "defs"}
           M == {m \in Children(n) : Is(m, "function") /\ Resolves(m)}
           own == Item("defs", n, <<n>>)
           methods == [i \in DOMAIN Methods(n) |->
                         Item("defs", Methods(n)[i], <<n, Methods(n)[i]>>)]
<1>1. n \in Nat \ {0} /\ \A m \in Nodes : m \in Nat \ {0}
  BY TreeFacts
<1>2. own \in D /\ own.item = [node |-> n, func |-> <<n>>]
  BY <1>1 DEF Item, Works, ItemSet, Arrays
<1>3. M \in SUBSET Nodes
  BY DEF Children
<1>4. /\ Methods(n) \in Seq(M)
      /\ \A m \in M : \E i \in DOMAIN Methods(n) : Methods(n)[i] = m
  BY <1>3, InOrderFacts DEF Methods
<1>5. /\ Len(Methods(n)) \in Nat /\ DOMAIN Methods(n) = 1 .. Len(Methods(n))
      /\ \A i \in DOMAIN Methods(n) : Methods(n)[i] \in Nat \ {0}
  <2>1. /\ Len(Methods(n)) \in Nat /\ DOMAIN Methods(n) = 1 .. Len(Methods(n))
        /\ \A i \in DOMAIN Methods(n) : Methods(n)[i] \in M
    <3> HIDE DEF M
    <3> QED BY <1>4, Elements
  <2> QED BY <1>1, <1>3, <2>1
<1>6. \A i \in DOMAIN Methods(n) : methods[i] \in D
  BY <1>1, <1>5 DEF Item, Works, ItemSet, Arrays
<1>7. methods \in Seq(D) /\ DOMAIN methods = DOMAIN Methods(n) /\ Len(methods) = Len(Methods(n))
  <2> HIDE DEF D
  <2> QED BY <1>5, <1>6
<1>8. <<own>> \in Seq(D) /\ Len(<<own>>) = 1 /\ <<own>>[1] = own /\ DOMAIN <<own>> = {1}
  <2> HIDE DEF D, own
  <2> QED BY <1>2
<1>9. /\ <<own>> \o methods \in Seq(D)
      /\ \A i \in DOMAIN methods : 1 + i \in DOMAIN (<<own>> \o methods)
                                   /\ (<<own>> \o methods)[1 + i] = methods[i]
  <2> HIDE DEF D, own, methods
  <2> QED BY <1>5, <1>7, <1>8, ConcatFacts
<1>10. DefinitionsAt(n) \in Seq(D)
  <2>1. DefinitionsAt(n) = <<>> \/ DefinitionsAt(n) = <<own>>
        \/ DefinitionsAt(n) = <<own>> \o methods
    BY DEF DefinitionsAt
  <2>2. <<>> \in Seq(D)
    OBVIOUS
  <2> HIDE DEF D, own, methods
  <2> QED BY <1>8, <1>9, <2>1, <2>2
<1>11. DefinitionsAt(n) \in Seq(Works)
       /\ \A i \in DOMAIN DefinitionsAt(n) : DefinitionsAt(n)[i].to = "defs"
  <2>1. \A i \in DOMAIN DefinitionsAt(n) : DefinitionsAt(n)[i] \in D
    <3> HIDE DEF D
    <3> QED BY <1>10, Elements
  <2>2. /\ Len(DefinitionsAt(n)) \in Nat
        /\ DefinitionsAt(n) \in [1 .. Len(DefinitionsAt(n)) -> D]
    <3> HIDE DEF D
    <3> QED BY <1>10
  <2>3. DefinitionsAt(n) \in [1 .. Len(DefinitionsAt(n)) -> Works]
    BY <2>2
  <2>4. DefinitionsAt(n) \in Seq(Works)
    BY <2>2, <2>3
  <2> QED BY <2>1, <2>4
<1>12. ASSUME Is(n, "class"), ~ Is(n, "function"), Resolves(n),
              NEW m \in Children(n), Is(m, "function"), Resolves(m)
       PROVE  \E i \in DOMAIN DefinitionsAt(n) :
                DefinitionsAt(n)[i].item = [node |-> m, func |-> <<n, m>>]
  <2>1. DefinitionsAt(n) = <<own>> \o methods
    BY <1>12 DEF DefinitionsAt
  <2>2. PICK i \in DOMAIN Methods(n) : Methods(n)[i] = m
    BY <1>4, <1>12
  <2>3. methods[i].item = [node |-> m, func |-> <<n, m>>]
    BY <2>2 DEF Item
  <2>4. 1 + i \in DOMAIN (<<own>> \o methods) /\ (<<own>> \o methods)[1 + i] = methods[i]
    BY <1>7, <1>9, <2>2
  <2> HIDE DEF own, methods
  <2> QED BY <2>1, <2>3, <2>4
<1>13. ASSUME Is(n, "function"), Resolves(n)
       PROVE  \E i \in DOMAIN DefinitionsAt(n) :
                DefinitionsAt(n)[i].item = [node |-> n, func |-> <<n>>]
  <2>1. DefinitionsAt(n) = <<own>>
    BY <1>13 DEF DefinitionsAt
  <2> HIDE DEF own
  <2> QED BY <1>2, <1>8, <2>1
<1> QED BY <1>11, <1>12, <1>13

\* What a step of the imports does.
LEMMA ImportsFacts ==
  ASSUME ParserInv, WalkInv, ParseImports \/ ParseFallback
  PROVE  /\ pc \in {"imports", "fallback"} /\ pc' \in {"imports", "fallback", "visit"}
         /\ todo = <<>> /\ todo' \in Seq(Works)
         /\ \A i \in DOMAIN todo' : todo'[i].to = "imports"
         /\ UNCHANGED <<arenaVars, parser, file, tree, scopes, lost, resultVars, out>>
         /\ file \in Files /\ node \in Nodes /\ node' \in Nodes /\ depth' \in Nat
         /\ pc' = "visit" => node' = 1 /\ depth' = 0
<1>1. /\ pc \in {"imports", "fallback"} /\ todo = <<>>
      /\ UNCHANGED <<arenaVars, parser, file, tree, scopes, lost, resultVars, out>>
      /\ \/ pc' = "fallback" /\ UNCHANGED <<node, depth>>
         \/ MoveOn
  BY DEF ParseImports, ParseFallback
<1>2. file \in Files /\ node \in Nodes /\ depth \in Nat
  BY <1>1 DEF ParserInv, WalkInv, BeforeTree
<1>3. /\ pc' \in {"imports", "fallback", "visit"} /\ node' \in Nodes /\ depth' \in Nat
      /\ pc' = "visit" => node' = 1 /\ depth' = 0
  <2>1. CASE pc' = "fallback" /\ UNCHANGED <<node, depth>>
    BY <1>2, <2>1
  <2>2. CASE MoveOn
    <3>1. node \in Nat /\ Nodes = 1 .. Len(file.kind) /\ Len(file.kind) \in Nat /\ 1 \in Nodes
      BY <1>2, TreeFacts
    <3>2. node < Len(file.kind) => node + 1 \in Nodes
      BY <1>2, <3>1
    <3> QED BY <1>2, <2>2, <3>1, <3>2 DEF MoveOn
  <2> QED BY <1>1, <2>1, <2>2
<1>4. PICK it : it = Item("imports", node, <<>>)
  OBVIOUS
<1>5. it \in Works /\ it.to = "imports"
  BY <1>2, <1>4, TreeFacts DEF Item, Works, ItemSet, Arrays
<1>6. todo' = <<>> \/ todo' = <<it>>
  BY <1>4 DEF ParseImports, ParseFallback, ImportsAt
<1>7. todo' \in Seq(Works) /\ \A i \in DOMAIN todo' : todo'[i].to = "imports"
  <2>1. <<>> \in Seq(Works) /\ DOMAIN <<>> = {}
    OBVIOUS
  <2>2. <<it>> \in Seq(Works) /\ DOMAIN <<it>> = {1} /\ <<it>>[1] = it
    BY <1>5
  <2> QED BY <1>5, <1>6, <2>1, <2>2
<1> QED BY <1>1, <1>2, <1>3, <1>7

\* What handle_type_refs pushes for a function: the types at its node.
LEMMA TypesFacts ==
  ASSUME file \in Files, NEW n \in Nodes
  PROVE  /\ Len(Types(n)) \in Nat /\ DOMAIN Types(n) = 1 .. Len(Types(n))
         /\ \A i \in DOMAIN Types(n) : /\ Types(n)[i] \in Nodes /\ Types(n)[i] \in Nat \ {0}
                                      /\ Types(n)[i] > 1 /\ Parent(Types(n)[i]) = n
                                      /\ Is(Types(n)[i], "type")
         /\ Increasing(Types(n))
         /\ \A m \in Nodes : m > 1 /\ Parent(m) = n /\ Is(m, "type") =>
              \E i \in DOMAIN Types(n) : Types(n)[i] = m
<1>1. PICK M : M = {m \in Children(n) : Is(m, "type")}
  OBVIOUS
<1>2. M \in SUBSET Nodes
  BY <1>1 DEF Children
<1>3. /\ InOrder(M) \in Seq(M) /\ Increasing(InOrder(M))
      /\ \A m \in M : \E i \in DOMAIN InOrder(M) : InOrder(M)[i] = m
  BY <1>2, InOrderFacts
<1>4. Types(n) = InOrder(M)
  BY <1>1 DEF Types
<1>5. Len(Types(n)) \in Nat /\ DOMAIN Types(n) = 1 .. Len(Types(n))
      /\ \A i \in DOMAIN Types(n) : Types(n)[i] \in M
  BY <1>3, <1>4, Elements
<1>6. \A m \in M : /\ m \in Nodes /\ m \in Nat \ {0} /\ m > 1 /\ Parent(m) = n
                   /\ Is(m, "type")
  BY <1>1, TreeFacts DEF Children
<1>7. \A m \in Nodes : m > 1 /\ Parent(m) = n /\ Is(m, "type") => m \in M
  BY <1>1 DEF Children
<1> QED BY <1>3, <1>4, <1>5, <1>6, <1>7

LEMMA TypeRefsFacts ==
  ASSUME file \in Files, node \in Nodes,
         NEW s \in Seq(ScopeSet), StackOf(s, Ancestors(node))
  PROVE  /\ handle_type_refs(s) \in Seq(Works)
         /\ \A i \in DOMAIN handle_type_refs(s) : handle_type_refs(s)[i].to = "type_refs"
<1> DEFINE refs(func) == [i \in DOMAIN Types(node) |-> Item("type_refs", Types(node)[i], func)]
<1>1. EnclosingClass(s) \in Seq(Nat)
  <2>1. EnclosingClass(s) = IF Around(node, "class") = {} THEN <<>>
                            ELSE <<Max(Around(node, "class"))>>
    BY StateOfTheWalk
  <2>2. Around(node, "class") # {} => Max(Around(node, "class")) \in Nat
    BY NamesAreNumbers, LastNode
  <2> QED BY <2>1, <2>2
<1>2. Append(EnclosingClass(s), node) \in Seq(Nat)
  BY <1>1, TreeFacts
<1>3. EnclosingFunc(s) \in Seq(Nat)
  BY StateOfTheWalk, NamesAreNumbers
<1>4. \A func \in Seq(Nat) :
        refs(func) \in Seq(Works) /\ \A i \in DOMAIN refs(func) : refs(func)[i].to = "type_refs"
  <2> TAKE func \in Seq(Nat)
  <2>1. \A i \in DOMAIN Types(node) : /\ Item("type_refs", Types(node)[i], func) \in Works
                                     /\ Item("type_refs", Types(node)[i], func).to = "type_refs"
    <3> TAKE i \in DOMAIN Types(node)
    <3>1. Types(node)[i] \in Nat \ {0}
      BY TypesFacts
    <3> QED BY <3>1 DEF Item, Works, ItemSet, Arrays
  <2>2. Len(Types(node)) \in Nat /\ DOMAIN Types(node) = 1 .. Len(Types(node))
    BY TypesFacts
  <2> QED BY <2>1, <2>2
<1>5. \/ handle_type_refs(s) = <<>>
      \/ handle_type_refs(s) = refs(Append(EnclosingClass(s), node))
      \/ handle_type_refs(s) = refs(EnclosingFunc(s))
  BY DEF handle_type_refs
<1> HIDE DEF refs
<1>6. <<>> \in Seq(Works) /\ DOMAIN <<>> = {}
  OBVIOUS
<1> QED BY <1>2, <1>3, <1>4, <1>5, <1>6

\* Whatever the handlers push at a node is right.
LEMMA HandledFacts ==
  ASSUME file \in Files, node \in Nodes,
         NEW s \in Seq(ScopeSet), StackOf(s, Ancestors(node))
  PROVE  /\ Handled(s) \in Seq(Works)
         /\ \A i \in DOMAIN Handled(s) :
              Handled(s)[i].to \in Attributed => Right(Handled(s)[i].to, Handled(s)[i].item)
<1> DEFINE G == {w \in Works : w.to \in Attributed => Right(w.to, w.item)}
           func == EnclosingFunc(s)
<1>1. /\ func = Caller(node) /\ func \in Seq(Nat)
      /\ node \in Nat \ {0}
      /\ ~ InsideCall(s) => \A m \in Ancestors(node) : Is(m, "call") => <<m, "call">> \in lost
      /\ ~ InsideImport(s) =>
           \A m \in Ancestors(node) : Is(m, "import") => <<m, "import">> \in lost
  BY StateOfTheWalk, NamesAreNumbers, TreeFacts
<1>2. ASSUME NEW x \in Arrays, x = "usages" => ~ InsideCall(s) /\ ~ InsideImport(s)
      PROVE  <<Item(x, node, func)>> \in Seq(G)
  <2>1. Item(x, node, func) \in Works /\ Item(x, node, func).to = x
        /\ Item(x, node, func).item.node = node /\ Item(x, node, func).item.func = func
    BY <1>1 DEF Item, Works, ItemSet
  <2>2. Right(x, Item(x, node, func).item)
    BY <1>1, <1>2, <2>1 DEF Right
  <2>3. Item(x, node, func) \in G
    BY <2>1, <2>2
  <2> HIDE DEF G
  <2> QED BY <2>3
<1>3. handle_type_refs(s) \in Seq(G)
  <2>1. /\ handle_type_refs(s) \in Seq(Works)
        /\ \A i \in DOMAIN handle_type_refs(s) : handle_type_refs(s)[i].to = "type_refs"
    BY TypeRefsFacts
  <2>2. PICK r : r = handle_type_refs(s)
    OBVIOUS
  <2>3. \A i \in DOMAIN r : r[i] \in Works
    BY <2>1, <2>2, Elements
  <2>4. \A i \in DOMAIN r : r[i] \in G
    BY <2>1, <2>2, <2>3 DEF Attributed
  <2> HIDE DEF G
  <2>5. r \in Seq(G)
    BY <2>1, <2>2, <2>4, Narrower
  <2> QED BY <2>2, <2>5
<1>4. <<>> \in Seq(G)
  OBVIOUS
<1> HIDE DEF G
<1>5. /\ handle_calls(func) \in Seq(G) /\ handle_usages(s, func) \in Seq(G)
      /\ handle_throws(func) \in Seq(G) /\ handle_readwrites(func) \in Seq(G)
      /\ handle_type_refs(s) \in Seq(G) /\ handle_env_accesses(func) \in Seq(G)
      /\ handle_type_assigns(func) \in Seq(G)
  <2> HIDE DEF func
  <2>1. handle_calls(func) \in Seq(G)
    BY <1>2, <1>4 DEF handle_calls, Arrays
  <2>2. handle_usages(s, func) \in Seq(G)
    BY <1>2, <1>4 DEF handle_usages, Arrays
  <2>3. handle_throws(func) \in Seq(G)
    BY <1>2, <1>4 DEF handle_throws, Arrays
  <2>4. handle_readwrites(func) \in Seq(G)
    BY <1>2, <1>4 DEF handle_readwrites, Arrays
  <2>5. handle_type_refs(s) \in Seq(G)
    BY <1>3
  <2>6. handle_env_accesses(func) \in Seq(G)
    BY <1>2, <1>4 DEF handle_env_accesses, Arrays
  <2>7. handle_type_assigns(func) \in Seq(G)
    BY <1>2, <1>4 DEF handle_type_assigns, Arrays
  <2> QED BY <2>1, <2>2, <2>3, <2>4, <2>5, <2>6, <2>7
<1>6. Handled(s) \in Seq(G)
  <2>1. \A a, b \in Seq(G) : a \o b \in Seq(G)
    OBVIOUS
  <2>2. Handled(s) = handle_calls(func) \o handle_usages(s, func) \o handle_throws(func)
          \o handle_readwrites(func) \o handle_type_refs(s)
          \o handle_env_accesses(func) \o handle_type_assigns(func)
    BY DEF Handled
  <2> HIDE DEF func
  <2> QED BY <1>5, <2>1, <2>2
<1>7. /\ Len(Handled(s)) \in Nat /\ DOMAIN Handled(s) = 1 .. Len(Handled(s))
      /\ \A i \in DOMAIN Handled(s) : Handled(s)[i] \in G
      /\ Handled(s) \in [1 .. Len(Handled(s)) -> G]
  BY <1>6
<1>8. Handled(s) \in [1 .. Len(Handled(s)) -> Works]
  BY <1>7 DEF G
<1> QED BY <1>7, <1>8 DEF G

-----------------------------------------------------------------------------
(* Every step keeps the parser, the arena and the walk in order.           *)

LEMMA TodoFacts ==
  ASSUME WalkInv, todo # <<>>
  PROVE  /\ Head(todo) \in Works /\ Head(todo) = todo[1] /\ Tail(todo) \in Seq(Works)
         /\ 1 \in DOMAIN todo
         /\ \A i \in DOMAIN Tail(todo) : i + 1 \in DOMAIN todo /\ Tail(todo)[i] = todo[i + 1]
         /\ \A i \in DOMAIN todo :
              i = 1 \/ (i - 1 \in DOMAIN Tail(todo) /\ Tail(todo)[i - 1] = todo[i])
<1>1. todo \in Seq(Works)
  BY DEF WalkInv
<1> QED BY <1>1

LEMMA RoomFacts ==
  ASSUME ArraysInv, NEW x \in Arrays
  PROVE  /\ arrays[x] \in [cap : Nat, count : Nat, block : Nat, off : Nat]
         /\ arrays[x].count <= arrays[x].cap
         /\ NewCap(arrays[x]) \in Nat /\ NewCap(arrays[x]) > arrays[x].cap
         /\ NewCap(arrays[x]) * ItemSize \in Nat \ {0}
<1>1. /\ arrays[x] \in [cap : Nat, count : Nat, block : Nat, off : Nat]
      /\ arrays[x].count <= arrays[x].cap
  BY DEF ArraysInv
<1>2. NewCap(arrays[x]) \in Nat /\ NewCap(arrays[x]) > arrays[x].cap
  BY <1>1, ExtractionAssumption DEF NewCap
<1>3. /\ ItemSize \in Nat \ {0}
      /\ \A k \in Nat : k > 0 => k * ItemSize >= ItemSize /\ k * ItemSize \in Nat
  <2>1. ItemSize \in Nat \ {0}
    BY ExtractionAssumption
  <2>2. \A k \in Nat : k > 0 => 0 * ItemSize + ItemSize <= k * ItemSize /\ k * ItemSize \in Nat
    BY <2>1, Products
  <2> QED BY <2>1, <2>2
<1> QED BY <1>1, <1>2, <1>3

LEMMA ParserStep ==
  ASSUME ParserInv, [Next]_vars
  PROVE  ParserInv'
<1> USE DEF ParserInv, Phases, BeforeTree
<1>1. ASSUME NEW f \in Files, Begin(f) PROVE ParserInv'
  <2>1. f # None /\ None \notin DOMAIN Grammar
    BY ExtractionAssumption
  <2>2. pc = "idle" /\ file' = f /\ tree' = tree /\ tree = None
    BY <1>1 DEF Begin
  <2>3. \/ f.lang \in DOMAIN Grammar /\ parser' = [lang |-> f.lang, broken_off |-> FALSE] /\ pc' = "parse"
        \/ pc' = "failed" /\ parser' = parser
    BY <1>1 DEF Begin
  <2>4. parser' \in {None} \union [lang : DOMAIN Grammar, broken_off : BOOLEAN]
    <3>1. parser \in {None} \union [lang : DOMAIN Grammar, broken_off : BOOLEAN]
      OBVIOUS
    <3>2. \A l \in DOMAIN Grammar :
            [lang |-> l, broken_off |-> FALSE] \in [lang : DOMAIN Grammar, broken_off : BOOLEAN]
      OBVIOUS
    <3>3. CASE parser' = parser
      BY <3>1, <3>3
    <3>4. CASE f.lang \in DOMAIN Grammar /\ parser' = [lang |-> f.lang, broken_off |-> FALSE]
      <4>1. parser' \in [lang : DOMAIN Grammar, broken_off : BOOLEAN]
        BY <3>2, <3>4
      <4> QED BY <4>1
    <3> QED BY <2>3, <3>3, <3>4
  <2> QED BY <2>1, <2>2, <2>3, <2>4
<1>2. CASE Parse
  <2>1. /\ pc = "parse" /\ pc' = "definitions" /\ parser' = parser /\ file' = file
        /\ tree' = [lang |-> parser.lang, stale |-> parser.broken_off]
    BY <1>2 DEF Parse
  <2>2. /\ file.lang \in DOMAIN Grammar /\ file \in Files /\ file # None
        /\ parser = [lang |-> file.lang, broken_off |-> FALSE]
    BY <2>1
  <2>3. tree' = [lang |-> file.lang, stale |-> FALSE]
    BY <2>1, <2>2
  <2>4. parser' \in {None} \union [lang : DOMAIN Grammar, broken_off : BOOLEAN]
    BY <2>1
  <2> QED BY <2>1, <2>2, <2>3, <2>4
<1>3. CASE ParseTimeout
  <2>1. /\ pc = "parse" /\ pc' = "failed" /\ file' = file /\ tree' = tree
        /\ parser' = [parser EXCEPT !.broken_off = TRUE]
    BY <1>3 DEF ParseTimeout
  <2>2. /\ file.lang \in DOMAIN Grammar /\ file \in Files /\ file # None /\ tree = None
        /\ parser = [lang |-> file.lang, broken_off |-> FALSE]
    BY <2>1
  <2>3. parser' = [lang |-> file.lang, broken_off |-> TRUE]
    BY <2>1, <2>2
  <2>4. parser' \in {None} \union [lang : DOMAIN Grammar, broken_off : BOOLEAN]
    BY <2>2, <2>3
  <2> QED BY <2>1, <2>2, <2>4
<1>4. CASE WalkDefs
  BY <1>4 DEF WalkDefs
<1>5. CASE ParseImports \/ ParseFallback
  BY <1>5 DEF ParseImports, ParseFallback, MoveOn
<1>6. CASE Visit
  BY <1>6 DEF Visit
<1>7. CASE PushScopes
  <2>1. /\ pc = "scopes" /\ pc' \in {"visit", "convert"}
        /\ UNCHANGED <<parser, file, tree>>
    BY <1>7 DEF PushScopes, Enter
  <2> QED BY <2>1
<1>8. CASE Push
  BY <1>8 DEF Push
<1>9. CASE Convert
  BY <1>9 DEF Convert
<1>10. CASE Free
  BY <1>10 DEF Free
<1>11. CASE UNCHANGED vars
  BY <1>11 DEF vars
<1> QED BY <1>1, <1>2, <1>3, <1>4, <1>5, <1>6, <1>7, <1>8, <1>9, <1>10, <1>11 DEF Next

LEMMA ArenaStep ==
  ASSUME ArenaInv, BlockOrFailure, ParserInv, WalkInv, ArraysInv, [Next]_vars
  PROVE  ArenaInv' /\ BlockOrFailure'
<1>1. ASSUME NEW f \in Files, Begin(f) PROVE ArenaInv' /\ BlockOrFailure'
  BY <1>1, ArenaStarts DEF Begin, BlockOrFailure
<1>2. CASE Push
  <2> DEFINE x == Head(todo).to
             need == NewCap(arrays[x]) * ItemSize
  <2>1. x \in Arrays
    BY <1>2, TodoFacts DEF Push, Works
  <2>2. need \in Nat \ {0}
    BY <2>1, RoomFacts
  <2>3. /\ UNCHANGED arenaVars \/ AllocOK(need) \/ AllocFails(need)
        /\ pc' = pc
    BY <1>2 DEF Push
  <2> HIDE DEF need, x
  <2>4. CASE UNCHANGED arenaVars
    BY <2>3, <2>4, ArenaKept DEF BlockOrFailure, arenaVars
  <2>5. CASE AllocOK(need)
    <3>1. ArenaInv' /\ nblocks' > 0 /\ nblocks' \in Nat
      BY <2>2, <2>5, ArenaAllocates DEF ArenaInv
    <3> QED BY <3>1 DEF BlockOrFailure
  <2>6. CASE AllocFails(need)
    <3>1. ArenaInv' /\ nblocks' = nblocks /\ failures' >= failures
      BY <2>2, <2>6, ArenaRefuses
    <3>2. failures \in Nat /\ failures' \in Nat
      BY <3>1 DEF ArenaInv
    <3> QED BY <2>3, <3>1, <3>2 DEF BlockOrFailure
  <2> QED BY <2>3, <2>4, <2>5, <2>6
<1>3. CASE PushScopes
  <2>1. /\ UNCHANGED arenaVars \/ AllocOK(TextSize) \/ AllocFails(TextSize)
        /\ pc = "scopes"
    BY <1>3 DEF PushScopes
  <2>2. TextSize \in Nat \ {0}
    BY ExtractionAssumption
  <2>3. CASE UNCHANGED arenaVars
    BY <2>1, <2>3, ArenaKept DEF BlockOrFailure, arenaVars
  <2>4. CASE AllocOK(TextSize)
    <3>1. ArenaInv' /\ nblocks' > 0 /\ nblocks' \in Nat
      BY <2>2, <2>4, ArenaAllocates DEF ArenaInv
    <3> QED BY <3>1 DEF BlockOrFailure
  <2>5. CASE AllocFails(TextSize)
    <3>1. ArenaInv' /\ nblocks' = nblocks /\ failures' >= failures
      BY <2>2, <2>5, ArenaRefuses
    <3>2. failures \in Nat /\ failures' \in Nat
      BY <3>1 DEF ArenaInv
    <3> QED BY <2>1, <3>1, <3>2 DEF BlockOrFailure
  <2> QED BY <2>1, <2>3, <2>4, <2>5
<1>4. CASE Free
  BY <1>4, ArenaEnds DEF Free, BlockOrFailure
<1>5. CASE \/ Parse \/ ParseTimeout \/ WalkDefs \/ ParseImports \/ ParseFallback
           \/ Visit \/ Convert
  <2>1. UNCHANGED arenaVars /\ pc # "idle"
    BY <1>5 DEF Parse, ParseTimeout, WalkDefs, ParseImports, ParseFallback, Visit, Convert
  <2> QED BY <2>1, ArenaKept DEF BlockOrFailure, arenaVars
<1>6. CASE UNCHANGED vars
  <2>1. UNCHANGED arenaVars /\ pc' = pc
    BY <1>6 DEF vars
  <2> QED BY <2>1, ArenaKept DEF BlockOrFailure, arenaVars
<1> QED BY <1>1, <1>2, <1>3, <1>4, <1>5, <1>6 DEF Next

LEMMA WalkStep ==
  ASSUME ParserInv, WalkInv, StackInv, [Next]_vars
  PROVE  WalkInv'
<1> USE DEF WalkInv, BeforeTree
<1>1. ASSUME NEW f \in Files, Begin(f) PROVE WalkInv'
  <2>1. /\ pc = "idle" /\ pc' \in {"parse", "failed"} /\ UNCHANGED <<node, depth, todo>>
    BY <1>1 DEF Begin, walkVars
  <2> QED BY <2>1
<1>2. CASE Parse
  <2>1. /\ pc' = "definitions" /\ node' = 1 /\ depth' = depth /\ file' = file
        /\ todo' = <<Item("defs", 1, <<>>)>> /\ file \in Files
    BY <1>2 DEF Parse, ParserInv
  <2>2. 1 \in Nodes'
    BY <2>1, TreeFacts, SameTree
  <2>3. Item("defs", 1, <<>>) \in Works
    BY DEF Item, Works, ItemSet, Arrays
  <2>4. todo' \in Seq(Works)
    BY <2>1, <2>3
  <2> QED BY <2>1, <2>2, <2>4
<1>3. CASE ParseTimeout
  BY <1>3 DEF ParseTimeout, walkVars
<1>4. CASE WalkDefs
  <2>1. /\ pc = "definitions" /\ file' = file /\ depth' = depth /\ file \in Files
        /\ node \in Nodes
        /\ IF node < Len(file.kind) THEN node' = node + 1 /\ pc' = pc
                                   ELSE node' = 1 /\ pc' = "imports"
        /\ todo' = IF Reached(node) THEN DefinitionsAt(node) ELSE <<>>
    BY <1>4 DEF WalkDefs, ParserInv
  <2>2. /\ node \in Nat /\ node > 0 /\ Nodes' = 1 .. Len(file.kind) /\ Len(file.kind) \in Nat
        /\ 1 \in Nodes'
    BY <2>1, TreeFacts, SameTree
  <2>3. pc' \in {"definitions", "imports"} /\ node' \in Nodes' /\ node' \in Nat
    BY <2>1, <2>2
  <2>4. DefinitionsAt(node) \in Seq(Works)
    BY <2>1, DefinitionsFacts
  <2>5. <<>> \in Seq(Works)
    OBVIOUS
  <2>6. todo' \in Seq(Works)
    BY <2>1, <2>4, <2>5
  <2> QED BY <2>1, <2>2, <2>3, <2>6
<1>5. CASE ParseImports \/ ParseFallback
  <2>1. /\ pc' \in {"imports", "fallback", "visit"} /\ file' = file /\ file \in Files
        /\ todo' \in Seq(Works) /\ node' \in Nodes /\ depth' \in Nat
        /\ pc' = "visit" => node' = 1 /\ depth' = 0
    BY <1>5, ImportsFacts
  <2>2. node' \in Nodes' /\ node' \in Nat /\ file'.level[1] = 0
    BY <2>1, TreeFacts, SameTree
  <2> QED BY <2>1, <2>2
<1>6. CASE Visit
  <2>1. /\ pc = "visit" /\ pc' = "scopes" /\ UNCHANGED <<node, depth, file, lost>>
        /\ scopes' = PopExpired(scopes, depth) /\ todo' = Handled(scopes')
        /\ file \in Files /\ node \in Nodes /\ depth = file.level[node]
    BY <1>6 DEF Visit, ParserInv
  <2>2. /\ scopes \in Seq(ScopeSet) /\ StackOf(scopes, Path(node - 1))
    BY <2>1 DEF StackInv, Inside
  <2>3. PICK s : s = PopExpired(scopes, depth)
    OBVIOUS
  <2>4. s \in Seq(ScopeSet) /\ StackOf(s, Ancestors(node))
    BY <2>1, <2>2, <2>3, Popped
  <2>5. Handled(s) \in Seq(Works)
    BY <2>1, <2>4, HandledFacts
  <2>6. todo' = Handled(s)
    BY <1>6, <2>1, <2>3 DEF Visit
  <2>7. node' \in Nodes' /\ depth' = file'.level[node'] /\ node' \in Nat /\ depth' \in Nat
    BY <2>1, SameTree
  <2> QED BY <2>1, <2>5, <2>6, <2>7
<1>7. CASE PushScopes
  <2>1. /\ pc = "scopes" /\ todo = <<>> /\ todo' = todo /\ file' = file /\ file \in Files
        /\ node \in Nodes /\ depth = file.level[node]
    BY <1>7 DEF PushScopes, Enter, ParserInv
  <2>2. IF node < Len(file.kind)
          THEN /\ node' = node + 1 /\ pc' = "visit"
               /\ depth' = depth + (file.level[node + 1] - file.level[node])
          ELSE pc' = "convert" /\ UNCHANGED <<node, depth>>
    BY <1>7 DEF PushScopes, Enter
  <2>3. node \in Nat /\ node > 0 /\ Nodes' = Nodes /\ Nodes = 1 .. Len(file.kind) /\ Len(file.kind) \in Nat
    BY <2>1, TreeFacts, SameTree
  <2>4. CASE node < Len(file.kind)
    <3>1. node + 1 \in Nodes
      BY <2>3, <2>4
    <3>2. file.level[node + 1] \in Nat /\ file.level[node] \in Nat
      BY <2>1, <3>1, TreeFacts
    <3>3. depth' = file.level[node + 1]
      BY <2>1, <2>2, <2>4, <3>2
    <3> QED BY <2>1, <2>2, <2>3, <2>4, <3>1, <3>2, <3>3
  <2>5. CASE ~ (node < Len(file.kind))
    BY <2>1, <2>2, <2>5
  <2> QED BY <2>4, <2>5
<1>8. CASE Push
  <2>1. /\ todo # <<>> /\ todo' = Tail(todo) /\ UNCHANGED <<pc, file, node, depth>>
    BY <1>8 DEF Push, walkVars
  <2>2. Nodes' = Nodes
    BY <2>1, SameTree
  <2> QED BY <2>1, <2>2, TodoFacts
<1>9. CASE Convert
  <2>1. pc' = "free" /\ todo' = <<>> /\ UNCHANGED <<node, depth>>
    BY <1>9 DEF Convert, walkVars
  <2> QED BY <2>1
<1>10. CASE Free
  <2>1. pc' = "idle" /\ todo' = <<>> /\ node' = 0 /\ depth' = 0
    BY <1>10 DEF Free
  <2> QED BY <2>1
<1>11. CASE UNCHANGED vars
  <2>1. UNCHANGED <<pc, todo, node, depth, file>>
    BY <1>11 DEF vars, walkVars
  <2>2. Nodes' = Nodes
    BY <2>1, SameTree
  <2> QED BY <2>1, <2>2
<1> QED BY <1>1, <1>2, <1>3, <1>4, <1>5, <1>6, <1>7, <1>8, <1>9, <1>10, <1>11 DEF Next

LEMMA NamesKept ==
  ASSUME file' = file, lost' = lost
  PROVE  /\ \A m, k : Around(m, k)' = Around(m, k)
         /\ \A m : QualifiedName(m)' = QualifiedName(m) /\ Caller(m)' = Caller(m)
         /\ \A m, k : QNOf(m, k)' = QNOf(m, k)
<1>1. \A m, k : Around(m, k)' = Around(m, k)
  BY SameTree DEF Around
<1>2. \A m : QualifiedName(m)' = QualifiedName(m)
  BY <1>1 DEF QualifiedName
<1>3. ASSUME NEW m PROVE Caller(m)' = Caller(m)
  <2>1. Around(m, "func")' = Around(m, "func")
    BY <1>1
  <2>2. PICK f : f = Max(Around(m, "func"))
    OBVIOUS
  <2>3. Max(Around(m, "func"))' = f
    BY <2>1, <2>2
  <2>4. QualifiedName(f)' = QualifiedName(f)
    BY <1>2
  <2> QED BY <2>1, <2>2, <2>3, <2>4 DEF Caller
<1> QED BY <1>1, <1>2, <1>3 DEF QNOf

LEMMA StackKept ==
  ASSUME file' = file, lost' = lost, NEW s, NEW S, StackOf(s, S)
  PROVE  StackOf(s, S)'
BY SameTree, NamesKept DEF StackOf

LEMMA InsideNext ==
  ASSUME file \in Files, file' = file, node \in Nodes, node' = node + 1, pc' = "visit"
  PROVE  Inside' = Path(node)
<1>1. node \in Nat /\ node' - 1 = node /\ node > 0
  BY TreeFacts
<1>2. Inside' = Path(node - 1)'
  BY DEF Inside
<1>3. Path(node - 1)' = Path(node)
  BY <1>1 DEF Path, Ancestors
<1> QED BY <1>2, <1>3

LEMMA StackStep ==
  ASSUME ParserInv, WalkInv, StackInv, [Next]_vars
  PROVE  StackInv'
<1>1. /\ scopes \in Seq(ScopeSet) /\ Len(scopes) <= MaxScopes
      /\ lost \subseteq Nat \X ScopeKinds
      /\ pc \in BeforeWalk => scopes = <<>> /\ lost = {}
  BY DEF StackInv
<1>2. ASSUME scopes' = scopes, lost' = lost,
             pc' \in {"convert", "free"} \/ (pc \in BeforeWalk /\ pc' \in BeforeWalk)
      PROVE  StackInv'
  BY <1>1, <1>2 DEF StackInv, BeforeWalk
<1>3. ASSUME NEW f \in Files, Begin(f) PROVE StackInv'
  BY <1>2, <1>3 DEF Begin, walkVars, BeforeWalk
<1>4. CASE Parse \/ ParseTimeout
  BY <1>2, <1>4 DEF Parse, ParseTimeout, walkVars, BeforeWalk
<1>5. CASE WalkDefs
  BY <1>2, <1>5 DEF WalkDefs, BeforeWalk
<1>6. CASE ParseImports \/ ParseFallback
  <2>0. /\ pc \in BeforeWalk /\ UNCHANGED <<scopes, lost>> /\ scopes = <<>> /\ lost = {}
        /\ \/ pc' \in BeforeWalk
           \/ pc' = "visit" /\ node' = 1
    BY <1>1, <1>6, ImportsFacts DEF BeforeWalk
  <2> SUFFICES ASSUME pc' = "visit", node' = 1
               PROVE  StackInv'
    BY <1>2, <2>0
  <2>1. scopes' = <<>> /\ lost' = {} /\ pc' = "visit" /\ node' = 1
    BY <2>0
  <2>2. Inside' = {}
    BY <2>1 DEF Inside, Path
  <2>3. DOMAIN scopes' = {}
    BY <2>1
  <2>4. StackOf(scopes, Inside)'
    BY <2>2, <2>3 DEF StackOf
  <2>5. scopes' \in Seq(ScopeSet) /\ Len(scopes') = 0 /\ 0 <= MaxScopes
    BY <2>1, ExtractionAssumption
  <2> QED BY <2>1, <2>4, <2>5 DEF StackInv, BeforeWalk
<1>7. CASE Visit
  <2>1. /\ pc = "visit" /\ pc' = "scopes" /\ UNCHANGED <<node, file, lost>>
        /\ scopes' = PopExpired(scopes, depth)
        /\ file \in Files /\ node \in Nodes /\ depth = file.level[node]
    BY <1>7 DEF Visit, ParserInv, WalkInv
  <2>2. StackOf(scopes, Path(node - 1)) /\ \A p \in lost : p[1] < node
    BY <2>1 DEF StackInv, Inside
  <2>3. PICK s : s = scopes'
    OBVIOUS
  <2>4. PICK S : S = Ancestors(node)
    OBVIOUS
  <2>5. s \in Seq(ScopeSet) /\ Len(s) <= Len(scopes) /\ StackOf(s, S)
    <3>1. s = PopExpired(scopes, file.level[node])
      BY <2>1, <2>3
    <3> QED BY <1>1, <2>1, <2>2, <2>4, <3>1, Popped
  <2>6. StackOf(s, S)'
    BY <2>1, <2>5, StackKept
  <2>7. Inside' = S
    BY <2>1, <2>4 DEF Inside, Ancestors
  <2>8. StackOf(scopes, Inside)'
    BY <2>3, <2>6, <2>7 DEF StackOf
  <2>9. Len(s) <= MaxScopes
    BY <1>1, <2>5, ExtractionAssumption
  <2> QED BY <1>1, <2>1, <2>2, <2>3, <2>5, <2>8, <2>9 DEF StackInv, BeforeWalk
<1>8. CASE PushScopes
  <2>1. /\ pc = "scopes" /\ file' = file
        /\ file \in Files /\ node \in Nodes /\ depth = file.level[node]
        /\ \A p \in lost : p[1] < node
        /\ StackOf(scopes, Ancestors(node))
    BY <1>8 DEF PushScopes, Enter, ParserInv, WalkInv, StackInv, Inside
  <2>2. PICK named : /\ Enter(named)
                     /\ \/ named = <<>>
                        \/ /\ NamedScope(node) # None
                           /\ named = <<Scope(NamedScope(node), ScopeQN(scopes, node))>>
    BY <1>8 DEF PushScopes
  <2>3. PICK n \in Nodes : n = node
    BY <2>1
  <2>4. /\ scopes' \in Seq(ScopeSet) /\ Len(scopes') <= MaxScopes
        /\ lost' \subseteq Nat \X ScopeKinds
        /\ \A p \in lost' : p \in lost \/ p[1] = n
        /\ StackOf(scopes, Path(n))'
    BY <1>1, <2>1, <2>2, <2>3, Entered
  <2>5. \/ node' = n + 1 /\ pc' = "visit"
        \/ pc' = "convert"
    BY <2>2, <2>3 DEF Enter
  <2>6. CASE pc' = "convert"
    BY <2>4, <2>6 DEF StackInv, BeforeWalk
  <2>7. CASE node' = n + 1 /\ pc' = "visit"
    <3>1. Inside' = Path(n)'
      BY <2>1, <2>3, <2>7, InsideNext, SameTree
    <3>2. StackOf(scopes, Inside)'
      BY <2>4, <3>1 DEF StackOf
    <3>3. \A p \in lost' : p[1] < node'
      BY <1>1, <2>1, <2>3, <2>4, <2>7, TreeFacts
    <3> QED BY <2>4, <2>7, <3>2, <3>3 DEF StackInv, BeforeWalk
  <2> QED BY <2>5, <2>6, <2>7
<1>9. CASE Push \/ UNCHANGED vars
  <2>1. UNCHANGED <<pc, file, node, scopes, lost>>
    BY <1>9 DEF Push, vars, walkVars
  <2>2. Inside' = Inside
    BY <2>1 DEF Inside, Path, Ancestors
  <2>3. PICK s, S : s = scopes /\ S = Inside
    OBVIOUS
  <2>4. pc \in {"visit", "scopes"} => StackOf(s, S)
    BY <2>3 DEF StackInv
  <2>5. pc \in {"visit", "scopes"} => StackOf(s, S)'
    BY <2>1, <2>4, StackKept
  <2>6. ASSUME pc \in {"visit", "scopes"} PROVE StackOf(scopes, Inside)'
    <3>1. StackOf(s, S)'
      BY <2>5, <2>6
    <3>2. scopes' = s /\ Inside' = S
      BY <2>1, <2>2, <2>3
    <3> QED BY <3>1, <3>2 DEF StackOf
  <2>7. pc \in {"visit", "scopes"} => \A p \in lost : p[1] < node
    BY DEF StackInv
  <2> QED BY <1>1, <2>1, <2>6, <2>7 DEF StackInv
<1>10. CASE Convert
  BY <1>2, <1>10 DEF Convert, walkVars
<1>11. CASE Free
  <2>1. scopes' = <<>> /\ lost' = {} /\ pc' = "idle"
    BY <1>11 DEF Free
  <2>2. scopes' \in Seq(ScopeSet) /\ Len(scopes') = 0 /\ 0 <= MaxScopes
    BY <2>1, ExtractionAssumption
  <2> QED BY <2>1, <2>2 DEF StackInv, BeforeWalk
<1> QED BY <1>3, <1>4, <1>5, <1>6, <1>7, <1>8, <1>9, <1>10, <1>11 DEF Next

-----------------------------------------------------------------------------
(* Every step keeps the items right.                                       *)

LEMMA RightLater ==
  ASSUME file \in Files, file' = file, NEW n \in Nat, n = node, node' \in Nat, node' >= n,
         lost \subseteq lost', \A p \in lost' : p \in lost \/ p[1] = n,
         NEW x, NEW it, Right(x, it)
  PROVE  Right(x, it)'
<1>1. it.node \in Nodes /\ it.node <= n /\ it.func = Caller(it.node) /\ it.node \in Nat
  BY TreeFacts DEF Right
<1>2. Caller(it.node)' = Caller(it.node)
  <2>1. CASE n \in Nodes
    BY <1>1, <2>1, DroppedLater
  <2>2. CASE n \notin Nodes
    <3>1. \A m \in Nodes : m <= Len(file.kind) /\ m \in Nat
      BY TreeFacts
    <3>2. Len(file.kind) < n
      BY <1>1, <2>2, TreeFacts
    <3>3. PICK l \in Nodes : l = Len(file.kind)
      BY TreeFacts
    <3>4. \A a \in Ancestors(it.node) : a \in Nodes /\ a # n
      BY <1>1, <2>2, Above
    <3>5. \A m \in Nodes : \A k : Around(m, k)' = Around(m, k)
      <4> TAKE m \in Nodes
      <4> TAKE k
      <4>1. \A a \in Ancestors(m) : a # n
        BY <2>2, Above
      <4>2. \A a \in Ancestors(m) : <<a, k>>[1] = a
        OBVIOUS
      <4>3. \A a \in Ancestors(m) : <<a, k>> \in lost' <=> <<a, k>> \in lost
        BY <4>1, <4>2
      <4> QED BY <4>3, SameTree DEF Around
    <3>6. \A m \in Nodes : QualifiedName(m)' = QualifiedName(m)
      BY <3>5 DEF QualifiedName
    <3>7. Around(it.node, "func")' = Around(it.node, "func")
      BY <1>1, <3>5
    <3>8. CASE Around(it.node, "func") = {}
      BY <3>7, <3>8 DEF Caller
    <3>9. CASE Around(it.node, "func") # {}
      <4>1. PICK f \in Nodes : f = Max(Around(it.node, "func"))
        BY <1>1, <3>9, NamesAreNumbers, LastNode
      <4>2. Max(Around(it.node, "func"))' = f
        BY <3>7, <4>1
      <4> QED BY <3>6, <3>7, <3>9, <4>1, <4>2 DEF Caller
    <3> QED BY <3>8, <3>9
  <2> QED BY <2>1, <2>2
<1>3. it.node \in Nodes' /\ it.node <= node'
  BY <1>1, SameTree
<1>4. Ancestors(it.node)' = Ancestors(it.node)
  BY SameTree
<1>5. x = "usages" =>
        \A m \in Ancestors(it.node)' :
          /\ Is(m, "call")' => <<m, "call">> \in lost'
          /\ Is(m, "import")' => <<m, "import">> \in lost'
  BY <1>4, SameTree DEF Right
<1> QED BY <1>1, <1>2, <1>3, <1>5 DEF Right

LEMMA ItemsStep ==
  ASSUME ParserInv, WalkInv, StackInv, ItemsInv, ArraysInv, [Next]_vars
  PROVE  ItemsInv'
<1> USE DEF BeforeWalk
<1>0. /\ "defs" \notin Attributed /\ "imports" \notin Attributed /\ Attributed \subseteq Arrays
      /\ pushed \in [Arrays -> Seq(ItemSet)]
  BY DEF Attributed, Arrays, ArraysInv
<1>1. ASSUME pc \in BeforeWalk, pc' \in BeforeWalk, pushed' = pushed,
             todo' = todo \/ \A i \in DOMAIN todo' : todo'[i].to \in {"defs", "imports"}
      PROVE  ItemsInv'
  <2> SUFFICES ASSUME NEW x \in Attributed
               PROVE  pushed'[x] = <<>> /\ \A i \in DOMAIN todo' : todo'[i].to # x
    BY <1>1 DEF ItemsInv
  <2>1. pushed[x] = <<>> /\ \A i \in DOMAIN todo : todo[i].to # x
    BY <1>1 DEF ItemsInv
  <2> QED BY <1>0, <1>1, <2>1
<1>2. ASSUME NEW f \in Files, Begin(f) PROVE ItemsInv'
  <2>1. pc = "idle" /\ pc' \in {"parse", "failed"} /\ pushed' = pushed /\ todo' = todo
    BY <1>2 DEF Begin, resultVars
  <2> QED BY <1>1, <2>1
<1>3. CASE Parse
  <2>1. /\ pc = "parse" /\ pc' = "definitions" /\ pushed' = pushed
        /\ todo' = <<Item("defs", 1, <<>>)>>
    BY <1>3 DEF Parse, resultVars
  <2>2. \A i \in DOMAIN todo' : todo'[i].to = "defs"
    BY <2>1 DEF Item
  <2> QED BY <1>1, <2>1, <2>2
<1>4. CASE ParseTimeout
  <2>1. pc = "parse" /\ pc' = "failed" /\ pushed' = pushed /\ todo' = todo
    BY <1>4 DEF ParseTimeout, resultVars
  <2> QED BY <1>1, <2>1
<1>5. CASE WalkDefs
  <2>1. /\ pc = "definitions" /\ pc' \in {"definitions", "imports"} /\ pushed' = pushed
        /\ todo' = IF Reached(node) THEN DefinitionsAt(node) ELSE <<>>
        /\ file \in Files /\ node \in Nodes
    BY <1>5 DEF WalkDefs, resultVars, ParserInv, WalkInv
  <2>2. \A i \in DOMAIN DefinitionsAt(node) : DefinitionsAt(node)[i].to = "defs"
    BY <2>1, DefinitionsFacts
  <2>3. CASE Reached(node)
    BY <1>1, <2>1, <2>2, <2>3
  <2>4. CASE ~ Reached(node)
    <3>1. DOMAIN todo' = {}
      BY <2>1, <2>4
    <3> QED BY <1>1, <2>1, <3>1
  <2> QED BY <2>3, <2>4
<1>6. CASE ParseImports \/ ParseFallback
  <2>1. /\ pc \in {"imports", "fallback"} /\ pc' \in {"imports", "fallback", "visit"}
        /\ pushed' = pushed /\ \A i \in DOMAIN todo' : todo'[i].to = "imports"
    BY <1>6, ImportsFacts DEF resultVars
  <2>2. CASE pc' \in {"imports", "fallback"}
    BY <1>1, <2>1, <2>2
  <2>3. CASE pc' = "visit"
    <3>1. \A x \in Attributed : pushed'[x] = <<>>
      BY <2>1 DEF ItemsInv
    <3>2. \A x \in Attributed : DOMAIN pushed'[x] = {}
      BY <3>1
    <3> QED BY <1>0, <2>1, <2>3, <3>2 DEF ItemsInv
  <2> QED BY <2>1, <2>2, <2>3
<1>7. ASSUME file \in Files, file' = file, node \in Nat, node' \in Nat, node' >= node,
             pc \notin BeforeWalk, pc' \notin BeforeWalk,
             lost \subseteq lost', \A p \in lost' : p \in lost \/ p[1] = node,
             \A x \in Attributed : \A i \in DOMAIN pushed'[x] :
               \/ i \in DOMAIN pushed[x] /\ pushed'[x][i] = pushed[x][i]
               \/ Right(x, pushed'[x][i]),
             \A x \in Attributed : \A i \in DOMAIN todo' : todo'[i].to = x =>
               Right(x, todo'[i].item)
      PROVE  ItemsInv'
  <2>1. PICK n \in Nat : n = node
    BY <1>7
  <2>2. \A x, it : Right(x, it) => Right(x, it)'
    BY <1>7, <2>1, RightLater
  <2>3. \A x \in Attributed : \A i \in DOMAIN pushed'[x] : Right(x, pushed'[x][i])
    BY <1>7 DEF ItemsInv
  <2>4. ASSUME NEW x \in Attributed, NEW i \in DOMAIN pushed'[x]
        PROVE  Right(x, pushed[x][i])'
    <3>1. PICK it : it = pushed'[x][i]
      OBVIOUS
    <3>2. Right(x, it)'
      BY <2>2, <2>3, <3>1
    <3> QED BY <3>1, <3>2 DEF Right
  <2>5. ASSUME NEW x \in Attributed, NEW i \in DOMAIN todo', todo'[i].to = x
        PROVE  Right(x, todo[i].item)'
    <3>1. PICK it : it = todo'[i].item
      OBVIOUS
    <3>2. Right(x, it)'
      BY <1>7, <2>2, <2>5, <3>1
    <3> QED BY <3>1, <3>2 DEF Right
  <2> QED BY <1>7, <2>4, <2>5 DEF ItemsInv
<1>8. CASE Visit
  <2>1. /\ pc = "visit" /\ pc' = "scopes" /\ UNCHANGED <<node, file, lost, pushed>>
        /\ file \in Files /\ node \in Nodes /\ depth = file.level[node] /\ node \in Nat
    BY <1>8 DEF Visit, ParserInv, WalkInv, resultVars
  <2>2. scopes \in Seq(ScopeSet) /\ StackOf(scopes, Path(node - 1))
    BY <2>1 DEF StackInv, Inside
  <2>3. PICK s : s = PopExpired(scopes, depth)
    OBVIOUS
  <2>4. s \in Seq(ScopeSet) /\ StackOf(s, Ancestors(node))
    BY <2>1, <2>2, <2>3, Popped
  <2>5. todo' = Handled(s)
    BY <1>8, <2>3 DEF Visit
  <2>6. \A x \in Attributed : \A i \in DOMAIN todo' : todo'[i].to = x => Right(x, todo'[i].item)
    BY <2>1, <2>4, <2>5, HandledFacts
  <2> QED BY <1>7, <2>1, <2>6
<1>9. CASE PushScopes
  <2>1. /\ pc = "scopes" /\ file' = file /\ todo' = <<>> /\ pushed' = pushed
        /\ pc' \in {"visit", "convert"} /\ node' \in {node, node + 1}
        /\ file \in Files /\ node \in Nodes /\ depth = file.level[node] /\ node \in Nat
        /\ \A p \in lost : p[1] < node
        /\ StackOf(scopes, Ancestors(node))
        /\ scopes \in Seq(ScopeSet) /\ Len(scopes) <= MaxScopes
        /\ lost \subseteq Nat \X ScopeKinds
    BY <1>9 DEF PushScopes, Enter, ParserInv, WalkInv, StackInv, Inside, resultVars
  <2>2. PICK named : /\ Enter(named)
                     /\ \/ named = <<>>
                        \/ /\ NamedScope(node) # None
                           /\ named = <<Scope(NamedScope(node), ScopeQN(scopes, node))>>
    BY <1>9 DEF PushScopes
  <2>3. PICK n \in Nodes : n = node
    BY <2>1
  <2>4. lost \subseteq lost' /\ \A p \in lost' : p \in lost \/ p[1] = n
    BY <2>1, <2>2, <2>3, Entered
  <2>5. DOMAIN todo' = {}
    BY <2>1
  <2> QED BY <1>7, <2>1, <2>3, <2>4, <2>5
<1>10. CASE Push
  <2>1. /\ todo # <<>> /\ todo' = Tail(todo) /\ UNCHANGED <<pc, file, node, lost>>
        /\ \/ pushed' = pushed
           \/ pushed' = [pushed EXCEPT ![Head(todo).to] = Append(@, Head(todo).item)]
    BY <1>10 DEF Push, Write, walkVars, resultVars
  <2>2. PICK y, it : y = Head(todo).to /\ it = Head(todo).item
    OBVIOUS
  <2>3. /\ y \in Arrays /\ it \in ItemSet /\ y = todo[1].to /\ it = todo[1].item
        /\ 1 \in DOMAIN todo
        /\ \A i \in DOMAIN todo' : i + 1 \in DOMAIN todo /\ todo'[i] = todo[i + 1]
    BY <2>1, <2>2, TodoFacts DEF Works
  <2>4. ASSUME NEW x \in Attributed, NEW i \in DOMAIN pushed'[x]
        PROVE  \/ i \in DOMAIN pushed[x] /\ pushed'[x][i] = pushed[x][i]
               \/ x = y /\ pushed'[x][i] = it
    <3>1. pushed[x] \in Seq(ItemSet)
      BY <1>0
    <3>2. pushed'[x] = pushed[x] \/ (x = y /\ pushed'[x] = Append(pushed[x], it))
      BY <1>0, <2>1, <2>2
    <3>3. CASE pushed'[x] = pushed[x]
      BY <3>3
    <3>4. CASE x = y /\ pushed'[x] = Append(pushed[x], it)
      <4>1. Len(pushed[x]) \in Nat
        BY <3>1
      <4>2. /\ DOMAIN Append(pushed[x], it) = 1 .. Len(pushed[x]) + 1
            /\ DOMAIN pushed[x] = 1 .. Len(pushed[x])
            /\ \A j \in 1 .. Len(pushed[x]) : Append(pushed[x], it)[j] = pushed[x][j]
            /\ Append(pushed[x], it)[Len(pushed[x]) + 1] = it
        BY <2>3, <3>1, AppendFacts
      <4> QED BY <3>4, <4>1, <4>2
    <3> QED BY <3>2, <3>3, <3>4
  <2>5. CASE pc \in BeforeWalk
    <3>1. \A x \in Attributed : pushed[x] = <<>> /\ \A i \in DOMAIN todo : todo[i].to # x
      BY <2>5 DEF ItemsInv
    <3>2. \A x \in Attributed : pushed'[x] = <<>>
      <4> TAKE x \in Attributed
      <4>1. x # y
        BY <2>3, <3>1
      <4> QED BY <1>0, <2>1, <2>2, <3>1, <4>1
    <3>3. pc' \in BeforeWalk
      BY <2>1, <2>5
    <3> QED BY <2>3, <3>1, <3>2, <3>3 DEF ItemsInv
  <2>6. CASE pc \notin BeforeWalk
    <3>1. /\ \A x \in Attributed : \A i \in DOMAIN pushed[x] : Right(x, pushed[x][i])
          /\ \A x \in Attributed : \A i \in DOMAIN todo :
               todo[i].to = x => Right(x, todo[i].item)
      BY <2>6 DEF ItemsInv
    <3>2. \A x \in Attributed : \A i \in DOMAIN pushed'[x] :
            \/ i \in DOMAIN pushed[x] /\ pushed'[x][i] = pushed[x][i]
            \/ Right(x, pushed'[x][i])
      BY <2>3, <2>4, <3>1
    <3>3. \A x \in Attributed : \A i \in DOMAIN todo' : todo'[i].to = x =>
            Right(x, todo'[i].item)
      BY <2>3, <3>1
    <3>4. file \in Files /\ node \in Nat /\ pc' \notin BeforeWalk
      BY <2>1, <2>6 DEF ParserInv, WalkInv
    <3> QED BY <1>7, <2>1, <2>6, <3>2, <3>3, <3>4
  <2> QED BY <2>5, <2>6
<1>11. CASE Convert \/ (UNCHANGED vars /\ pc \notin BeforeWalk)
  <2>1. /\ pc \notin BeforeWalk /\ pc' \notin BeforeWalk
        /\ UNCHANGED <<file, node, lost, todo, pushed>>
    BY <1>11 DEF Convert, vars, walkVars, resultVars
  <2>2. file \in Files /\ node \in Nat
    BY <2>1 DEF ParserInv, WalkInv
  <2>3. \A x \in Attributed : \A i \in DOMAIN todo' : todo'[i].to = x => Right(x, todo'[i].item)
    BY <2>1 DEF ItemsInv
  <2> QED BY <1>7, <2>1, <2>2, <2>3
<1>12. CASE UNCHANGED vars /\ pc \in BeforeWalk
  BY <1>1, <1>12 DEF vars, resultVars
<1>13. CASE Free
  <2>1. /\ pc' = "idle" /\ todo' = <<>> /\ pushed' = [x \in Arrays |-> <<>>]
    BY <1>13 DEF Free, WalkInv, BeforeTree
  <2>2. DOMAIN todo' = {}
    BY <2>1
  <2> QED BY <1>0, <2>1, <2>2 DEF ItemsInv
<1> QED BY <1>2, <1>3, <1>4, <1>5, <1>6, <1>8, <1>9, <1>10, <1>11, <1>12, <1>13 DEF Next

-----------------------------------------------------------------------------
(* Every step keeps the arrays apart and their contents.                   *)

ArraySet == [cap : Nat, count : Nat, block : Nat, off : Nat]

\* What a reader finds in the memory m.
AtIn(m, c) == IF c \in DOMAIN m THEN m[c] ELSE None

LEMMA Stored ==
  ASSUME NEW m, NEW c, NEW v, NEW new,
         DOMAIN new = {c}, new[c] = v, mem' = Store(m, new)
  PROVE  \A d : At(d)' = IF d = c THEN v ELSE AtIn(m, d)
BY DEF At, AtIn, Store

LEMMA CellsApart ==
  ASSUME NEW a \in ArraySet, NEW b \in ArraySet, NEW i \in Nat, NEW j \in Nat,
         i < a.cap, j < b.cap, ~ Overlap(RegionOf(a), RegionOf(b))
  PROVE  Cell(a, i) # Cell(b, j)
<1>1. /\ a.cap \in Nat /\ b.cap \in Nat /\ a.off \in Nat /\ b.off \in Nat
      /\ ItemSize \in Nat \ {0}
  BY ExtractionAssumption DEF ArraySet
<1>2. PICK ai \in Nat, bj \in Nat, ac \in Nat, bc \in Nat :
        /\ ai = i * ItemSize /\ bj = j * ItemSize
        /\ ac = a.cap * ItemSize /\ bc = b.cap * ItemSize
  BY <1>1, Products
<1>3. ai + ItemSize <= ac /\ bj + ItemSize <= bc
  BY <1>1, <1>2, Products
<1>4. SUFFICES ASSUME Cell(a, i) = Cell(b, j) PROVE FALSE
  OBVIOUS
<1>5. a.block = b.block /\ a.off + ai = b.off + bj
  BY <1>2, <1>4 DEF Cell
<1>6. a.off < b.off + bc /\ b.off < a.off + ac
  BY <1>1, <1>3, <1>5
<1> QED BY <1>2, <1>5, <1>6 DEF Overlap, RegionOf, Region

LEMMA CellsOfOne ==
  ASSUME NEW a \in ArraySet, NEW i \in Nat, NEW j \in Nat, Cell(a, i) = Cell(a, j)
  PROVE  i = j
<1>1. a.off \in Nat /\ ItemSize \in Nat /\ ItemSize > 0
  BY ExtractionAssumption DEF ArraySet
<1>2. PICK ai \in Nat, aj \in Nat : ai = i * ItemSize /\ aj = j * ItemSize
  BY <1>1, Products
<1>3. ai = aj
  BY <1>1, <1>2 DEF Cell
<1> QED BY <1>1, <1>2, <1>3, Products

LEMMA OverlapBothWays ==
  ASSUME NEW r, NEW s, ~ Overlap(r, s)
  PROVE  ~ Overlap(s, r)
BY DEF Overlap

\* The items are at the new address, and what was elsewhere is still there.
LEMMA CopiedFacts ==
  ASSUME NEW a \in ArraySet, NEW p, Moved(a, p) \in ArraySet
  PROVE  /\ \A i \in 0 .. a.count - 1 :
              AtIn(Copied(a, p), Cell(Moved(a, p), i)) = At(Cell(a, i))
         /\ \A d : (\A i \in 0 .. a.count - 1 : d # Cell(Moved(a, p), i)) =>
              AtIn(Copied(a, p), d) = At(d)
<1> DEFINE new == Moved(a, p)
           R == 0 .. a.count - 1
           C == {Cell(new, i) : i \in R}
           copy == [c \in C |-> At(Cell(a, CHOOSE i \in R : c = Cell(new, i)))]
<1>1. Copied(a, p) = Store(mem, copy)
  BY DEF Copied
<1>2. \A d : AtIn(Store(mem, copy), d) = IF d \in C THEN copy[d] ELSE At(d)
  <2> HIDE DEF C
  <2> QED BY DEF AtIn, At, Store
<1>3. ASSUME NEW i \in R PROVE copy[Cell(new, i)] = At(Cell(a, i))
  <2>1. \A j \in R : Cell(new, i) = Cell(new, j) => i = j
    <3>1. \A j \in R : j \in Nat
      BY DEF ArraySet
    <3> HIDE DEF new, R
    <3> QED BY <3>1, CellsOfOne DEF new
  <2>2. PICK k : k = CHOOSE j \in R : Cell(new, i) = Cell(new, j)
    OBVIOUS
  <2>3. k \in R /\ Cell(new, i) = Cell(new, k)
    BY <2>2
  <2>4. k = i
    BY <2>1, <2>3
  <2>5. Cell(new, i) \in C
    OBVIOUS
  <2> HIDE DEF new, R
  <2> QED BY <2>2, <2>4, <2>5
<1> HIDE DEF new, R, copy
<1>4. \A i \in R : Cell(new, i) \in C
  OBVIOUS
<1>5. \A d : (\A i \in R : d # Cell(new, i)) => d \notin C
  OBVIOUS
<1> HIDE DEF C
<1> QED BY <1>1, <1>2, <1>3, <1>4, <1>5 DEF new, R

\* An item written into an array that has room and lies apart from the others.
LEMMA Written ==
  ASSUME ArraysInv, NEW x \in Arrays, NEW a \in ArraySet, NEW m, NEW item \in ItemSet,
         Write(a, m, x, item),
         a.count = arrays[x].count, a.count < a.cap,
         \A i \in 1 .. a.count : AtIn(m, Cell(a, i - 1)) = pushed[x][i],
         \A y \in Arrays : y # x /\ arrays[y].cap > 0 =>
           ~ Overlap(RegionOf(a), RegionOf(arrays[y])),
         \A y \in Arrays : y # x =>
           \A i \in 1 .. arrays[y].count :
             AtIn(m, Cell(arrays[y], i - 1)) = At(Cell(arrays[y], i - 1)),
         \E i \in DOMAIN regions' : regions'[i] = RegionOf(a),
         \A i \in DOMAIN regions : i \in DOMAIN regions' /\ regions'[i] = regions[i],
         pc' = pc, pc \notin {"idle", "free"}
  PROVE  ArraysInv'
<1> DEFINE b == [a EXCEPT !.count = a.count + 1]
<1>1. /\ arrays \in [Arrays -> ArraySet] /\ pushed \in [Arrays -> Seq(ItemSet)]
      /\ \A y \in Arrays : /\ arrays[y].count <= arrays[y].cap
                           /\ Len(pushed[y]) = arrays[y].count
                           /\ arrays[y].count \in Nat /\ arrays[y].cap \in Nat
  BY DEF ArraysInv, ArraySet
<1>2. /\ b \in ArraySet /\ b.count = a.count + 1 /\ b.cap = a.cap
      /\ b.block = a.block /\ b.off = a.off
      /\ a.count \in Nat /\ a.cap \in Nat
  BY DEF ArraySet
<1>3. /\ arrays' = [arrays EXCEPT ![x] = b]
      /\ mem' = Store(m, [c \in {Cell(a, a.count)} |-> item])
      /\ pushed' = [pushed EXCEPT ![x] = Append(pushed[x], item)]
  BY DEF Write
<1> HIDE DEF b
<1>4. /\ arrays' \in [Arrays -> ArraySet] /\ arrays'[x] = b
      /\ \A y \in Arrays : y # x => arrays'[y] = arrays[y]
  BY <1>1, <1>2, <1>3
<1>5. /\ pushed[x] \in Seq(ItemSet)
      /\ Append(pushed[x], item) \in Seq(ItemSet)
      /\ Len(Append(pushed[x], item)) = a.count + 1
      /\ \A i \in 1 .. a.count : Append(pushed[x], item)[i] = pushed[x][i]
      /\ Append(pushed[x], item)[a.count + 1] = item
  <2>1. pushed[x] \in Seq(ItemSet) /\ Len(pushed[x]) = a.count
    BY <1>1
  <2> QED BY <2>1, AppendFacts
<1>6. /\ pushed' \in [Arrays -> Seq(ItemSet)] /\ pushed'[x] = Append(pushed[x], item)
      /\ \A y \in Arrays : y # x => pushed'[y] = pushed[y]
  BY <1>1, <1>3, <1>5
<1>7. \A c : Cell(b, c) = Cell(a, c)
  BY <1>2 DEF Cell
<1>8. RegionOf(b) = RegionOf(a)
  BY <1>2 DEF RegionOf
<1>9. \A d : At(d)' = IF d = Cell(a, a.count) THEN item ELSE AtIn(m, d)
  <2>1. PICK new : new = [c \in {Cell(a, a.count)} |-> item]
    OBVIOUS
  <2>2. DOMAIN new = {Cell(a, a.count)} /\ new[Cell(a, a.count)] = item
    BY <2>1
  <2>3. mem' = Store(m, new)
    BY <1>3, <2>1
  <2> QED BY <2>2, <2>3, Stored
<1>10. ASSUME NEW i \in 1 .. b.count PROVE At(Cell(b, i - 1))' = pushed'[x][i]
  <2>1. PICK c : c = Cell(a, i - 1)
    OBVIOUS
  <2>2. i \in Nat /\ i - 1 \in Nat
    BY <1>2
  <2>3. CASE i = a.count + 1
    <3>1. c = Cell(a, a.count)
      BY <1>2, <2>1, <2>3
    <3>2. At(c)' = item
      BY <1>9, <3>1
    <3>3. Cell(b, i - 1)' = c
      BY <1>2, <2>1, <1>7 DEF Cell
    <3> QED BY <1>5, <1>6, <2>3, <3>2, <3>3 DEF At
  <2>4. CASE i # a.count + 1
    <3>1. i \in 1 .. a.count
      BY <1>2, <2>4
    <3>2. c # Cell(a, a.count)
      BY <1>2, <2>1, <2>2, <3>1, CellsOfOne
    <3>3. At(c)' = pushed[x][i]
      BY <1>9, <2>1, <3>1, <3>2
    <3>4. Cell(b, i - 1)' = c
      BY <1>2, <2>1, <1>7 DEF Cell
    <3> QED BY <1>5, <1>6, <3>1, <3>3, <3>4 DEF At
  <2> QED BY <2>3, <2>4
<1>11. ASSUME NEW y \in Arrays, y # x, NEW i \in 1 .. arrays[y].count
       PROVE  At(Cell(arrays[y], i - 1))' = pushed[y][i]
  <2>1. PICK g \in ArraySet : g = arrays[y]
    BY <1>1
  <2>2. PICK c : c = Cell(g, i - 1)
    OBVIOUS
  <2>3. g.count \in Nat /\ g.cap \in Nat /\ g.count <= g.cap /\ i \in 1 .. g.count
    BY <1>1, <1>11, <2>1
  <2>4. i - 1 \in Nat /\ i - 1 < g.cap /\ g.cap > 0
    BY <2>3
  <2>5. c # Cell(a, a.count)
    <3>1. ~ Overlap(RegionOf(a), RegionOf(g))
      BY <1>11, <2>1, <2>4
    <3> QED BY <1>2, <2>2, <2>4, <3>1, CellsApart
  <2>6. At(c)' = AtIn(m, c)
    BY <1>9, <2>5
  <2>7. AtIn(m, c) = At(Cell(arrays[y], i - 1))
    BY <1>11, <2>1, <2>2
  <2>8. At(Cell(arrays[y], i - 1)) = pushed[y][i]
    BY <1>11 DEF ArraysInv
  <2>9. arrays'[y] = g
    BY <1>4, <1>11, <2>1
  <2>10. Cell(arrays[y], i - 1)' = c
    BY <2>2, <2>9 DEF Cell
  <2> QED BY <2>6, <2>7, <2>8, <2>10 DEF At
<1>12. ASSUME NEW y \in Arrays
       PROVE  /\ arrays'[y].count <= arrays'[y].cap
              /\ arrays'[y].cap > 0 => \E i \in DOMAIN regions' : regions'[i] = RegionOf(arrays'[y])
              /\ Len(pushed'[y]) = arrays'[y].count
              /\ \A i \in 1 .. arrays'[y].count : At(Cell(arrays[y], i - 1))' = pushed'[y][i]
  <2>1. CASE y = x
    <3>1. \A i \in 1 .. b.count : At(Cell(arrays[y], i - 1))' = pushed'[y][i]
      <4> TAKE i \in 1 .. b.count
      <4>1. At(Cell(b, i - 1))' = pushed'[x][i]
        BY <1>10
      <4>2. arrays'[y] = b
        BY <1>4, <2>1
      <4>3. Cell(arrays[y], i - 1)' = Cell(b, i - 1)'
        BY <4>2 DEF Cell
      <4> QED BY <2>1, <4>1, <4>3 DEF At
    <3> QED BY <1>2, <1>4, <1>5, <1>6, <1>8, <2>1, <3>1
  <2>2. CASE y # x
    <3>1. arrays[y].cap > 0 => \E i \in DOMAIN regions : regions[i] = RegionOf(arrays[y])
      BY DEF ArraysInv
    <3>2. arrays'[y] = arrays[y] /\ pushed'[y] = pushed[y]
      BY <1>4, <1>6, <2>2
    <3>3. \A i \in 1 .. arrays[y].count : At(Cell(arrays[y], i - 1))' = pushed[y][i]
      BY <1>11, <2>2
    <3> QED BY <1>1, <3>1, <3>2, <3>3
  <2> QED BY <2>1, <2>2
<1>13. ASSUME NEW y \in Arrays, NEW z \in Arrays, y # z, arrays'[y].cap > 0, arrays'[z].cap > 0
       PROVE  ~ Overlap(RegionOf(arrays'[y]), RegionOf(arrays'[z]))
  <2>1. CASE y = x
    <3>1. arrays'[z] = arrays[z] /\ arrays'[y] = b
      BY <1>4, <1>13, <2>1
    <3> QED BY <1>8, <1>13, <2>1, <3>1
  <2>2. CASE z = x
    <3>1. arrays'[y] = arrays[y] /\ arrays'[z] = b
      BY <1>4, <1>13, <2>2
    <3>2. ~ Overlap(RegionOf(a), RegionOf(arrays[y]))
      BY <1>13, <2>2, <3>1
    <3> QED BY <1>8, <3>1, <3>2, OverlapBothWays
  <2>3. CASE y # x /\ z # x
    BY <1>4, <1>13, <2>3 DEF ArraysInv
  <2> QED BY <2>1, <2>2, <2>3
<1>14. \A r, s : Overlap(r, s)' = Overlap(r, s) /\ RegionOf(r)' = RegionOf(r)
  BY DEF Overlap, RegionOf, Region
<1> QED BY <1>4, <1>6, <1>12, <1>13 DEF ArraysInv, ArraySet, Overlap, RegionOf, Region

LEMMA ArraysStep ==
  ASSUME ArenaInv, ParserInv, WalkInv, ArraysInv, [Next]_vars
  PROVE  ArraysInv'
<1>1. ASSUME UNCHANGED <<arrays, pushed, mem>>, pc' # "idle", pc' = "free" => out' = pushed',
             \A i \in DOMAIN regions : i \in DOMAIN regions' /\ regions'[i] = regions[i]
      PROVE  ArraysInv'
  <2>1. \A c : At(c)' = At(c)
    BY <1>1 DEF At
  <2>2. \A x, i : Cell(arrays[x], i)' = Cell(arrays[x], i)
    BY <1>1 DEF Cell
  <2>3. ASSUME NEW x \in Arrays, NEW i \in 1 .. arrays[x].count
        PROVE  At(Cell(arrays[x], i - 1))' = pushed[x][i]
    <3>1. PICK c : c = Cell(arrays[x], i - 1)
      OBVIOUS
    <3>2. At(c)' = pushed[x][i]
      BY <2>1, <3>1 DEF ArraysInv
    <3>3. Cell(arrays[x], i - 1)' = c
      BY <1>1, <3>1 DEF Cell
    <3> QED BY <3>2, <3>3 DEF At
  <2>4. \A x \in Arrays : arrays[x].cap > 0 =>
          \E i \in DOMAIN regions' : regions'[i] = RegionOf(arrays[x])
    BY <1>1 DEF ArraysInv
  <2>5. \A x \in Arrays : /\ arrays[x].count <= arrays[x].cap
                          /\ Len(pushed[x]) = arrays[x].count
    BY DEF ArraysInv
  <2>6. \A x, y \in Arrays : x # y /\ arrays[x].cap > 0 /\ arrays[y].cap > 0 =>
          ~ Overlap(RegionOf(arrays[x]), RegionOf(arrays[y]))
    BY DEF ArraysInv
  <2>7. /\ arrays \in [Arrays -> [cap : Nat, count : Nat, block : Nat, off : Nat]]
        /\ pushed \in [Arrays -> Seq(ItemSet)]
    BY DEF ArraysInv
  <2> QED BY <1>1, <2>3, <2>4, <2>5, <2>6, <2>7 DEF ArraysInv, Overlap, RegionOf, Region
<1>2. ASSUME ArenaInv
      PROVE  \A n \in Nat \ {0} : AllocOK(n) =>
               \A i \in DOMAIN regions : i \in DOMAIN regions' /\ regions'[i] = regions[i]
  <2> TAKE n \in Nat \ {0}
  <2> HAVE AllocOK(n)
  <2>1. regions' = Append(regions, Place(n)) /\ Place(n) \in [block : Nat, off : Nat, len : Nat]
    BY ArenaAllocates
  <2>2. regions \in Seq([block : Nat, off : Nat, len : Nat])
    BY DEF ArenaInv
  <2>3. Len(regions) \in Nat
    BY <2>2
  <2> QED BY <2>1, <2>2, <2>3, AppendFacts
<1>3. ASSUME NEW f \in Files, Begin(f) PROVE ArraysInv'
  <2>1. /\ pc = "idle" /\ pc' \in {"parse", "failed"} /\ UNCHANGED <<arrays, mem, pushed>>
    BY <1>3 DEF Begin, resultVars
  <2>2. arrays = [x \in Arrays |-> EmptyArray] /\ pushed = [x \in Arrays |-> <<>>]
    BY <2>1 DEF ArraysInv
  <2>3. \A x \in Arrays : arrays[x].cap = 0 /\ arrays[x].count = 0 /\ Len(pushed[x]) = 0
    BY <2>2 DEF EmptyArray
  <2>4. /\ arrays \in [Arrays -> [cap : Nat, count : Nat, block : Nat, off : Nat]]
        /\ pushed \in [Arrays -> Seq(ItemSet)]
    BY DEF ArraysInv
  <2> QED BY <2>1, <2>3, <2>4 DEF ArraysInv
<1>4. CASE Parse \/ ParseTimeout \/ WalkDefs \/ ParseImports \/ ParseFallback \/ Visit
  <2>1. UNCHANGED <<arrays, pushed, mem, regions>> /\ pc' \notin {"idle", "free"}
    BY <1>4 DEF Parse, ParseTimeout, WalkDefs, ParseImports, ParseFallback, MoveOn, Visit,
                resultVars, arenaVars, ParserInv
  <2> QED BY <1>1, <2>1
<1>5. CASE PushScopes
  <2>1. /\ UNCHANGED <<arrays, pushed, mem>> /\ pc' \in {"visit", "convert"}
        /\ \/ UNCHANGED arenaVars
           \/ AllocOK(TextSize)
           \/ AllocFails(TextSize)
    BY <1>5 DEF PushScopes, Enter, resultVars
  <2>2. TextSize \in Nat \ {0}
    BY ExtractionAssumption
  <2>3. \A i \in DOMAIN regions : i \in DOMAIN regions' /\ regions'[i] = regions[i]
    <3>1. CASE regions' = regions
      BY <3>1
    <3>2. CASE AllocOK(TextSize)
      BY <1>2, <2>2, <3>2
    <3> QED BY <2>1, <3>1, <3>2 DEF AllocFails, arenaVars
  <2> QED BY <1>1, <2>1, <2>3
<1>6. CASE Push
  <2> DEFINE x == Head(todo).to
             item == Head(todo).item
             a == arrays[x]
             need == NewCap(a) * ItemSize
             p == Place(need)
  <2>1. /\ todo # <<>> /\ x \in Arrays /\ item \in ItemSet
        /\ pc' = pc /\ out' = out /\ pc \notin {"idle", "free"}
    BY <1>6, TodoFacts DEF Push, Works, WalkInv, BeforeTree
  <2>2. /\ a \in ArraySet /\ a.count <= a.cap /\ a.count \in Nat /\ a.cap \in Nat
        /\ NewCap(a) \in Nat /\ NewCap(a) > a.cap /\ need \in Nat \ {0}
    BY <2>1, RoomFacts DEF ArraySet
  <2>3. \/ a.count < a.cap /\ Write(a, mem, x, item) /\ UNCHANGED arenaVars
        \/ a.count >= a.cap /\ AllocOK(need) /\ Write(Moved(a, p), Copied(a, p), x, item)
        \/ a.count >= a.cap /\ AllocFails(need) /\ UNCHANGED resultVars
    BY <1>6 DEF Push
  <2>4. \A i \in 1 .. a.count : At(Cell(a, i - 1)) = pushed[x][i]
    BY <2>1 DEF ArraysInv
  <2>5. /\ a.cap > 0 => \E i \in DOMAIN regions : regions[i] = RegionOf(a)
        /\ \A y \in Arrays : y # x /\ a.cap > 0 /\ arrays[y].cap > 0 =>
             ~ Overlap(RegionOf(a), RegionOf(arrays[y]))
        /\ \A y \in Arrays : arrays[y].cap > 0 =>
             \E i \in DOMAIN regions : regions[i] = RegionOf(arrays[y])
        /\ \A y \in Arrays : arrays[y] \in ArraySet /\ arrays[y].count <= arrays[y].cap
    BY <2>1 DEF ArraysInv, ArraySet
  <2> HIDE DEF x, item
  <2>6. CASE a.count < a.cap /\ Write(a, mem, x, item) /\ UNCHANGED arenaVars
    <3>1. \A c : AtIn(mem, c) = At(c)
      BY DEF AtIn, At
    <3>2. regions' = regions
      BY <2>6 DEF arenaVars
    <3>3. a.cap > 0
      BY <2>2, <2>6
    <3> HIDE DEF a
    <3>4. /\ \A i \in 1 .. a.count : AtIn(mem, Cell(a, i - 1)) = pushed[x][i]
          /\ \A y \in Arrays : y # x => \A i \in 1 .. arrays[y].count :
               AtIn(mem, Cell(arrays[y], i - 1)) = At(Cell(arrays[y], i - 1))
          /\ \E i \in DOMAIN regions' : regions'[i] = RegionOf(a)
          /\ \A i \in DOMAIN regions : i \in DOMAIN regions' /\ regions'[i] = regions[i]
          /\ \A y \in Arrays : y # x /\ arrays[y].cap > 0 =>
               ~ Overlap(RegionOf(a), RegionOf(arrays[y]))
      BY <2>4, <2>5, <3>1, <3>2, <3>3
    <3>5. a.count = arrays[x].count
      BY DEF a
    <3> QED BY <2>1, <2>2, <2>6, <3>4, <3>5, Written
  <2>7. CASE a.count >= a.cap /\ AllocOK(need) /\ Write(Moved(a, p), Copied(a, p), x, item)
    <3> DEFINE new == Moved(a, p)
               m == Copied(a, p)
    <3>1. /\ p \in [block : Nat, off : Nat, len : Nat] /\ p.len = need
          /\ regions' = Append(regions, p)
          /\ \A i \in DOMAIN regions : ~ Overlap(regions[i], p) /\ ~ Overlap(p, regions[i])
      BY <2>2, <2>7, ArenaAllocates
    <3>2. /\ regions \in Seq([block : Nat, off : Nat, len : Nat]) /\ Len(regions) \in Nat
      BY DEF ArenaInv
    <3>3. /\ \A i \in DOMAIN regions : i \in DOMAIN regions' /\ regions'[i] = regions[i]
          /\ Len(regions) + 1 \in DOMAIN regions' /\ regions'[Len(regions) + 1] = p
      <4> HIDE DEF p
      <4> QED BY <3>1, <3>2, AppendFacts
    <3>4. /\ new \in ArraySet /\ new.count = a.count /\ new.cap = NewCap(a)
          /\ new.block = p.block /\ new.off = p.off
      BY <2>2, <3>1 DEF Moved, ArraySet
    <3>5. RegionOf(new) = p
      <4>1. RegionOf(new) = Region(p.block, p.off, p.len)
        BY <3>1, <3>4 DEF RegionOf
      <4> HIDE DEF p
      <4> QED BY <3>1, <4>1 DEF Region
    <3>6. /\ \A i \in 0 .. a.count - 1 : AtIn(m, Cell(new, i)) = At(Cell(a, i))
          /\ \A d : (\A i \in 0 .. a.count - 1 : d # Cell(new, i)) => AtIn(m, d) = At(d)
      BY <2>2, <3>4, CopiedFacts
    <3>7. \A y \in Arrays : y # x /\ arrays[y].cap > 0 => ~ Overlap(p, RegionOf(arrays[y]))
      BY <2>5, <3>1
    <3> HIDE DEF new, m, p, a, need
    <3>8. \A i \in 1 .. new.count : AtIn(m, Cell(new, i - 1)) = pushed[x][i]
      <4> TAKE i \in 1 .. new.count
      <4>1. i \in 1 .. a.count /\ i - 1 \in 0 .. a.count - 1
        BY <2>2, <3>4
      <4> QED BY <2>4, <3>6, <4>1
    <3>9. ASSUME NEW y \in Arrays, y # x, NEW i \in 1 .. arrays[y].count
          PROVE  AtIn(m, Cell(arrays[y], i - 1)) = At(Cell(arrays[y], i - 1))
      <4>1. PICK g \in ArraySet : g = arrays[y] /\ g.count <= g.cap
        BY <2>5
      <4>2. g.count \in Nat /\ g.cap \in Nat /\ i \in Nat /\ i - 1 \in Nat /\ i - 1 < g.cap
            /\ g.cap > 0
        BY <3>9, <4>1 DEF ArraySet
      <4>3. ~ Overlap(RegionOf(new), RegionOf(g))
        BY <3>5, <3>7, <3>9, <4>1, <4>2
      <4>4. \A j \in 0 .. a.count - 1 : Cell(g, i - 1) # Cell(new, j)
        <5> TAKE j \in 0 .. a.count - 1
        <5>1. j \in Nat /\ j < new.cap
          BY <2>2, <3>4
        <5> QED BY <3>4, <4>2, <4>3, <5>1, CellsApart
      <4> QED BY <3>6, <4>1, <4>4
    <3>10. Write(new, m, x, item)
      BY <2>7 DEF new, m
    <3>11. new.count = arrays[x].count /\ new.count < new.cap
      BY <2>2, <3>4, <2>7 DEF a
    <3>12. /\ \A y \in Arrays : y # x /\ arrays[y].cap > 0 =>
                ~ Overlap(RegionOf(new), RegionOf(arrays[y]))
           /\ \E i \in DOMAIN regions' : regions'[i] = RegionOf(new)
      BY <3>3, <3>5, <3>7
    <3> QED BY <2>1, <3>3, <3>4, <3>8, <3>9, <3>10, <3>11, <3>12, Written
  <2>8. CASE AllocFails(need) /\ UNCHANGED resultVars
    <3>1. UNCHANGED <<arrays, pushed, mem, regions>>
      BY <2>8 DEF resultVars, AllocFails
    <3> QED BY <1>1, <2>1, <3>1
  <2> QED BY <2>3, <2>6, <2>7, <2>8
<1>7. CASE Convert
  <2>1. /\ UNCHANGED <<arrays, pushed, mem, regions>> /\ pc' = "free"
        /\ out' = [x \in Arrays |-> Contents(x)]
    BY <1>7 DEF Convert, resultVars, arenaVars
  <2>2. \A x \in Arrays : Contents(x) = pushed[x]
    <3> TAKE x \in Arrays
    <3>1. /\ pushed[x] \in Seq(ItemSet) /\ Len(pushed[x]) = arrays[x].count
          /\ \A i \in 1 .. arrays[x].count : At(Cell(arrays[x], i - 1)) = pushed[x][i]
      BY DEF ArraysInv
    <3>2. pushed[x] = [i \in 1 .. arrays[x].count |-> pushed[x][i]]
      BY <3>1
    <3>3. Contents(x) = [i \in 1 .. arrays[x].count |-> pushed[x][i]]
      BY <3>1 DEF Contents
    <3> QED BY <3>2, <3>3
  <2>3. pushed = [x \in Arrays |-> pushed[x]]
    BY DEF ArraysInv
  <2>4. out' = pushed'
    BY <2>1, <2>2, <2>3
  <2> QED BY <1>1, <2>1, <2>4
<1>8. CASE Free
  <2>1. /\ arrays' = [x \in Arrays |-> EmptyArray] /\ pushed' = [x \in Arrays |-> <<>>]
        /\ pc' = "idle"
    BY <1>8 DEF Free
  <2>2. EmptyArray \in [cap : Nat, count : Nat, block : Nat, off : Nat]
        /\ EmptyArray.cap = 0 /\ EmptyArray.count = 0
    BY DEF EmptyArray
  <2>3. <<>> \in Seq(ItemSet) /\ Len(<<>>) = 0
    OBVIOUS
  <2>4. \A x \in Arrays : arrays'[x] = EmptyArray /\ pushed'[x] = <<>>
    BY <2>1
  <2>5. /\ arrays' \in [Arrays -> [cap : Nat, count : Nat, block : Nat, off : Nat]]
        /\ pushed' \in [Arrays -> Seq(ItemSet)]
    BY <2>1, <2>2, <2>3
  <2> QED BY <2>1, <2>2, <2>3, <2>4, <2>5 DEF ArraysInv
<1>9. CASE UNCHANGED vars
  <2>1. UNCHANGED <<arrays, pushed, mem, regions, pc, out>>
    BY <1>9 DEF vars, resultVars, arenaVars
  <2>2. CASE pc = "idle"
    <3>1. /\ arrays = [x \in Arrays |-> EmptyArray] /\ pushed = [x \in Arrays |-> <<>>]
      BY <2>2 DEF ArraysInv
    <3>2. \A x \in Arrays : arrays[x].cap = 0 /\ arrays[x].count = 0 /\ Len(pushed[x]) = 0
      BY <3>1 DEF EmptyArray
    <3>3. /\ arrays \in [Arrays -> [cap : Nat, count : Nat, block : Nat, off : Nat]]
          /\ pushed \in [Arrays -> Seq(ItemSet)]
      BY DEF ArraysInv
    <3> QED BY <2>1, <2>2, <3>1, <3>2, <3>3 DEF ArraysInv
  <2>3. CASE pc # "idle"
    <3>1. pc = "free" => out = pushed
      BY DEF ArraysInv
    <3> QED BY <1>1, <2>1, <2>3, <3>1
  <2> QED BY <2>2, <2>3
<1> QED BY <1>3, <1>4, <1>5, <1>6, <1>7, <1>8, <1>9 DEF Next

-----------------------------------------------------------------------------
(* Every step keeps the definitions of the nodes that were walked.         *)

LEMMA SameDefinitions ==
  ASSUME file' = file
  PROVE  \A n : Reached(n)' = Reached(n) /\ DefinitionsAt(n)' = DefinitionsAt(n)
<1>1. \A n, k : Is(n, k)' = Is(n, k)
  BY SameTree
<1>2. \A n : Ancestors(n)' = Ancestors(n) /\ Parent(n)' = Parent(n)
  BY SameTree DEF Parent
<1>3. \A n : Children(n)' = Children(n)
  BY <1>2, SameTree DEF Children
<1>4. \A n : Resolves(n)' = Resolves(n)
  BY <1>1, <1>2 DEF Resolves, HasName
<1>5. ASSUME NEW n PROVE Methods(n)' = Methods(n)
  <2>1. PICK M : M = {m \in Children(n) : Is(m, "function") /\ Resolves(m)}
    OBVIOUS
  <2>2. {m \in Children(n) : Is(m, "function") /\ Resolves(m)}' = M
    BY <1>1, <1>3, <1>4, <2>1
  <2> QED BY <2>1, <2>2 DEF Methods, InOrder
<1>6. \A n : Reached(n)' = Reached(n)
  BY <1>1, <1>2 DEF Reached
<1>7. ASSUME NEW n PROVE DefinitionsAt(n)' = DefinitionsAt(n)
  <2>1. PICK M : M = Methods(n)
    OBVIOUS
  <2>2. Methods(n)' = M
    BY <1>5, <2>1
  <2>3. /\ Is(n, "function")' = Is(n, "function") /\ Is(n, "class")' = Is(n, "class")
        /\ Resolves(n)' = Resolves(n)
    BY <1>1, <1>4
  <2>4. DefinitionsAt(n) =
          CASE Is(n, "function") ->
                 IF Resolves(n) THEN <<Item("defs", n, <<n>>)>> ELSE <<>>
            [] Is(n, "class") /\ ~ Is(n, "function") ->
                 IF Resolves(n)
                   THEN <<Item("defs", n, <<n>>)>> \o
                        [i \in DOMAIN M |-> Item("defs", M[i], <<n, M[i]>>)]
                   ELSE <<>>
            [] OTHER -> <<>>
    BY <2>1 DEF DefinitionsAt
  <2>5. DefinitionsAt(n)' =
          CASE Is(n, "function") ->
                 IF Resolves(n) THEN <<Item("defs", n, <<n>>)>> ELSE <<>>
            [] Is(n, "class") /\ ~ Is(n, "function") ->
                 IF Resolves(n)
                   THEN <<Item("defs", n, <<n>>)>> \o
                        [i \in DOMAIN M |-> Item("defs", M[i], <<n, M[i]>>)]
                   ELSE <<>>
            [] OTHER -> <<>>
    BY <2>2, <2>3 DEF DefinitionsAt
  <2> QED BY <2>4, <2>5
<1> QED BY <1>6, <1>7

\* The memory that is enough after a step was enough before it.
LEMMA MemoryKept ==
  ASSUME ArenaInv, EnoughMemory',
         ParseImports \/ ParseFallback \/ Visit \/ Convert \/ PushScopes
  PROVE  EnoughMemory
<1>1. CASE UNCHANGED arenaVars
  BY <1>1 DEF EnoughMemory, arenaVars
<1>2. TextSize \in Nat \ {0}
  BY ExtractionAssumption
<1>3. CASE AllocOK(TextSize)
  <2>1. failures' = failures /\ nblocks' >= nblocks /\ nblocks \in Nat /\ nblocks' \in Nat
    BY <1>2, <1>3, ArenaAllocates DEF ArenaInv
  <2> QED BY <2>1, ArenaAssumption DEF EnoughMemory
<1>4. CASE AllocFails(TextSize)
  <2>1. /\ failures' >= failures /\ nblocks' = nblocks
        /\ failures \in Nat /\ failures' \in Nat
    BY <1>2, <1>4, ArenaRefuses DEF ArenaInv
  <2> QED BY <2>1 DEF EnoughMemory
<1>5. UNCHANGED arenaVars \/ AllocOK(TextSize) \/ AllocFails(TextSize)
  BY DEF ParseImports, ParseFallback, Visit, Convert, PushScopes
<1> QED BY <1>1, <1>3, <1>4, <1>5

\* As long as there is memory every push succeeds.
LEMMA PushSucceeds ==
  ASSUME ArenaInv, BlockOrFailure, WalkInv, ArraysInv, Push
  PROVE  EnoughMemory' =>
           EnoughMemory /\ pushed' = [pushed EXCEPT ![Head(todo).to] = Append(@, Head(todo).item)]
<1> DEFINE x == Head(todo).to
           item == Head(todo).item
           need == NewCap(arrays[x]) * ItemSize
<1>1. /\ todo # <<>> /\ x \in Arrays /\ item \in ItemSet
      /\ pc \notin {"idle", "parse", "failed"}
  BY TodoFacts DEF Push, Works, WalkInv, BeforeTree
<1>2. need \in Nat \ {0}
  BY <1>1, RoomFacts
<1>3. \/ /\ pushed' = [pushed EXCEPT ![x] = Append(@, item)]
         /\ UNCHANGED arenaVars \/ AllocOK(need)
      \/ pushed' = pushed /\ AllocFails(need)
  BY DEF Push, Write, resultVars
<1> HIDE DEF x, item, need
<1>4. EnoughMemory' => EnoughMemory /\ pushed' = [pushed EXCEPT ![x] = Append(@, item)]
  <2>1. CASE UNCHANGED arenaVars
    <3>1. failures' = failures /\ nblocks' = nblocks
      BY <2>1 DEF arenaVars
    <3>2. AllocFails(need) => nblocks = 0 \/ nblocks >= MaxBlocks \/ failures' > 0
      BY <1>2, ArenaRefuses
    <3>3. nblocks \in Nat /\ failures \in Nat /\ MaxBlocks \in Nat
      BY ArenaAssumption DEF ArenaInv
    <3>4. nblocks = 0 => failures > 0
      BY <1>1 DEF BlockOrFailure
    <3> QED BY <1>3, <3>1, <3>2, <3>3, <3>4 DEF EnoughMemory, AllocOK
  <2>2. CASE AllocOK(need)
    <3>1. /\ failures' = failures /\ nblocks' >= nblocks /\ nblocks \in Nat /\ nblocks' \in Nat
          /\ MaxBlocks \in Nat /\ regions' = Append(regions, Place(need))
          /\ regions \in Seq([block : Nat, off : Nat, len : Nat])
      BY <1>2, <2>2, ArenaAllocates, ArenaAssumption DEF ArenaInv
    <3>2. Len(Append(regions, Place(need))) = Len(regions) + 1
      <4>1. Place(need) \in [block : Nat, off : Nat, len : Nat]
        BY <1>2, <2>2, ArenaAllocates
      <4> QED BY <3>1, <4>1, AppendFacts
    <3>3. regions' # regions
      BY <3>1, <3>2
    <3>4. ~ AllocFails(need)
      BY <3>3 DEF AllocFails
    <3> QED BY <1>3, <3>1, <3>4 DEF EnoughMemory
  <2>3. CASE AllocFails(need)
    <3>1. /\ nblocks = 0 \/ nblocks >= MaxBlocks \/ failures' > 0
          /\ nblocks' = nblocks /\ failures' >= failures
          /\ nblocks \in Nat /\ failures \in Nat /\ failures' \in Nat /\ MaxBlocks \in Nat
      BY <1>2, <2>3, ArenaRefuses, ArenaAssumption DEF ArenaInv
    <3>2. nblocks = 0 => failures > 0
      BY <1>1 DEF BlockOrFailure
    <3>3. ~ EnoughMemory'
      BY <3>1, <3>2 DEF EnoughMemory
    <3> QED BY <3>3
  <2> QED BY <1>3, <2>1, <2>2, <2>3
<1> QED BY <1>4 DEF x, item

LEMMA DefsStep ==
  ASSUME ArenaInv, BlockOrFailure, ParserInv, WalkInv, ArraysInv, DefsInv, [Next]_vars
  PROVE  DefsInv'
<1> USE DEF BeforeTree
<1>1. CASE pc' \in BeforeTree
  <2>1. Walked' = {}
    BY <1>1 DEF Walked
  <2> QED BY <2>1 DEF DefsInv
<1>2. ASSUME file' = file, EnoughMemory' => EnoughMemory, pushed' = pushed, todo = <<>>,
             \A m \in Walked' :
               \/ m \in Walked
               \/ Reached(m) => /\ todo' = DefinitionsAt(m)
                                /\ pc' \in {"definitions", "imports"}
      PROVE  DefsInv'
  <2> SUFFICES ASSUME EnoughMemory',
                      NEW m \in Walked', Reached(m)',
                      NEW i \in DOMAIN DefinitionsAt(m)'
               PROVE  \/ DefinitionsAt(m)'[i].item \in Items("defs")'
                      \/ /\ pc' \in {"definitions", "imports"}
                         /\ \E j \in DOMAIN todo' : todo'[j] = DefinitionsAt(m)'[i]
    BY DEF DefsInv
  <2>1. DefinitionsAt(m)' = DefinitionsAt(m) /\ Reached(m)
    BY <1>2, SameDefinitions
  <2>2. Items("defs")' = Items("defs")
    BY <1>2 DEF Items
  <2>3. CASE m \in Walked
    <3>1. DOMAIN todo = {}
      BY <1>2
    <3>2. DefinitionsAt(m)[i].item \in Items("defs")
      BY <1>2, <2>1, <2>3, <3>1 DEF DefsInv
    <3> QED BY <2>1, <2>2, <3>2
  <2>4. CASE todo' = DefinitionsAt(m) /\ pc' \in {"definitions", "imports"}
    BY <2>1, <2>4
  <2> QED BY <1>2, <2>1, <2>3, <2>4
<1>3. ASSUME NEW f \in Files, Begin(f) PROVE DefsInv'
  BY <1>1, <1>3 DEF Begin
<1>4. CASE ParseTimeout \/ Free
  BY <1>1, <1>4 DEF ParseTimeout, Free
<1>5. CASE Parse
  <2>1. pc' = "definitions" /\ node' = 1
    BY <1>5 DEF Parse
  <2>2. Walked' = {}
    BY <2>1 DEF Walked
  <2> QED BY <2>2 DEF DefsInv
<1>6. CASE WalkDefs
  <2>1. /\ pc = "definitions" /\ todo = <<>> /\ file' = file /\ pushed' = pushed
        /\ UNCHANGED arenaVars /\ node \in Nodes /\ file \in Files
        /\ IF node < Len(file.kind) THEN node' = node + 1 /\ pc' = pc
                                   ELSE node' = 1 /\ pc' = "imports"
        /\ todo' = IF Reached(node) THEN DefinitionsAt(node) ELSE <<>>
    BY <1>6 DEF WalkDefs, resultVars, ParserInv, WalkInv
  <2>2. node \in Nat /\ node > 0 /\ Nodes = 1 .. Len(file.kind) /\ Len(file.kind) \in Nat
        /\ Nodes' = Nodes
    BY <2>1, TreeFacts, SameTree
  <2>3. Walked = 1 .. node - 1
    BY <2>1 DEF Walked
  <2>4. Walked' \subseteq Walked \union {node}
    <3>1. CASE node < Len(file.kind)
      <4>1. Walked' = 1 .. node
        BY <2>1, <2>2, <3>1 DEF Walked
      <4> QED BY <2>2, <2>3, <4>1
    <3>2. CASE ~ (node < Len(file.kind))
      <4>1. Walked' = Nodes /\ node = Len(file.kind)
        BY <2>1, <2>2, <3>2 DEF Walked
      <4> QED BY <2>2, <2>3, <4>1
    <3> QED BY <3>1, <3>2
  <2>5. EnoughMemory' => EnoughMemory
    BY <2>1 DEF EnoughMemory, arenaVars
  <2> QED BY <1>2, <2>1, <2>4, <2>5
<1>7. CASE ParseImports \/ ParseFallback \/ Visit \/ Convert \/ PushScopes
  <2>1. /\ pc \notin BeforeTree \union {"definitions"}
        /\ pc' \notin BeforeTree \union {"definitions"}
        /\ todo = <<>> /\ file' = file /\ pushed' = pushed
    BY <1>7 DEF ParseImports, ParseFallback, MoveOn, Visit, Convert, PushScopes, Enter, resultVars
  <2>2. Walked' = Walked
    BY <2>1, SameTree DEF Walked
  <2>3. EnoughMemory' => EnoughMemory
    BY <1>7, MemoryKept
  <2> QED BY <1>2, <2>1, <2>2, <2>3
<1>8. CASE Push
  <2> DEFINE x == Head(todo).to
             item == Head(todo).item
  <2>1. /\ todo # <<>> /\ todo' = Tail(todo) /\ UNCHANGED <<pc, file, node>>
        /\ x \in Arrays /\ item \in ItemSet /\ todo[1].to = x /\ todo[1].item = item
        /\ pc \notin {"idle", "parse", "failed"}
    BY <1>8, TodoFacts DEF Push, Works, WalkInv, walkVars
  <2>4. EnoughMemory' => EnoughMemory /\ pushed' = [pushed EXCEPT ![x] = Append(@, item)]
    BY <1>8, PushSucceeds
  <2> HIDE DEF x, item
  <2>5. SUFFICES ASSUME EnoughMemory',
                        NEW m \in Walked', Reached(m)',
                        NEW i \in DOMAIN DefinitionsAt(m)'
                 PROVE  \/ DefinitionsAt(m)'[i].item \in Items("defs")'
                        \/ /\ pc' \in {"definitions", "imports"}
                         /\ \E j \in DOMAIN todo' : todo'[j] = DefinitionsAt(m)'[i]
    BY DEF DefsInv
  <2>6. /\ DefinitionsAt(m)' = DefinitionsAt(m) /\ Reached(m)
        /\ Walked' = Walked /\ m \in Nodes /\ file \in Files
    <3>1. DefinitionsAt(m)' = DefinitionsAt(m) /\ Reached(m) /\ Walked' = Walked
      BY <2>1, <2>5, SameDefinitions, SameTree DEF Walked
    <3>2. file \in Files /\ (pc = "definitions" => node \in Nodes)
      BY <2>1 DEF ParserInv, WalkInv
    <3>3. m \in Nodes
      BY <2>1, <2>5, <3>1, <3>2, TreeFacts DEF Walked
    <3> QED BY <3>1, <3>2, <3>3
  <2>7. PICK d : d = DefinitionsAt(m)[i]
    OBVIOUS
  <2>8. d.to = "defs"
    BY <2>5, <2>6, <2>7, DefinitionsFacts
  <2>9. /\ pushed["defs"] \in Seq(ItemSet) /\ pushed \in [Arrays -> Seq(ItemSet)]
        /\ "defs" \in Arrays
    BY DEF ArraysInv, Arrays
  <2>10. /\ \A j \in DOMAIN pushed["defs"] :
              j \in DOMAIN pushed'["defs"] /\ pushed'["defs"][j] = pushed["defs"][j]
         /\ x = "defs" => \E j \in DOMAIN pushed'["defs"] : pushed'["defs"][j] = item
    <3>1. CASE x = "defs"
      <4>1. pushed'["defs"] = Append(pushed["defs"], item)
        BY <2>4, <2>5, <2>9, <3>1
      <4>2. PICK q \in Seq(ItemSet) : q = pushed["defs"]
        BY <2>9
      <4>3. Len(q) \in Nat
        BY Elements
      <4>4. /\ \A j \in 1 .. Len(q) : Append(q, item)[j] = q[j]
            /\ Append(q, item)[Len(q) + 1] = item
            /\ DOMAIN q = 1 .. Len(q) /\ DOMAIN Append(q, item) = 1 .. Len(q) + 1
        BY <2>1, AppendFacts
      <4>5. /\ \A j \in DOMAIN q : j \in DOMAIN Append(q, item) /\ Append(q, item)[j] = q[j]
            /\ Len(q) + 1 \in DOMAIN Append(q, item)
        BY <4>3, <4>4
      <4>6. pushed'["defs"] = Append(q, item)
        BY <4>1, <4>2
      <4> QED BY <4>2, <4>4, <4>5, <4>6
    <3>2. CASE x # "defs"
      <4>1. pushed'["defs"] = pushed["defs"]
        BY <2>4, <2>5, <2>9, <3>2
      <4> QED BY <3>2, <4>1
    <3> QED BY <3>1, <3>2
  <2>11. CASE d.item \in Items("defs")
    <3>1. d.item \in Items("defs")'
      BY <2>10, <2>11 DEF Items
    <3> QED BY <2>6, <2>7, <3>1
  <2>12. CASE d.item \notin Items("defs")
    <3>0. /\ pc' \in {"definitions", "imports"}
          /\ \E j \in DOMAIN todo : todo[j] = d
      BY <2>1, <2>4, <2>5, <2>6, <2>7, <2>12 DEF DefsInv
    <3>1. PICK j \in DOMAIN todo : todo[j] = d
      BY <3>0
    <3>2. CASE j = 1
      <4>1. x = "defs" /\ d.item = item
        BY <2>1, <2>8, <3>1, <3>2
      <4>2. d.item \in Items("defs")'
        BY <2>10, <4>1 DEF Items
      <4> QED BY <2>6, <2>7, <4>2
    <3>3. CASE j # 1
      <4>1. j - 1 \in DOMAIN todo' /\ todo'[j - 1] = d
        BY <2>1, <3>1, <3>3, TodoFacts
      <4> QED BY <2>6, <2>7, <3>0, <4>1
    <3> QED BY <3>2, <3>3
  <2> QED BY <2>11, <2>12
<1>9. CASE UNCHANGED vars
  <2>1. /\ UNCHANGED <<pc, file, node, todo, pushed, failures, nblocks>>
    BY <1>9 DEF vars, arenaVars, walkVars, resultVars
  <2>2. SUFFICES ASSUME EnoughMemory',
                        NEW m \in Walked', Reached(m)',
                        NEW i \in DOMAIN DefinitionsAt(m)'
                 PROVE  \/ DefinitionsAt(m)'[i].item \in Items("defs")'
                        \/ /\ pc' \in {"definitions", "imports"}
                         /\ \E j \in DOMAIN todo' : todo'[j] = DefinitionsAt(m)'[i]
    BY DEF DefsInv
  <2>3. DefinitionsAt(m)' = DefinitionsAt(m) /\ Reached(m) /\ Walked' = Walked /\ EnoughMemory
    BY <2>1, <2>2, SameDefinitions, SameTree DEF Walked, EnoughMemory
  <2>4. Items("defs")' = Items("defs")
    BY <2>1 DEF Items
  <2> QED BY <2>1, <2>2, <2>3, <2>4 DEF DefsInv
<1> QED BY <1>3, <1>4, <1>5, <1>6, <1>7, <1>8, <1>9 DEF Next

-----------------------------------------------------------------------------
(* The invariant, and what follows from it.                                *)

LEMMA Initially == Init => IInv
<1> SUFFICES ASSUME Init PROVE IInv
  OBVIOUS
<1>1. /\ ArenaZero
      /\ pc = "idle" /\ parser = None /\ file = None /\ tree = None
      /\ node = 0 /\ depth = 0 /\ scopes = <<>> /\ lost = {} /\ todo = <<>>
      /\ arrays = [x \in Arrays |-> EmptyArray]
      /\ pushed = [x \in Arrays |-> <<>>]
  BY DEF Init
<1>2. ArenaInv
  BY <1>1, ArenaZeroed
<1>3. BlockOrFailure /\ ParserInv
  BY <1>1 DEF BlockOrFailure, ParserInv, Phases, BeforeTree
<1>4. DOMAIN todo = {} /\ todo \in Seq(Works) /\ scopes \in Seq(ScopeSet) /\ Len(scopes) = 0
  BY <1>1
<1>5. WalkInv
  BY <1>1, <1>4 DEF WalkInv, BeforeTree
<1>6. StackInv
  BY <1>1, <1>4, ExtractionAssumption DEF StackInv, BeforeWalk
<1>7. Attributed \subseteq Arrays
  BY DEF Attributed, Arrays
<1>8. ItemsInv
  BY <1>1, <1>4, <1>7 DEF ItemsInv, BeforeWalk
<1>9. /\ \A x \in Arrays : arrays[x].cap = 0 /\ arrays[x].count = 0 /\ Len(pushed[x]) = 0
      /\ arrays \in [Arrays -> [cap : Nat, count : Nat, block : Nat, off : Nat]]
      /\ pushed \in [Arrays -> Seq(ItemSet)]
  <2>1. \A x \in Arrays : arrays[x] = EmptyArray /\ pushed[x] = <<>>
    BY <1>1
  <2>2. EmptyArray \in [cap : Nat, count : Nat, block : Nat, off : Nat]
        /\ EmptyArray.cap = 0 /\ EmptyArray.count = 0
    BY DEF EmptyArray
  <2>3. <<>> \in Seq(ItemSet) /\ Len(<<>>) = 0
    OBVIOUS
  <2> QED BY <1>1, <2>1, <2>2, <2>3
<1>10. ArraysInv
  BY <1>1, <1>9 DEF ArraysInv
<1>11. DefsInv
  <2>1. Walked = {}
    BY <1>1 DEF Walked, BeforeTree
  <2> QED BY <2>1 DEF DefsInv
<1> QED BY <1>2, <1>3, <1>5, <1>6, <1>8, <1>10, <1>11 DEF IInv

LEMMA Inductive == IInv /\ [Next]_vars => IInv'
<1> SUFFICES ASSUME IInv, [Next]_vars PROVE IInv'
  OBVIOUS
<1>1. /\ ArenaInv /\ BlockOrFailure /\ ParserInv /\ WalkInv /\ StackInv
      /\ ItemsInv /\ ArraysInv /\ DefsInv
  BY DEF IInv
<1>2. ArenaInv' /\ BlockOrFailure'
  BY <1>1, ArenaStep
<1>3. ParserInv'
  BY <1>1, ParserStep
<1>4. WalkInv'
  BY <1>1, WalkStep
<1>5. StackInv'
  BY <1>1, StackStep
<1>6. ItemsInv'
  BY <1>1, ItemsStep
<1>7. ArraysInv'
  BY <1>1, ArraysStep
<1>8. DefsInv'
  BY <1>1, DefsStep
<1> QED BY <1>2, <1>3, <1>4, <1>5, <1>6, <1>7, <1>8 DEF IInv

LEMMA Invariant == Spec => []IInv
BY Initially, Inductive, PTL DEF Spec

\* The variables of the extraction have their types.
THEOREM TypeCorrect == Spec => []TypeOK
<1>1. IInv => TypeOK
  <2> SUFFICES ASSUME IInv PROVE TypeOK
    OBVIOUS
  <2>1. /\ pc \in Phases /\ (file = None <=> pc = "idle")
        /\ parser \in {None} \union [lang : DOMAIN Grammar, broken_off : BOOLEAN]
    BY DEF IInv, ParserInv
  <2>2. tree \in {None} \union [lang : DOMAIN Grammar, stale : BOOLEAN]
    <3>1. CASE pc \in BeforeTree
      BY <3>1 DEF IInv, ParserInv
    <3>2. CASE pc \notin BeforeTree
      <4>1. file.lang \in DOMAIN Grammar /\ tree = [lang |-> file.lang, stale |-> FALSE]
        BY <3>2 DEF IInv, ParserInv
      <4> QED BY <4>1
    <3> QED BY <3>1, <3>2
  <2>3. node \in Nat /\ depth \in Nat /\ Len(scopes) <= MaxScopes
    BY DEF IInv, WalkInv, StackInv
  <2>4. \A x \in Arrays :
          /\ arrays[x] \in [cap : Nat, count : Nat, block : Nat, off : Nat]
          /\ arrays[x].count <= arrays[x].cap /\ pushed[x] \in Seq(ItemSet)
    BY DEF IInv, ArraysInv
  <2> QED BY <2>1, <2>2, <2>3, <2>4 DEF TypeOK, Phases
<1> QED BY <1>1, Invariant, PTL

\* What the arena hands out lies in its block, is aligned, and shares no byte
\* with anything handed out before, whatever sizes are asked for, however the
\* blocks grow and wherever malloc fails.
THEOREM HandedOutOnce == Spec => []RegionsDisjoint
<1>1. IInv => RegionsDisjoint
  BY DEF IInv, ArenaInv, RegionsDisjoint
<1> QED BY <1>1, Invariant, PTL

\* Every tree that is walked is of the file at hand and in its language.
THEOREM ParsedAfresh == Spec => []NoStaleParse
<1>1. IInv => NoStaleParse
  <2> SUFFICES ASSUME IInv, tree # None PROVE tree.lang = file.lang /\ ~ tree.stale
    BY DEF NoStaleParse
  <2>1. tree = [lang |-> file.lang, stale |-> FALSE]
    BY DEF IInv, ParserInv
  <2> QED BY <2>1
<1> QED BY <1>1, Invariant, PTL

\* Whatever was pushed to the arrays is in them, in order, and is copied to the
\* Go side before it is freed.
THEOREM NothingOverwritten == Spec => []ItemsSurvive
<1>1. IInv => ItemsSurvive
  <2> SUFFICES ASSUME IInv
               PROVE  /\ \A x \in Arrays : Contents(x) = pushed[x]
                      /\ pc = "free" => out = pushed
    BY DEF ItemsSurvive
  <2>1. ASSUME NEW x \in Arrays PROVE Contents(x) = pushed[x]
    <3>1. /\ pushed[x] \in Seq(ItemSet) /\ Len(pushed[x]) = arrays[x].count
          /\ \A i \in 1 .. arrays[x].count : At(Cell(arrays[x], i - 1)) = pushed[x][i]
      BY DEF IInv, ArraysInv
    <3>2. pushed[x] = [i \in 1 .. arrays[x].count |-> pushed[x][i]]
      BY <3>1
    <3>3. Contents(x) = [i \in 1 .. arrays[x].count |-> pushed[x][i]]
      BY <3>1 DEF Contents
    <3> QED BY <3>2, <3>3
  <2>2. pc = "free" => out = pushed
    BY DEF IInv, ArraysInv
  <2> QED BY <2>1, <2>2
<1> QED BY <1>1, Invariant, PTL

\* Where every scope was pushed, and the two kinds of function are the same
\* and have names above the node, the stack and the walk upwards agree.
LEMMA NearestOfAll ==
  ASSUME file \in Files, file.lang \in DOMAIN Grammar, NEW n \in Nodes, lost = {},
         \A m \in Ancestors(n) : Alike(m)
  PROVE  Caller(n) = cbm_enclosing_func_qn(n)
<1> DEFINE above == cbm_find_enclosing_func(n)
<1>1. \A m : Is(m, "function") => ~ Is(m, "class")
  BY ExtractionAssumption DEF Is
<1>2. \A m : /\ NamedScope(m) = "func" <=> Is(m, "function") /\ HasName(m)
             /\ NamedScope(m) = "class" <=> Is(m, "class") /\ HasName(m)
  <2> TAKE m
  <2>1. None # "func" /\ None # "class"
    BY ExtractionAssumption DEF ScopeKinds
  <2> QED BY <1>1, <2>1 DEF NamedScope
<1>3. Around(n, "func") = above /\ above \subseteq Ancestors(n)
  BY <1>2 DEF Around, Alike, cbm_find_enclosing_func
<1> HIDE DEF above
<1>4. CASE above = {}
  BY <1>3, <1>4 DEF Caller, cbm_enclosing_func_qn, above
<1>5. CASE above # {}
  <2>1. PICK f : f = Max(above)
    OBVIOUS
  <2>2. f \in above /\ HasName(f)
    <3>1. above \subseteq Nodes
      BY <1>3, Above
    <3>2. f \in above
      BY <1>5, <2>1, <3>1, LastNode
    <3> QED BY <1>3, <3>2 DEF above, Alike, cbm_find_enclosing_func
  <2>3. PICK classes : classes = {m \in Ancestors(f) : Is(m, "class") /\ HasName(m)}
    OBVIOUS
  <2>4. Around(f, "class") = classes
    BY <1>2, <2>3 DEF Around
  <2>5. Caller(n) = IF classes = {} THEN <<f>> ELSE <<Max(classes), f>>
    BY <1>3, <1>5, <2>1, <2>4 DEF Caller, QualifiedName
  <2>6. cbm_enclosing_func_qn(n) = IF classes = {} THEN <<f>> ELSE <<Max(classes), f>>
    BY <1>5, <2>1, <2>2, <2>3 DEF cbm_enclosing_func_qn, above
  <2> QED BY <2>5, <2>6
<1> QED BY <1>4, <1>5

LEMMA ItemsOfTheWalk ==
  ASSUME IInv, NEW x \in Attributed, NEW it \in Items(x)
  PROVE  /\ Right(x, it) /\ it.node \in Nodes
         /\ file \in Files /\ file.lang \in DOMAIN Grammar /\ pc \notin BeforeWalk
<1>1. PICK i \in DOMAIN pushed[x] : it = pushed[x][i]
  BY DEF Items
<1>2. pc \notin BeforeWalk
  <2>1. pc \in BeforeWalk => pushed[x] = <<>>
    BY DEF IInv, ItemsInv
  <2>2. pushed[x] = <<>> => DOMAIN pushed[x] = {}
    OBVIOUS
  <2> QED BY <1>1, <2>1, <2>2
<1>3. Right(x, it)
  BY <1>1, <1>2 DEF IInv, ItemsInv
<1>4. file \in Files /\ file.lang \in DOMAIN Grammar
  BY <1>2 DEF IInv, ParserInv, BeforeWalk, BeforeTree
<1> QED BY <1>2, <1>3, <1>4 DEF Right

\* Every item names the nearest function around it whose scope was pushed, with
\* the class around that, and no usage lies in a call or an import; where the
\* lists of function kinds agree, so does cbm_enclosing_func_qn.
THEOREM NamesTheNearest == Spec => []AttributedToNearest
<1>1. IInv => AttributedToNearest
  <2> SUFFICES ASSUME IInv, NEW x \in Attributed, NEW it \in Items(x)
               PROVE  /\ it.func = Caller(it.node)
                      /\ x = "usages" =>
                           \A m \in Ancestors(it.node) :
                              /\ Is(m, "call") => <<m, "call">> \in lost
                              /\ Is(m, "import") => <<m, "import">> \in lost
                      /\ (lost = {} /\ \A m \in Ancestors(it.node) : Alike(m)) =>
                           it.func = cbm_enclosing_func_qn(it.node)
    BY DEF AttributedToNearest
  <2>1. /\ Right(x, it) /\ it.node \in Nodes
        /\ file \in Files /\ file.lang \in DOMAIN Grammar
    BY ItemsOfTheWalk
  <2>2. it.func = Caller(it.node)
    BY <2>1 DEF Right
  <2>3. x = "usages" =>
          \A m \in Ancestors(it.node) :
             /\ Is(m, "call") => <<m, "call">> \in lost
             /\ Is(m, "import") => <<m, "import">> \in lost
    BY <2>1 DEF Right
  <2>4. (lost = {} /\ \A m \in Ancestors(it.node) : Alike(m)) =>
          Caller(it.node) = cbm_enclosing_func_qn(it.node)
    BY <2>1, NearestOfAll
  <2> QED BY <2>2, <2>3, <2>4
<1> QED BY <1>1, Invariant, PTL

\* A function that walk_defs reaches, or that is a method of a class it
\* reaches, is defined under the name that its scope has.
LEMMA DefinedAsNamed ==
  ASSUME file \in Files, file.lang \in DOMAIN Grammar, lost = {},
         NEW f \in Nodes, Is(f, "function"), HasName(f), ~ Hidden(f)
  PROVE  \E m \in Nodes : /\ Reached(m)
                          /\ \E i \in DOMAIN DefinitionsAt(m) :
                               DefinitionsAt(m)[i].item = [node |-> f, func |-> QualifiedName(f)]
<1>1. \A m : Is(m, "function") => ~ Is(m, "class")
  BY ExtractionAssumption DEF Is
<1>2. \A m : NamedScope(m) = "class" <=> Is(m, "class") /\ HasName(m)
  <2> TAKE m
  <2>1. None # "class" /\ "func" # "class"
    BY ExtractionAssumption DEF ScopeKinds
  <2> QED BY <1>1, <2>1 DEF NamedScope
<1>3. Around(f, "class") = {m \in Ancestors(f) : Is(m, "class") /\ HasName(m)}
  BY <1>2 DEF Around
<1>4. \A m \in Ancestors(f) :
        ~ Is(m, "function") /\ (Is(m, "class") => m = Parent(f) /\ HasName(m))
  BY DEF Hidden
<1>5. Resolves(f) /\ f \in Nat
  BY TreeFacts DEF Resolves
<1>6. CASE Around(f, "class") = {}
  <2>1. \A m \in Ancestors(f) : ~ Is(m, "class")
    BY <1>3, <1>4, <1>6
  <2>2. Reached(f)
    BY <1>4, <2>1 DEF Reached
  <2>3. QualifiedName(f) = <<f>>
    BY <1>6 DEF QualifiedName
  <2>4. \E i \in DOMAIN DefinitionsAt(f) :
          DefinitionsAt(f)[i].item = [node |-> f, func |-> <<f>>]
    BY <1>5, DefinitionsFacts
  <2> QED BY <2>2, <2>3, <2>4
<1>7. CASE Around(f, "class") # {}
  <2>1. PICK p \in Ancestors(f) : Is(p, "class") /\ HasName(p)
    BY <1>3, <1>7
  <2>2. p = Parent(f) /\ ~ Is(p, "function") /\ p \in Nodes /\ p \in Nat /\ p < f /\ p > 0
    BY <1>4, <2>1, Above
  <2>3. Around(f, "class") = {p}
    BY <1>3, <1>4, <2>1, <2>2
  <2>4. Max({p}) = p
    BY <2>2, GreatestIs
  <2>5. QualifiedName(f) = <<p, f>>
    BY <2>3, <2>4 DEF QualifiedName
  <2>6. Reached(p)
    <3> SUFFICES ASSUME NEW m \in Ancestors(p)
                 PROVE  ~ Is(m, "function") /\ ~ Is(m, "class")
      BY DEF Reached
    <3>1. m \in Ancestors(f) /\ m # p
      BY <2>2, Above, AboveIsTransitive
    <3> QED BY <1>4, <2>2, <3>1
  <2>7. f \in Children(p)
    BY <1>5, <2>2 DEF Children
  <2>8. Resolves(p)
    BY <2>1 DEF Resolves
  <2>9. \E i \in DOMAIN DefinitionsAt(p) :
          DefinitionsAt(p)[i].item = [node |-> f, func |-> <<p, f>>]
    BY <1>5, <2>1, <2>2, <2>7, <2>8, DefinitionsFacts
  <2> QED BY <2>2, <2>5, <2>6, <2>9
<1> QED BY <1>6, <1>7

\* As long as there is memory and no scope was dropped, every caller is the
\* module, has a definition, or lies where the walk for definitions does not go.
THEOREM CallersHaveDefinitions == Spec => []CallersAreDefined
<1>1. IInv => CallersAreDefined
  <2> SUFFICES ASSUME IInv, EnoughMemory, lost = {}, NEW x \in Attributed, NEW it \in Items(x),
                      it.func # <<>>, ~ Hidden(it.func[Len(it.func)])
               PROVE  it.func \in {d.func : d \in Items("defs")}
    BY DEF CallersAreDefined
  <2>1. /\ it.node \in Nodes /\ it.func = Caller(it.node) /\ pc \notin BeforeWalk
        /\ file \in Files /\ file.lang \in DOMAIN Grammar
    BY ItemsOfTheWalk DEF Right
  <2>2. PICK f : f = Max(Around(it.node, "func"))
    OBVIOUS
  <2>3. Around(it.node, "func") # {} /\ it.func = QualifiedName(f)
    BY <2>1, <2>2 DEF Caller
  <2>4. f \in Around(it.node, "func") /\ f \in Nodes /\ f \in Nat
    BY <2>1, <2>2, <2>3, NamesAreNumbers, LastNode
  <2>5. Is(f, "function") /\ HasName(f)
    <3>1. NamedScope(f) = "func" /\ None # "func"
      BY <2>4, ExtractionAssumption DEF Around, ScopeKinds
    <3> QED BY <3>1 DEF NamedScope
  <2>6. it.func[Len(it.func)] = f
    <3>1. \A c : Len(<<c, f>>) = 2 /\ <<c, f>>[2] = f /\ Len(<<f>>) = 1 /\ <<f>>[1] = f
      OBVIOUS
    <3> QED BY <2>3, <3>1 DEF QualifiedName
  <2>7. PICK m \in Nodes : /\ Reached(m)
                           /\ \E i \in DOMAIN DefinitionsAt(m) :
                                DefinitionsAt(m)[i].item = [node |-> f, func |-> QualifiedName(f)]
    BY <2>1, <2>4, <2>5, <2>6, DefinedAsNamed
  <2>8. PICK i \in DOMAIN DefinitionsAt(m) :
          DefinitionsAt(m)[i].item = [node |-> f, func |-> QualifiedName(f)]
    BY <2>7
  <2>9. Walked = Nodes
    BY <2>1 DEF Walked, BeforeWalk, BeforeTree
  <2>10. pc \notin {"definitions", "imports"}
    BY <2>1 DEF BeforeWalk
  <2>11. DefinitionsAt(m)[i].item \in Items("defs")
    BY <2>7, <2>8, <2>9, <2>10 DEF IInv, DefsInv
  <2>12. PICK d \in Items("defs") : d = [node |-> f, func |-> QualifiedName(f)]
    BY <2>8, <2>11
  <2>13. d.func = QualifiedName(f)
    BY <2>12
  <2> QED BY <2>3, <2>13
<1> QED BY <1>1, Invariant, PTL

=============================================================================
