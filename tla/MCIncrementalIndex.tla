------------------------- MODULE MCIncrementalIndex -------------------------
(* Small projects for IncrementalIndex: where each file is and what it may  *)
(* contain.                                                                *)
EXTENDS IncrementalIndex

CONSTANTS p, lib, m, n, a, b, c, h, i, j, x, y, index, init, file, nil

MCSegments == {p, lib, m, n, x, y, index, init, file}

\* a and b are alone with their names.  c and h are one module, x, which also
\* is the name of a function of the root's index file j; i is the index file
\* of lib, under the name of the folder.
Place(f) == CASE f = a -> <<p, m>>     [] f = b -> <<p, lib, n>>
              [] f \in {c, h} -> <<p, x>>
              [] f = i -> <<p, lib, init>> [] f = j -> <<p, index>>
MCPath == [f \in Files |-> Place(f)]
MCOrder == LET walk == SelectSeq(<<a, c, h, j, i, b>>, LAMBDA f : f \in Files) IN
           [f \in Files |-> CHOOSE k \in DOMAIN walk : walk[k] = f]

\* What a file may say: it defines x; or it calls x, through a module of its own
\* name, through one that two files share, and as a function it imports; or it
\* calls x unqualified, importing the root.
Call(via, f) == [via |-> via, name |-> f]
DefinesX == [defs |-> {x}, imports |-> {}, calls |-> {}]
CallsByImport == [defs |-> {}, imports |-> {<<p, lib, n>>, <<p, x>>},
                  calls |-> {Call(n, x), Call(x, x), Call(nil, x)}]
CallsFromRoot == [defs |-> {y}, imports |-> {<<p>>}, calls |-> {Call(nil, x)}]

MCSources == {DefinesX, CallsByImport, CallsFromRoot}
=============================================================================
