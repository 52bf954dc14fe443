---------------------------- MODULE MCExtraction ----------------------------
(***************************************************************************)
(* The trees of a root and MCNodes nodes below it, in four languages: one  *)
(* with named functions in classes, one whose functions take their names   *)
(* from a declarator above them that is an import by kind, one with types  *)
(* in signatures and in bodies, and one whose functions have their names   *)
(* in a declarator of their own.                                           *)
(***************************************************************************)
EXTENDS Extraction

CONSTANT MCNodes \* bound: the nodes below the root

Nothing == [k \in KindSets |-> {}]

MCGrammar == [
  python |-> [Nothing EXCEPT !.function = {"function_definition"},
                !.enclosing = {"function_definition"},
                !.class = {"class_definition"}, !.call = {"call"},
                !.callee = {"call"}, !.reference = {"identifier"},
                !.import = {"import_statement"}, !.importing = {"import_statement"},
                !.imported = {"dotted_name"}, !.env = {"attribute"},
                !.clause = {"raises"}, !.throw = {"raises"}],
  javascript |-> [Nothing EXCEPT !.function = {"arrow_function", "generator_function"},
                !.enclosing = {"arrow_function"},
                !.arrow = {"arrow_function"}, !.class = {"class"},
                !.nameless = {"class"},
                !.import = {"lexical_declaration", "import_statement"},
                !.importing = {"import_statement"}, !.anywhere = {"import_statement"},
                !.imported = {"import_specifier"}, !.alone = {"import_statement"},
                !.variable_declarator = {"variable_declarator"},
                !.reference = {"identifier"},
                !.call = {"call_expression"}, !.callee = {"call_expression"}],
  typescript |-> [Nothing EXCEPT !.function = {"method", "generator_function"},
                !.enclosing = {"method"}, !.class = {"class"},
                !.typing = {"as_expression", "type_arguments"},
                !.type = {"type_identifier"}],
  cpp |-> [Nothing EXCEPT !.function = {"function_definition", "lambda"},
                !.enclosing = {"function_definition"},
                !.declarator = {"function_definition"}, !.nameless = {"lambda"},
                !.class = {"class_specifier"}, !.assignment = {"assignment"},
                !.constructed = {"assignment"}],
  kotlin |-> [Nothing EXCEPT !.function = {"function_declaration"},
                !.enclosing = {"function_declaration"},
                !.importing = {"import", "named_import"},
                !.imported = {"named_import"},
                !.fallback = {"import", "named_import"}]]

MCKinds == [
  python |-> {"function_definition", "class_definition", "call", "identifier"},
  javascript |-> {"arrow_function", "variable_declarator", "lexical_declaration",
                  "call_expression", "identifier"},
  typescript |-> {"method", "class", "as_expression", "type_identifier"},
  cpp |-> {"function_definition", "class_specifier", "lambda", "assignment"}]

\* The last node is one that leaves an item: after the last item of a tree
\* nothing happens that the properties could see.
MCLast == {"call", "identifier", "call_expression", "assignment", "type_identifier"}

Levels == {s \in [1 .. MCNodes + 1 -> 0 .. MCNodes] :
             /\ s[1] = 0
             /\ \A n \in 2 .. MCNodes + 1 : s[n] \in 1 .. s[n - 1] + 1}

\* An unsupported language, a class without a name, a generator around a
\* call, types within types, imports in every form, and the kinds of item that
\* the languages above leave out.
MCSingles == {
  [lang |-> "none", kind |-> <<"root">>, level |-> <<0>>],
  [lang |-> "python", level |-> <<0, 1, 2, 2, 1, 2, 3>>,
   kind |-> <<"root", "import_statement", "dotted_name", "dotted_name",
              "function_definition", "raises", "attribute">>],
  [lang |-> "python", level |-> <<0, 1, 2, 3>>,
   kind |-> <<"root", "function_definition", "import_statement", "dotted_name">>],
  [lang |-> "javascript", level |-> <<0, 1, 2, 3, 4>>,
   kind |-> <<"root", "class", "variable_declarator", "arrow_function",
              "call_expression">>],
  [lang |-> "javascript", level |-> <<0, 1, 2, 3, 3>>,
   kind |-> <<"root", "generator_function", "call_expression", "identifier",
              "call_expression">>],
  [lang |-> "javascript", level |-> <<0, 1, 1, 2, 3, 3>>,
   kind |-> <<"root", "import_statement", "statement_block", "import_statement",
              "import_specifier", "import_specifier">>],
  [lang |-> "typescript", level |-> <<0, 1, 2, 3, 4, 2, 2, 3>>,
   kind |-> <<"root", "method", "type_identifier", "type_arguments",
              "type_identifier", "type_identifier", "as_expression",
              "type_identifier">>],
  [lang |-> "kotlin", level |-> <<0, 1, 1, 1>>,
   kind |-> <<"root", "import", "named_import", "import">>],
  [lang |-> "kotlin", level |-> <<0, 1, 1, 1>>,
   kind |-> <<"root", "function_declaration", "named_import", "import">>]}

MCFiles ==
  MCSingles \union
  UNION {{[lang |-> l, kind |-> <<"root">> \o k, level |-> v] :
             k \in {k \in [1 .. MCNodes -> MCKinds[l]] : k[MCNodes] \in MCLast},
             v \in Levels} : l \in DOMAIN MCKinds}
=============================================================================
