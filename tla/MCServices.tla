----------------------------- MODULE MCServices -----------------------------
(* Model checking of Services: the names, files and edits of the run.         *)
EXTENDS Services

MCPrinters == {"t1"}
MCIds == {"c1", "c2"}
(* Of four characters there is one too many for a server's name; a prefixed   *)
(* name has eleven, which mcp_a_b_b_x fills and mcp_a_lister goes beyond.     *)
MCServerNames == {<<"a">>, <<"b">>, <<"a", "b">>, <<"host">>}
MCToolNames == {<<"x">>, <<"b", "x">>, <<"lister">>}
MCOpenings ==
    [mcp |-> <<"m", "mc", "mcp">>, a |-> <<"a">>, b |-> <<"b">>, x |-> <<"x">>,
     host |-> <<"h", "ho", "hos", "host">>,
     lister |-> <<"l", "li", "lis", "list", "liste", "lister">>]

(* An edit of f in every mode, patterns that match one line, either of two,   *)
(* or two in a row, and as regular expressions what they are replaced with    *)
(* either fills the doubled buffer or goes one beyond it; a patch of f and g, *)
(* of which some blocks do not parse or do not match; a Write of f; beside it *)
(* another tool's edit of g.                                                  *)
Change(kind, file, old) ==
    [kind |-> kind, file |-> file, old |-> old, which |-> 0, after |-> FALSE, eof |-> FALSE,
     regex |-> FALSE, length |-> 1]
One(change) == [valid |-> TRUE, changes |-> <<change>>]
Edits ==
    {One(Change(kind, "f", old)) :
        kind \in {"replace", "all"}, old \in {<<{"x"}, {"y"}>>, <<{"x", "y"}>>}} \cup
    {One([Change("all", "f", <<{"x"}>>) EXCEPT !.regex = TRUE, !.length = length]) :
        length \in {12, 13}} \cup
    {One([Change("insert", "f", old) EXCEPT !.which = n, !.after = Len(old) = 2, !.eof = n = 0]) :
        old \in {<<{"x"}>>, <<{"x"}, {"y"}>>}, n \in 0 .. 2}
Patches ==
    {[valid |-> valid,
      changes |-> <<Change("replace", "f", old), Change("replace", "g", <<{"x"}>>)>>] :
        valid \in BOOLEAN, old \in {<<{"x"}>>, <<{"y"}>>}}
Writes == {One(Change("write", "f", <<>>))}

MCFileCalls ==
    [t \in FileThreads |->
        IF t = "t1" THEN Edits \cup Patches \cup Writes
        ELSE {One(Change("replace", "g", <<{"x"}>>))}]
MCFileDisks ==
    {[f |-> <<>>], [f |-> <<"x", "nul">>], [f |-> <<"x", "y", "x">>, g |-> <<"x">>]}
=============================================================================
