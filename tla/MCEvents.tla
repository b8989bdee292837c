------------------------------ MODULE MCEvents ------------------------------
(* Instances of Events for TLC: two dispatching callers and two listeners.    *)
EXTENDS Events

Options(p, g, o) == [prepend |-> p, global |-> g, once |-> o]
ShapeOf(s, k, r, n, o) ==
    [stream |-> s, contract |-> k, role |-> r, scope |-> n, options |-> o]

\* outer is an ancestor of inner.
MCScope  == {"outer", "inner"}
MCParent == [inner |-> "outer", outer |-> Root]

MCShape ==
    {ShapeOf("E", "k1", "Responder", Root, Options(FALSE, FALSE, TRUE)),
     ShapeOf("E", "k1", "Observer", "outer", Options(TRUE, TRUE, FALSE)),
     ShapeOf("Q", "k1", "Mapper", "inner", Options(FALSE, FALSE, FALSE)),
     ShapeOf("Q", "k1", "Around", "outer", Options(TRUE, FALSE, TRUE)),
     ShapeOf(Updates, Unbound, "Around", Root, Options(FALSE, FALSE, FALSE))}

AskFor(o, s, k, r) == [op |-> o, stream |-> s, contract |-> k, routing |-> r]

\* c2 races c1 for the once-occurrences and may bind the name first.
MCRequest ==
    [c1 |-> {AskFor("EmitParallel", "E", "k1", Root),
             AskFor("Query", "E", "k1", Foreign),
             AskFor("Query", "E", "k1", "Unscoped"),
             AskFor("WaterfallQuery", "Q", "k1", "inner"),
             AskFor("Update", Updates, Unbound, "inner")},
     c2 |-> {AskFor("Emit", "E", "k1", Root),
             AskFor("Query", "E", "k2", Root),
             AskFor("Waterfall", "Q", "k1", "inner")}]
============================================================================
