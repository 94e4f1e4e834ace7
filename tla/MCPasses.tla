------------------------------ MODULE MCPasses ------------------------------
(* The builds of each pass.  The DWARF pass has two objects and two        *)
(* functions in every combination of forms, and one struct, compiled       *)
(* differently in each object, in every combination of layouts.            *)
EXTENDS Passes

Given     == INSTANCE MCPassInputs
FromLinks == INSTANCE MCLinkInputs

MCIds   == Given!StringOrder
MCUnits == Given!UnitBuilds
MCLinks == FromLinks!LinkBuilds
MCPaths == Given!AllPaths
MCPacks == Given!PackBuilds

Forms ==
    [scope : {"external"}, kind : {"absent", "declared", "body", "both", "inlined"}]
        \cup [scope : {"static"}, kind : {"body", "inlined"}]
Layouts ==
    {{}, {[members |-> {"a"}, inProject |-> TRUE]}, {[members |-> {"b"}, inProject |-> TRUE]},
     {[members |-> {"a"}, inProject |-> FALSE]}}
Plain == [scope |-> "external", kind |-> "body"]

MCBuilds ==
    [die : [Objects -> [Names -> Forms]], layout : {[o \in Objects |-> {}]}]
        \cup [die : {[o \in Objects |-> [n \in Names |-> Plain]]},
              layout : [Objects -> Layouts]]
=============================================================================
