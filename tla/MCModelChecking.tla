-------------------------- MODULE MCModelChecking ---------------------------
(* The programs of MCPipeline with calls, its automata of MaxEdges edges    *)
(* some of which assert, and the program with an assert inside an edge.     *)
EXTENDS ModelChecking, MCPipeline

AssertEdges == {5, 8}

Asserting == { Program(Fn(4, Pick(ks), 2, <<>>), NoFn, NoFn) :
                 ks \in { s \in kSubset(MaxEdges, DOMAIN Menu) : s \cap AssertEdges # {} } }

SearchedSources == Calling \cup CallingBySymbol \cup Asserting \cup MidAssert
=============================================================================
