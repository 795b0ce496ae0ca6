----------------------------- MODULE MCOntology -----------------------------
(* Model checking of Catalog and Reasoner.  They share no state, and a closure *)
(* index belongs to one handle: a behaviour has two handles with definitions   *)
(* and rows, or one with definitions and closures, or the reasoner.            *)
EXTENDS Catalog, Reasoner

VARIABLE part
vars == <<catVars, inferVars, part>>

MCIris == {"ia", "ib", "ic"}
MCNames == {"a", "b", "c"}
MCTail == [i \in MCIris |-> CASE i = "ia" -> "a" [] i = "ib" -> "b" [] i = "ic" -> "c"]

Def(n, i, s) == [name |-> n, iri |-> i, supers |-> s]

(* Definitions and changes of classes; a cycle; a superclass that is defined   *)
(* later.                                                                      *)
Lattice == {Def("a", "ia", <<>>), Def("b", "ib", <<>>), Def("b", "ib", <<"ia">>),
            Def("c", "ic", <<"ib", "ib">>), Def("a", "ia", <<"ic">>)}
(* A name that another IRI has, an IRI that has another name.                  *)
Clashes == {Def("a", "ia", <<>>), Def("b", "ib", <<"ia">>), Def("b", "ia", <<"ib">>), Def("b", "ic", <<"ia">>)}
MCDefs == Lattice \cup Clashes
MCPropDefs == {Def("a", "ia", <<>>)}
MCOthers == {[kind |-> "index", name |-> "a"]}

MCBases == {<<<<1, 2>>, <<2, 3>>, <<3, 4>>>>, <<<<1, 2>>, <<2, 1>>>>, <<<<1, 1>>, <<1, 2>>>>,
            <<<<1, 2>>, <<1, 2>>, <<3, 2>>>>, <<<<1, 2>>, <<2, 3>>, <<3, 1>>>>, <<<<1, 2>>, <<2, 3>>, <<3, 4>>, <<4, 5>>, <<5, 6>>>>}
MCPlans == {<<"TRANSITIVE">>, <<"SYMMETRIC">>, <<"SYMMETRIC", "TRANSITIVE">>, <<"TRANSITIVE", "SYMMETRIC">>}

Single == CHOOSE h \in Handles : TRUE

Init ==
    /\ part \in {"definitions", "others", "closure", "reasoner"}
    /\ CatInit
    /\ IF part = "reasoner" THEN InferInit
       ELSE InferInit /\ base = CHOOSE b \in Bases : TRUE

Next ==
    \/ part = "definitions" /\ UNCHANGED <<inferVars, part>>
          /\ \E h \in Handles : Sessions(h) \/ Inserts(h) \/ \E d \in Clashes : DefineClass(h, d)
    \/ part = "others" /\ UNCHANGED <<inferVars, part>>
          /\ \E h \in Handles : Sessions(h) \/ OtherDefinitions(h)
    \/ part = "closure" /\ UNCHANGED <<inferVars, part>>
          /\ (Sessions(Single) \/ Closures(Single) \/ \E d \in Lattice : DefineClass(Single, d))
    \/ part = "reasoner" /\ InferNext /\ UNCHANGED <<catVars, part>>

Spec == Init /\ [][Next]_vars /\ WF_inferVars(part = "reasoner" /\ Work /\ UNCHANGED <<catVars, part>>)
=============================================================================
