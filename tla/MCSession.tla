----------------------------- MODULE MCSession -----------------------------
(* Model checking of Session; of BundleDiff, which looks at two bundles at     *)
(* rest; and of the loaders and importers, BulkLoad and TripleImport: a        *)
(* behaviour works on one of them.                                             *)
EXTENDS Session, BundleDiff, BulkLoad, TripleImport

VARIABLE part

MCClasses == {"A", "B"}
MCColumns == {<<"nid", "x">>, <<"nid", "y">>}
MCNidOnly == <<"nid">>

(* Files with a batch of other columns, an empty batch, ends that do not fit   *)
(* and ends that are missing.                                                  *)
B(rows, cols, ends) == [rows |-> rows, cols |-> cols, ends |-> ends]
MCInputs ==
    {<<B(<<1, 2>>, <<"p">>, "fit"), B(<<3>>, <<"p">>, "unfit"), B(<<4>>, <<"p">>, "fit")>>,
     <<B(<<>>, <<"q">>, "fit"), B(<<5>>, <<"q">>, "fit"), B(<<6>>, <<"p">>, "fit"), B(<<7, 8>>, <<"q">>, "fit")>>,
     <<B(<<9>>, <<"p">>, "fit"), B(<<1>>, <<"p">>, "absent")>>}

MCKinds == <<"K", "R">>
MCPreds == <<"p", "q">>
MCKindOf == [x |-> "K", y |-> "R", z |-> "R"]

(* Imports that meet the same ids in other classes and with other columns.     *)
T(is, s, p, o) == [is |-> is, s |-> s, p |-> p, o |-> o]
MCImports ==
    {[shape |-> "ntriples", lines |->
        <<T("value", "x", "c", "1"), T("link", "x", "p", "y"), T("type", "x", "", "K"),
          T("blank", "x", "p", "y"), T("link", "y", "q", "x")>>],
     [shape |-> "ntriples", lines |-> <<T("link", "z", "p", "x"), T("value", "y", "c", "2")>>],
     [shape |-> "ntriples", lines |-> <<T("link", "z", "p", "x"), T("bad", "y", "c", "2")>>],
     [shape |-> "triples", lines |->
        <<T("link", "x", "p", "y"), T("value", "x", "c", "1"), T("type", "y", "", "K"),
          T("value", "x", "c", "2"), T("link", "x", "q", "z")>>],
     [shape |-> "triples", lines |-> <<T("link", "z", "q", "z")>>],
     [shape |-> "triples", lines |-> <<>>],
     [shape |-> "neo4j", resource |-> [s |-> "y", o |-> "K", props |-> <<[p |-> "c", o |-> "1"]>>,
                                       links |-> <<T("link", "y", "p", "x"), T("link", "y", "q", "x")>>]],
     [shape |-> "iri", resource |-> [s |-> "z", o |-> "K", props |-> <<>>]],
     [shape |-> "node", resource |-> [s |-> "x", o |-> "R", props |-> <<[p |-> "d", o |-> "1"]>>]],
     [shape |-> "edge", resource |-> T("link", "x", "p", "z")],
     [shape |-> "unknown"]}

MCInit == Init /\ DiffInit /\ LoadInit /\ WordInit /\ ImportInit
          /\ part \in {"session", "diff", "load", "words", "import"}

(* The calls that MaxLoads or MaxImports allows are over.                      *)
AtBound ==
    \/ part = "load" /\ loads = MaxLoads /\ load.at \in {"raised", "returned"}
    \/ part = "import" /\ imports = MaxImports /\ imp.at \in Resting

MCNext ==
    \/ part = "session" /\ Next /\ UNCHANGED <<diffVars, storeVars, wordVars, impVars, part>>
    \/ part = "diff" /\ DiffNext /\ UNCHANGED <<vars, storeVars, wordVars, impVars, part>>
    \/ part = "load" /\ LoadNext /\ UNCHANGED <<vars, diffVars, wordVars, impVars, part>>
    \/ part = "words" /\ WordNext /\ UNCHANGED <<vars, diffVars, storeVars, impVars, part>>
    \/ part = "import" /\ ImportNext /\ UNCHANGED <<vars, diffVars, storeVars, wordVars, part>>
    \/ AtBound /\ UNCHANGED <<vars, diffVars, storeVars, wordVars, impVars, part>>

MCSpec == MCInit /\ [][MCNext]_<<vars, diffVars, storeVars, wordVars, impVars, part>>

(* What a loader, the string dictionary or an importer put on disk is what it  *)
(* was given, whatever it refused and wherever it stopped.                     *)
IngestExact == LoadExact /\ WordsExact /\ ImportExact
=============================================================================
