------------------------------ MODULE MCNative ------------------------------
(* Model checking of NativeLog and NativeStore.  A behaviour is about the log  *)
(* of a bundle or about its stores; both start with an empty directory.        *)
EXTENDS NativeStore, TLC

VARIABLE part
vars == <<logVars, storeVars, part>>

Plain == <<"src", "dst">>
MCBatches == {
    [schema |-> Plain, parts |-> <<<<"x">>, <<"y", "x">>>>],
    [schema |-> Plain, parts |-> <<<<"y">>>>],
    [schema |-> Plain, parts |-> <<<<>>>>],
    [schema |-> <<"src", "dst", "w">>, parts |-> <<<<>>, <<"x">>>>],
    [schema |-> <<"w">>, parts |-> <<<<"z">>>>],
    [schema |-> <<"id", "src", "dst">>, parts |-> <<<<"z">>>>]}

Init == part \in {"log", "stores"} /\ LogInit /\ StoreInit

Next ==
    \/ part = "log" /\ LogNext /\ UNCHANGED <<storeVars, part>>
    \/ /\ part = "stores" /\ ~Openable
       /\ \E exist_ok \in BOOLEAN : CreateBundle(exist_ok)
       /\ UNCHANGED <<storeVars, part>>
    \/ part = "stores" /\ StoreNext /\ UNCHANGED <<logVars, part>>

Spec == Init /\ [][Next]_vars
=============================================================================
