------------------------------ MODULE Reasoner ------------------------------
(***************************************************************************)
(* The forward-chaining reasoner, caracaldb/onto/reasoner.py: a plan of    *)
(* rules over one edge store.  A transitive rule appends the edges of one  *)
(* pass after the other and logs a single record at its end; the process   *)
(* may die between passes, a budget may end the rule with an error, and    *)
(* the plan may then be run again.                                         *)
(***************************************************************************)
EXTENDS Integers, Sequences, FiniteSets, SequencesExt

CONSTANTS
    Bases,        \* edge stores before any inference: sequences of <<src, dst>>
    Plans,        \* sequences of "SYMMETRIC" and "TRANSITIVE"
    Budgets,      \* triple_budget, or 0 for none
    MaxIterations,\* the limit of passes of one rule
    MaxCalls      \* bound on the number of calls of infer_closure

ASSUME ReasonerConstants ==
    /\ MaxIterations \in Nat \ {0} /\ MaxCalls \in Nat \ {0} /\ Budgets \subseteq Nat
    /\ \A p \in Plans : Range(p) \subseteq {"SYMMETRIC", "TRANSITIVE"}

VARIABLES
    base,         \* the rows before the first call
    store,        \* the rows of the edge store
    plan, budget, \* the arguments of the call
    at,           \* the rule in progress, by its place in the plan
    iteration, total, \* infer_transitive: passes and new edges so far
    wal,          \* the numbers of edges of the INFER_CLOSURE records
    rpc,          \* "idle", "rule", "pass"; "ok", "over" or "dead" after a call
    calls

inferVars == <<base, store, plan, budget, at, iteration, total, wal, rpc, calls>>

(* _existing_edges.                                                            *)
Pairs == Range(store)

(* infer_symmetric: the edges whose reverse is missing.                        *)
Reversed == {<<e[2], e[1]>> : e \in Pairs} \ Pairs

(* One pass of infer_transitive: two edges in a row, as they were at the start *)
(* of the pass.                                                                *)
Composed == {<<x[1][1], x[2][2]>> : x \in {y \in Pairs \X Pairs : y[1][2] = y[2][1]}} \ Pairs

(* _append_edges; the order of a Python set is not defined, and not used.      *)
Appended(new) == FoldSet(LAMBDA e, rows : Append(rows, e), store, new)

InferInit ==
    /\ base \in Bases /\ store = base
    /\ plan = <<>> /\ budget = 0 /\ at = 0 /\ iteration = 0 /\ total = 0
    /\ wal = <<>> /\ rpc = "idle" /\ calls = 0

(* infer_closure, first call or a new one after success, error or death.       *)
Infer(p, b) ==
    /\ rpc \in {"idle", "ok", "over", "dead"} /\ calls < MaxCalls
    /\ plan' = p /\ budget' = b /\ at' = 1 /\ rpc' = "rule" /\ calls' = calls + 1
    /\ UNCHANGED <<base, store, iteration, total, wal>>

Log(n) == wal' = Append(wal, n)

Advance == at' = at + 1 /\ rpc' = IF at = Len(plan) THEN "ok" ELSE "rule"

InferSymmetric ==
    /\ rpc = "rule" /\ plan[at] = "SYMMETRIC"
    /\ store' = Appended(Reversed)
    /\ Log(Cardinality(Reversed)) /\ Advance
    /\ UNCHANGED <<base, plan, budget, iteration, total, calls>>

InferTransitive ==
    /\ rpc = "rule" /\ plan[at] = "TRANSITIVE"
    /\ iteration' = 0 /\ total' = 0 /\ rpc' = "pass"
    /\ UNCHANGED <<base, store, plan, budget, at, wal, calls>>

(* The budget is met during a pass: an error before the pass is appended.      *)
OverBudget == budget # 0 /\ Composed # {} /\ total + Cardinality(Composed) >= budget

Pass ==
    /\ rpc = "pass" /\ iteration < MaxIterations /\ Composed # {} /\ ~OverBudget
    /\ store' = Appended(Composed)
    /\ iteration' = iteration + 1 /\ total' = total + Cardinality(Composed)
    /\ UNCHANGED <<base, plan, budget, at, wal, rpc, calls>>

MutExhausted ==
    /\ rpc = "pass" /\ iteration < MaxIterations /\ OverBudget
    /\ rpc' = "rule"
    /\ UNCHANGED <<base, store, plan, budget, at, iteration, total, wal, calls>>

Exhausted ==
    /\ rpc = "pass" /\ iteration < MaxIterations /\ OverBudget
    /\ rpc' = "over"
    /\ UNCHANGED <<base, store, plan, budget, at, iteration, total, wal, calls>>

MutLastPass == rpc = "pass" /\ (iteration >= 1 \/ Composed = {})

LastPass == rpc = "pass" /\ (iteration = MaxIterations \/ Composed = {})

InferTransitiveEnd ==
    /\ LastPass
    /\ iteration' = IF iteration < MaxIterations THEN iteration + 1 ELSE iteration
    /\ Log(total) /\ Advance
    /\ UNCHANGED <<base, store, plan, budget, total, calls>>

Dies ==
    /\ rpc \in {"rule", "pass"} /\ rpc' = "dead"
    /\ UNCHANGED <<base, store, plan, budget, at, iteration, total, wal, calls>>

(* The caller gives up; also the state of a process that only reads.           *)
Rest == rpc \notin {"rule", "pass"} /\ UNCHANGED inferVars

Work == InferSymmetric \/ InferTransitive \/ Pass \/ Exhausted \/ InferTransitiveEnd

InferNext == (\E p \in Plans, b \in Budgets : Infer(p, b)) \/ Work \/ Dies \/ Rest

InferSpec == InferInit /\ [][InferNext]_inferVars /\ WF_inferVars(Work)

-----------------------------------------------------------------------------
Vertices == UNION {{e[1], e[2]} : e \in Range(base)}

(* Reference: the smallest relation with the rows before the first call that   *)
(* is closed under the given rules, by Warshall's algorithm.                   *)
Warshall(R) ==
    FoldSet(LAMBDA v, acc : acc \cup {<<x, y>> \in Vertices \X Vertices : <<x, v>> \in acc /\ <<v, y>> \in acc},
            R, Vertices)
Both(R) == R \cup {<<e[2], e[1]>> : e \in R}

(* The edges the reasoner appends, in any number of calls, interrupted or not, *)
(* follow from the edges that were there: none is invented and none is stored  *)
(* twice.                                                                      *)
InferSound ==
    /\ Pairs \subseteq Warshall(Both(Range(base)))
    /\ ((\A p \in Plans : "SYMMETRIC" \notin Range(p)) => Pairs \subseteq Warshall(Range(base)))
    /\ SubSeq(store, 1, Len(base)) = base
    /\ Len(store) - Len(base) = Cardinality(Pairs \ Range(base))

(* A call that returns has closed the store under its last rule (unless it ran *)
(* out of passes), also when earlier calls died or ran over budget; SYMMETRIC  *)
(* before TRANSITIVE gives both.                                               *)
InferComplete ==
    rpc = "ok" /\ iteration < MaxIterations =>
        /\ Last(plan) = "TRANSITIVE" => Warshall(Pairs) = Pairs
        /\ Last(plan) = "SYMMETRIC" => Both(Pairs) = Pairs
        /\ plan = <<"SYMMETRIC", "TRANSITIVE">> => Both(Pairs) = Pairs

(* The edges of the log's records are rows of the store, and no more rows are  *)
(* missing from the log than passes that ended in an error or with the process *)
(* can have added: without those, the log accounts for every inferred edge.    *)
LogAccounts ==
    LET logged == FoldLeft(LAMBDA a, b : a + b, 0, wal)
        new == Len(store) - Len(base)
    IN /\ logged <= new
       /\ rpc = "ok" /\ calls = 1 => logged = new

(* The budget bounds what one transitive rule adds.                            *)
WithinBudget == rpc = "pass" /\ budget # 0 => total < budget

(* What infer_closure appends and logs: sound, complete, accounted for and     *)
(* within its budget, whatever earlier calls did.                              *)
InferExact == InferSound /\ InferComplete /\ LogAccounts /\ WithinBudget

(* Every call of infer_closure that does not die ends: with its reports or     *)
(* with the error that the budget is exhausted.                                *)
InferEnds == (rpc = "rule") ~> (rpc \in {"ok", "over", "dead"})

=============================================================================
