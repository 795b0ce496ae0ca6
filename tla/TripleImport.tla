---------------------------- MODULE TripleImport ----------------------------
(***************************************************************************)
(* Statements and resources brought into a database:                       *)
(* caracaldb/ingest/rdf_import.py (import_ntriples) and, in caracaldb/     *)
(* api.py, insert_triples and import_resource.                             *)
(*                                                                         *)
(* Every import is turned into a node table and an edge table, which go    *)
(* through insert_node_table, one store after the other, and then through  *)
(* insert_edge_table.  A store takes only batches with the columns of its  *)
(* first one; a batch has the columns of its first row.  The process may   *)
(* end between two stores.  Values are strings.                            *)
(***************************************************************************)
EXTENDS Integers, Sequences, FiniteSets, SequencesExt, FiniteSetsExt

CONSTANTS
    Kinds,       \* class names, in the order sorted() gives
    Preds,       \* local names of predicates, in the order sorted() gives
    KindOf,      \* the class that _type_from_external_id reads off each external id
    Default,     \* default_class
    Imports,     \* the calls, see Lowered
    MaxImports,  \* bound on the calls
    Null         \* a value that is missing

VARIABLES
    nodeRows,    \* node stores: [cols, rows], a row is [id, kind, gid, vals]
    edgeRows,    \* edge stores: [cols, rows], a row is <<gid of src, gid of dst>>
    idMap,       \* the cached map of external ids, Null when it is not loaded
    imp,         \* the import in progress
    imports,     \* the number of calls
    base,        \* history: the stores when the last import began
    ghostGids    \* history: gids of a map that kept the ids of a refused batch

impVars == <<nodeRows, edgeRows, idMap, imp, imports, base, ghostGids>>

Kind == ToSet(Kinds)
NoStoreYet == [cols |-> <<>>, rows |-> <<>>]
Lowering == [nodes |-> <<>>, edges |-> <<>>, edgeCols |-> <<>>]
NoImport == [at |-> "idle", call |-> Null, in |-> Lowering, groups |-> <<>>]

ImportInit ==
    /\ nodeRows = [k \in Kind |-> NoStoreYet] /\ edgeRows = [p \in ToSet(Preds) |-> NoStoreYet]
    /\ idMap = Null /\ imp = NoImport /\ imports = 0 /\ ghostGids = {}
    /\ base = [nodes |-> nodeRows, edges |-> edgeRows]

-----------------------------------------------------------------------------
(* From statements to tables.  A dictionary of rows is a sequence in the order *)
(* of insertion, a row is [id, kind, gid, cols, vals].                         *)

NewRow(id, kind, cols) == [id |-> id, kind |-> kind, gid |-> Null, cols |-> cols, vals |-> [c \in ToSet(cols) |-> Null]]
HasRow(rows, id) == \E i \in DOMAIN rows : rows[i].id = id
SetDefault(rows, row) == IF HasRow(rows, row.id) THEN rows ELSE Append(rows, row)
SetValue(row, c, v) ==
    [row EXCEPT !.cols = IF c \in ToSet(@) THEN @ ELSE Append(@, c),
                !.vals = [x \in DOMAIN @ \cup {c} |-> IF x = c THEN v ELSE @[x]]]
InRow(rows, id, Op(_)) == [i \in DOMAIN rows |-> IF rows[i].id = id THEN Op(rows[i]) ELSE rows[i]]

(* parse_ntriples: lines with a blank node are left out.                       *)
Parsed(lines) == SelectSeq(lines, LAMBDA t : t.is # "blank")

(* lower_to_tables, one triple: only objects and the subjects of literals      *)
(* become nodes here, and subjects with a class afterwards.                    *)
LowerTriple(acc, t) ==
    CASE t.is = "type" -> [acc EXCEPT !.kinds = InRow(SetDefault(@, NewRow(t.s, t.o, <<>>)), t.s,
                                                       LAMBDA r : [r EXCEPT !.kind = t.o])]
      [] t.is = "link" -> [acc EXCEPT !.edges = Append(@, t), !.nodes = SetDefault(@, NewRow(t.o, Default, <<>>))]
      [] t.is = "value" -> [acc EXCEPT !.nodes = InRow(SetDefault(@, NewRow(t.s, Default, <<>>)), t.s,
                                                        LAMBDA r : SetValue(r, t.p, t.o))]

LowerToTables(triples) ==
    LET acc == FoldLeft(LowerTriple, [nodes |-> <<>>, kinds |-> <<>>, edges |-> <<>>], triples)
        all == FoldLeft(SetDefault, acc.nodes, acc.kinds)
        KindIn(r) == LET S == {i \in DOMAIN acc.kinds : acc.kinds[i].id = r.id}
                     IN IF S = {} THEN Default ELSE acc.kinds[CHOOSE i \in S : TRUE].kind
    IN  [nodes |-> [i \in DOMAIN all |-> [all[i] EXCEPT !.kind = KindIn(all[i])]],
         edges |-> acc.edges, edgeCols |-> <<"node_id">>]

(* _placeholder_node; the mark stays on a node that is described later.        *)
Placeholder(id) == SetValue(NewRow(id, KindOf[id], <<>>), "_placeholder", "true")

(* insert_triples, one statement: subject and object both get a node.          *)
MutInsertTriple(acc, t) ==
    LET nodes == SetDefault(acc.nodes, Placeholder(t.s)) IN
    CASE t.is = "type" -> [acc EXCEPT !.nodes = SetDefault(nodes, NewRow(t.s, t.o, <<>>))]
      [] t.is = "value" -> [acc EXCEPT !.nodes = InRow(nodes, t.s, LAMBDA r : SetValue(r, t.p, t.o))]
      [] t.is = "link" -> [acc EXCEPT !.nodes = SetDefault(nodes, Placeholder(t.o)), !.edges = Append(@, t)]

InsertTriple(acc, t) ==
    LET nodes == SetDefault(acc.nodes, Placeholder(t.s)) IN
    CASE t.is = "type" -> [acc EXCEPT !.nodes = InRow(nodes, t.s, LAMBDA r : [r EXCEPT !.kind = t.o])]
      [] t.is = "value" -> [acc EXCEPT !.nodes = InRow(nodes, t.s, LAMBDA r : SetValue(r, t.p, t.o))]
      [] t.is = "link" -> [acc EXCEPT !.nodes = SetDefault(nodes, Placeholder(t.o)), !.edges = Append(@, t)]
InsertTriples(triples) == FoldLeft(InsertTriple, Lowering, triples)

(* _external_id_map, from the stores when it is not cached.                    *)
StoredRows == FlattenSeq([i \in DOMAIN Kinds |-> nodeRows[Kinds[i]].rows])
GidIn(rows, id) == rows[Max({i \in DOMAIN rows : rows[i].id = id})].gid
IdMap == IF idMap # Null THEN idMap
         ELSE [id \in {r.id : r \in ToSet(StoredRows)} |-> GidIn(StoredRows, id)]

(* _import_neo4j_resource: targets that are not known become placeholders, one *)
(* for each relationship.                                                      *)
Described(r) == FoldLeft(LAMBDA row, s : SetValue(row, s.p, s.o), NewRow(r.s, r.o, <<>>), r.props)
ImportNeo4j(r) ==
    LET new == SelectSeq(r.links, LAMBDA t : t.o \notin DOMAIN IdMap)
        node == Described([r EXCEPT !.props = <<[p |-> "_labels", o |-> "label"]>> \o @])
    IN [nodes |-> <<node>> \o [i \in DOMAIN new |-> Placeholder(new[i].o)], edges |-> r.links, edgeCols |-> <<>>]

(* _import_iri_resource, and a typed node.                                     *)
ImportIri(r) == [Lowering EXCEPT !.nodes = <<Described([r EXCEPT !.props = <<[p |-> "_iri", o |-> "iri"]>> \o @])>>]
ImportNode(r) == [Lowering EXCEPT !.nodes = <<Described(r)>>]

(* import_resource by the shape of the resource, and the two imports of        *)
(* statements.                                                                 *)
Lowered(call) ==
    CASE call.shape = "ntriples" -> LowerToTables(Parsed(call.lines))
      [] call.shape = "triples" -> InsertTriples(call.lines)
      [] call.shape = "neo4j" -> ImportNeo4j(call.resource)
      [] call.shape = "iri" -> ImportIri(call.resource)
      [] call.shape = "node" -> ImportNode(call.resource)
      [] call.shape = "edge" -> [Lowering EXCEPT !.edges = <<call.resource>>]

(* The calls that raise before they look at the database: a line that is no    *)
(* statement, no statement at all, a resource of no known shape.               *)
ImportRaises(call) ==
    \/ call.shape \in {"ntriples", "triples"} /\ \E i \in DOMAIN call.lines : call.lines[i].is = "bad"
    \/ call.shape = "triples" /\ call.lines = <<>>
    \/ call.shape = "unknown"

-----------------------------------------------------------------------------
(* The tables into the stores.                                                 *)

Resting == {"idle", "returned", "raised"}

BeginImport(call) ==
    /\ imp.at \in Resting /\ imports < MaxImports /\ imports' = imports + 1
    /\ base' = [nodes |-> nodeRows, edges |-> edgeRows]
    /\ IF ImportRaises(call)
       THEN imp' = [NoImport EXCEPT !.at = "raised", !.call = call] /\ UNCHANGED idMap
       ELSE /\ imp' = [NoImport EXCEPT !.at = "assign", !.call = call, !.in = Lowered(call)]
            /\ idMap' = IF call.shape = "neo4j" THEN IdMap ELSE idMap
    /\ UNCHANGED <<nodeRows, edgeRows, ghostGids>>

(* insert_node_table: ids that are new get the next gids, in the cached map    *)
(* itself; the rows are grouped by class in the order of their first rows.     *)
AddId(m, id) ==
    IF id \in DOMAIN m THEN m
    ELSE [x \in DOMAIN m \cup {id} |-> IF x = id THEN Max({m[y] : y \in DOMAIN m} \cup {-1}) + 1 ELSE m[x]]
Grouped(rows, field) ==
    LET first == SelectSeq([i \in DOMAIN rows |-> i],
                           LAMBDA i : \A j \in 1..(i - 1) : rows[j][field] # rows[i][field])
    IN  [n \in DOMAIN first |-> SelectSeq(rows, LAMBDA r : r[field] = rows[first[n]][field])]

Assign ==
    /\ imp.at = "assign"
    /\ LET rows == imp.in.nodes
           gids == FoldLeft(AddId, IdMap, [i \in DOMAIN rows |-> rows[i].id])
           out == [i \in DOMAIN rows |-> [rows[i] EXCEPT !.gid = gids[rows[i].id]]]
       IN  IF rows = <<>> THEN imp' = [imp EXCEPT !.at = "resolve"] /\ UNCHANGED idMap
           ELSE /\ idMap' = gids
                /\ imp' = [imp EXCEPT !.at = "node", !.groups = Grouped(out, "kind")]
    /\ UNCHANGED <<nodeRows, edgeRows, imports, base, ghostGids>>

(* insert_nodes, one class: the columns are those of the first row.  An append *)
(* drops the cached map; a refused one (CDB-7011) leaves it with the new ids.  *)
Differs(store, cols) == store.rows # <<>> /\ store.cols # cols
AppendGroup ==
    /\ imp.at = "node"
    /\ LET group == Head(imp.groups)
           k == group[1].kind
           cols == group[1].cols
           Value(r, c) == IF c \in ToSet(r.cols) THEN r.vals[c] ELSE Null
           Stored(r) == [id |-> r.id, kind |-> k, gid |-> r.gid, vals |-> [c \in ToSet(cols) |-> Value(r, c)]]
       IN  IF Differs(nodeRows[k], cols)
           THEN /\ imp' = [imp EXCEPT !.at = "raised"]
                /\ ghostGids' = ghostGids \cup (IF idMap = Null THEN {} ELSE {idMap[id] : id \in DOMAIN idMap})
                /\ UNCHANGED <<nodeRows, idMap>>
           ELSE /\ nodeRows' = [nodeRows EXCEPT ![k] =
                       [cols |-> cols, rows |-> @.rows \o [i \in DOMAIN group |-> Stored(group[i])]]]
                /\ idMap' = Null
                /\ imp' = [imp EXCEPT !.groups = Tail(@), !.at = IF Tail(imp.groups) = <<>> THEN "resolve" ELSE @]
                /\ UNCHANGED ghostGids
    /\ UNCHANGED <<edgeRows, imports, base>>

(* insert_edge_table: every end is looked up before the first append.          *)
Resolve ==
    /\ imp.at = "resolve"
    /\ LET links == imp.in.edges
           Known(t) == t.s \in DOMAIN IdMap /\ t.o \in DOMAIN IdMap
       IN  IF links = <<>> THEN imp' = [imp EXCEPT !.at = "returned"] /\ UNCHANGED idMap
           ELSE /\ idMap' = IdMap
                /\ imp' = IF \E i \in DOMAIN links : ~Known(links[i]) THEN [imp EXCEPT !.at = "raised"]
                          ELSE [imp EXCEPT !.at = "edge", !.groups = Grouped(links, "p")]
    /\ UNCHANGED <<nodeRows, edgeRows, imports, base, ghostGids>>

AppendEdges ==
    /\ imp.at = "edge"
    /\ LET group == Head(imp.groups)
           p == group[1].p
           cols == imp.in.edgeCols
       IN  IF Differs(edgeRows[p], cols) THEN imp' = [imp EXCEPT !.at = "raised"] /\ UNCHANGED edgeRows
           ELSE /\ edgeRows' = [edgeRows EXCEPT ![p] = [cols |-> cols,
                       rows |-> @.rows \o [i \in DOMAIN group |-> <<idMap[group[i].s], idMap[group[i].o]>>]]]
                /\ imp' = [imp EXCEPT !.groups = Tail(@), !.at = IF Tail(imp.groups) = <<>> THEN "returned" ELSE @]
    /\ UNCHANGED <<nodeRows, idMap, imports, base, ghostGids>>

(* The process ends and the database is opened again.                          *)
Reopen ==
    /\ idMap # Null \/ imp.at \notin Resting
    /\ idMap' = Null /\ imp' = [imp EXCEPT !.at = "idle"]
    /\ UNCHANGED <<nodeRows, edgeRows, imports, base, ghostGids>>

ImportNext ==
    \/ \E call \in Imports : BeginImport(call)
    \/ Assign \/ AppendGroup \/ Resolve \/ AppendEdges \/ Reopen

-----------------------------------------------------------------------------
(* Looking a resource up.                                                      *)

(* _find_resource_row and _external_id_for_gid: the first row of the stores.   *)
FindResourceRow(id) == SelectSeq(StoredRows, LAMBDA r : r.id = id)[1]
ExternalIds(gid) == LET rs == SelectSeq(StoredRows, LAMBDA r : r.gid = gid)
                    IN IF rs = <<>> THEN {} ELSE {rs[1].id}

(* _edges_for_gid, and the statements of export_resource_turtle.               *)
EdgesFor(gid) ==
    UNION {{<<p, e[2]>> : e \in {f \in ToSet(edgeRows[p].rows) : f[1] = gid}} : p \in ToSet(Preds)}
Exported(id) ==
    LET row == FindResourceRow(id)
        told == {c \in DOMAIN row.vals \ {"_placeholder", "_labels", "_iri"} : row.vals[c] # Null}
    IN  [kind |-> row.kind, values |-> {<<c, row.vals[c]>> : c \in told},
         links |-> UNION {{<<e[1], o>> : o \in ExternalIds(e[2])} : e \in EdgesFor(row.gid)}]

-----------------------------------------------------------------------------
(* What the statements of a call say.                                          *)
Lines == IF imp.call.shape \in {"ntriples", "triples"} THEN Parsed(imp.call.lines)
         ELSE IF imp.call.shape = "neo4j" THEN imp.call.resource.links
         ELSE IF imp.call.shape = "edge" THEN <<imp.call.resource>> ELSE <<>>
Links(p) == SelectSeq(Lines, LAMBDA t : t.is = "link" /\ t.p = p)
Said(Test(_)) == {i \in DOMAIN Lines : Test(Lines[i])}
LastSaid(Test(_), otherwise) == IF Said(Test) = {} THEN otherwise ELSE Lines[Max(Said(Test))].o
Mentioned == {t.o : t \in {u \in ToSet(Lines) : u.is = "link"}}
             \cup {t.s : t \in {u \in ToSet(Lines) : imp.call.shape = "ntriples" => u.is # "link"}}
Fresh(k) == SubSeq(nodeRows[k].rows, Len(base.nodes[k].rows) + 1, Len(nodeRows[k].rows))
FreshRows == FlattenSeq([i \in DOMAIN Kinds |-> Fresh(Kinds[i])])

(* An import of statements that returns stored one row for every resource they *)
(* mention, in the class and with the values they say last, as far as the      *)
(* columns of the class go.                                                    *)
RowsSaid ==
    imp.at = "returned" /\ imp.call.shape \in {"ntriples", "triples"} =>
        /\ {r.id : r \in ToSet(FreshRows)} = Mentioned /\ Len(FreshRows) = Cardinality(Mentioned)
        /\ \A r \in ToSet(FreshRows) :
               LET otherwise == IF imp.call.shape = "ntriples" THEN Default ELSE KindOf[r.id] IN
               /\ r.kind = LastSaid(LAMBDA t : t.is = "type" /\ t.s = r.id, otherwise)
               /\ \A c \in DOMAIN r.vals \ {"_placeholder"} :
                      r.vals[c] = LastSaid(LAMBDA t : t.is = "value" /\ t.s = r.id /\ t.p = c, Null)

(* An import that returns stored its links, in order and between the resources *)
(* it names, and an export of their source has them.                           *)
LinksSaid ==
    imp.at = "returned" =>
        \A p \in ToSet(Preds) :
            LET new == SubSeq(edgeRows[p].rows, Len(base.edges[p].rows) + 1, Len(edgeRows[p].rows)) IN
            /\ Len(new) = Len(Links(p))
            /\ imp.call.shape # "edge" => \A i \in DOMAIN new :
                   /\ new[i] = <<FindResourceRow(Links(p)[i].s).gid, FindResourceRow(Links(p)[i].o).gid>>
                   /\ <<p, Links(p)[i].o>> \in Exported(Links(p)[i].s).links

(* Whatever was refused or cut short: a gid stands for one resource, no edge   *)
(* is stored before the nodes of its import, and no edge ends at a gid that    *)
(* was never given out.                                                        *)
ImportSound ==
    /\ \A r, s \in ToSet(StoredRows) : r.id = s.id <=> r.gid = s.gid
    /\ edgeRows # base.edges => {r.id : r \in ToSet(imp.in.nodes)} \subseteq {r.id : r \in ToSet(FreshRows)}
    /\ \A p \in ToSet(Preds) : \A e \in ToSet(edgeRows[p].rows) :
           {e[1], e[2]} \subseteq {r.gid : r \in ToSet(StoredRows)} \cup ghostGids

ImportExact == RowsSaid /\ LinksSaid /\ ImportSound
=============================================================================
