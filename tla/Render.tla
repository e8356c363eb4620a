------------------------------- MODULE Render -------------------------------
(***************************************************************************)
(* muggin_render: walk the tree of a template, running the query of each    *)
(* m:q element and rendering its children once per row                      *)
(* (src/muggin.c:634-889).  PlmugginCall has the call around it.            *)
(*                                                                         *)
(* There is one scope for the whole template: a binding is a write to the  *)
(* name's cell and nothing takes it back.  A cell holds a Datum, which for *)
(* most types points into the row it came from; the rows of a query are    *)
(* freed behind its element, and a cell nobody wrote holds what palloc     *)
(* found there.                                                            *)
(*                                                                         *)
(* The recursion of muggin_render_node is the variable stack.  Separators, *)
(* the doctype and the bytes of a value are left out.                      *)
(***************************************************************************)
EXTENDS Naturals, Sequences, SequencesExt, FiniteSetsExt

CONSTANTS
  Columns,     \* query text -> the columns of its result
  RowLimit     \* rows fetched of one result; 65536 in the code

ASSUME ColumnsAssumption ==
  \A text \in DOMAIN Columns : Columns[text] \in Seq(Seq(STRING))
ASSUME LimitAssumption   == RowLimit \in Nat

(* A template is [root, names, given]: a node, the names its contents use,  *)
(* and those bound before it is rendered.  A node is                        *)
(*   [kind |-> "text", contents] or                                         *)
(*   [kind |-> "element", tag, void, attributes, children]                  *)
(* an attribute [name, contents], contents a sequence of [type, id] where   *)
(* type is "constant" or "name".  The first item of the contents of an m:q  *)
(* attribute is the query's text.                                           *)

VARIABLES
  template,  \* the template, once it is parsed
  db,        \* query text -> how many rows it has now
  nulls,     \* the columns and arguments that are null
  scope,     \* m_Scope.values
  stack,     \* the activations of muggin_render_node, innermost last
  out,       \* the string buffer, as tokens
  tables,    \* how many query results there have been
  status     \* "parsing", "binding", "rendering", "done", "error" (elog), "crashed"

call == << template, db, nulls >>
page == << call, scope, stack, out, tables, status >>

-----------------------------------------------------------------------------
(* A value is known by where it came from: the column, the query text and   *)
(* the arguments that query was given, and the row.                         *)
Value(col, text, args, row) ==
  [col |-> col, text |-> text, args |-> args, row |-> row]
Junk     == Value(<< "junk" >>, <<>>, <<>>, 0)
Zero     == Value(<< "zero" >>, <<>>, <<>>, 0)      \* a null, read as the Datum 0
Arg(name) == Value(name, <<>>, <<>>, 1)   \* the call's one row

(* m_Binding: has is BF_HAS_VALUE; table is the result the Datum points     *)
(* into, 0 when into none; memory says whether it may be followed.          *)
Bound(v, t)   == [has |-> TRUE, value |-> v, table |-> t, memory |-> "live"]
Unwritten(h)  == [has |-> h, value |-> Junk, table |-> 0, memory |-> "junk"]

(* SPI_getbinval's isnull is not looked at.                                 *)
Datum(v) == IF v.col \in nulls THEN Zero ELSE v

(* A read that undefined behaviour may follow.                              *)
Risky(b) == b.has /\ (b.memory # "live" \/ b.value = Zero)

RiskyItems(contents) ==
  { i \in DOMAIN contents :
      contents[i].type = "name" /\ Risky(scope[contents[i].id]) }

(* Reading memory that is not the value's gives what it held, or junk.      *)
DeadItems(contents) ==
  { i \in RiskyItems(contents) : scope[contents[i].id].memory # "live" }

ReadItem(contents, i, J) ==
  IF i \in J THEN Junk ELSE scope[contents[i].id].value

-----------------------------------------------------------------------------
(* Output                                                                   *)

Raw(text) == [kind |-> "raw", text |-> text, value |-> Zero]
Shown(v)  == [kind |-> "value", text |-> <<>>, value |-> v]
Tag(kind, n) == [kind |-> kind, text |-> n.tag, value |-> Zero]
Open(n)   == Tag(IF n.void THEN "void" ELSE "open", n)
Close(n)  == Tag("close", n)

(* muggin_render_contents: a name without a value is left out (a notice).   *)
Piece(contents, i, J) ==
  IF contents[i].type = "constant" THEN << Raw(contents[i].id) >>
  ELSE IF scope[contents[i].id].has THEN << Shown(ReadItem(contents, i, J)) >>
  ELSE <<>>

Rendered(contents, J) ==
  FlattenSeq([i \in DOMAIN contents |-> Piece(contents, i, J)])

(* m:q is run, not shown; of several the last.                              *)
QueryAttributes(n) ==
  { i \in DOMAIN n.attributes : n.attributes[i].name = << "m:q" >> }
QueryOf(n) == n.attributes[Max(QueryAttributes(n))].contents

ShownContents(n) ==
  FlattenSeq([i \in DOMAIN n.attributes |->
    IF n.attributes[i].name = << "m:q" >> THEN <<>>
    ELSE << [type |-> "constant", id |-> n.attributes[i].name] >>
           \o n.attributes[i].contents])

-----------------------------------------------------------------------------
(* The stack                                                                *)

(* todo: "open"; "query"; "rows" (next row of the table); "children"        *)
(* (child next is to be rendered); "close".                                 *)
Frame(n) ==
  [node |-> n, todo |-> "open", next |-> 1, row |-> 0, rows |-> <<>>,
   table |-> 0]

Top    == Last(stack)
Below  == Front(stack)

Looping == QueryAttributes(Top.node) # {}
Now(todo) == Append(Below, [Top EXCEPT !.todo = todo])

(* What is left of a node once its text or opening tag is out.              *)
\* Mutant: a void element's children are rendered like any other's.
RestVoidToo ==
  IF Top.node.kind = "text" THEN Below ELSE Now(IF Looping THEN "query" ELSE "children")

Rest ==
  IF Top.node.kind = "text" \/ Top.node.void
    THEN Below ELSE Now(IF Looping THEN "query" ELSE "children")

Running(todo) == status = "rendering" /\ stack # <<>> /\ Top.todo = todo

-----------------------------------------------------------------------------
(* A text node, or the opening tag with its attributes.                     *)
Contents(n) == IF n.kind = "text" THEN n.contents ELSE ShownContents(n)
Opening(n)  == IF n.kind = "text" THEN <<>> ELSE << Open(n) >>

RenderNode ==
  LET n == Top.node IN
  /\ Running("open")
  /\ \E J \in SUBSET DeadItems(Contents(n)) :
       out' = out \o Opening(n) \o Rendered(Contents(n), J)
  /\ stack' = Rest
  /\ UNCHANGED << call, scope, tables, status >>

(* query: names become $1, $2, ... in the text and arguments beside it.     *)
Parameters(contents) ==
  FlattenSeq([i \in DOMAIN contents |->
    IF contents[i].type = "name" THEN << i >> ELSE <<>>])

Missing(contents) ==
  \E i \in DOMAIN contents :
    contents[i].type = "name" /\ ~scope[contents[i].id].has

Arguments(contents, J) ==
  LET p == Parameters(contents) IN
  [k \in DOMAIN p |-> ReadItem(contents, p[k], J)]

Fetched(text) == IF db[text] > RowLimit THEN RowLimit ELSE db[text]

RunQuery ==
  LET contents == QueryOf(Top.node)
      text     == contents[1].id IN
  /\ Running("query") /\ ~Missing(contents)
  /\ \E J \in SUBSET DeadItems(contents) :
       stack' = Append(Below, [Top EXCEPT
                  !.todo = "rows", !.table = tables + 1,
                  !.rows = [r \in 1..Fetched(text) |->
                             [k \in DOMAIN Columns[text] |->
                               Value(Columns[text][k], text,
                                     Arguments(contents, J), r)]]])
  /\ tables' = tables + 1
  /\ UNCHANGED << call, scope, out, status >>

(* elog(ERROR) ends the call: a name without a value, or the query fails.   *)
\* Mutant: it is tried again instead.
QueryFailsAgain ==
  /\ Running("query")
  /\ UNCHANGED page

QueryFails ==
  /\ Running("query")
  /\ status' = "error"
  /\ UNCHANGED << call, scope, stack, out, tables >>

(* muggin_scope_bind_idx for every column the template has a name for, the  *)
(* last of several with one name.                                           *)
ColumnsNamed(n, row) == { k \in DOMAIN row : row[k].col = n }

\* Mutant: the rows are freed behind the first of them.
BoundToFreed(n, row) ==
  IF ColumnsNamed(n, row) = {} THEN scope[n]
  ELSE [Bound(Datum(row[Max(ColumnsNamed(n, row))]), Top.table)
          EXCEPT !.memory = IF Top.row = 0 THEN "live" ELSE "freed"]

BoundTo(n, row) ==
  IF ColumnsNamed(n, row) = {} THEN scope[n]
  ELSE Bound(Datum(row[Max(ColumnsNamed(n, row))]), Top.table)

\* Mutants: every row shows the first; the counter skips a row.
FirstRow == Top.rows[1]
RowAfter == Top.row + 2

ThisRow == Top.rows[Top.row + 1]

NextRow == Top.row + 1

BindRow ==
  /\ Running("rows") /\ Top.row < Len(Top.rows)
  /\ scope' = [n \in DOMAIN scope |-> BoundTo(n, ThisRow)]
  /\ stack' = Append(Below, [Top EXCEPT !.row = NextRow, !.todo = "children",
                                        !.next = 1])
  /\ UNCHANGED << call, out, tables, status >>

(* SPI_freetuptable: the cells bound to these rows keep pointing there.     *)
Freed(t) ==
  [n \in DOMAIN scope |->
    IF scope[n].table = t THEN [scope[n] EXCEPT !.memory = "freed"] ELSE scope[n]]

FreeRows ==
  /\ Running("rows") /\ Top.row = Len(Top.rows)
  /\ scope' = Freed(Top.table)
  /\ stack' = Now("close")
  /\ UNCHANGED << call, out, tables, status >>

RenderChild ==
  /\ Running("children") /\ Top.next <= Len(Top.node.children)
  /\ stack' = Append(Below, [Top EXCEPT !.next = @ + 1])
                \o << Frame(Top.node.children[Top.next]) >>
  /\ UNCHANGED << call, scope, out, tables, status >>

EndChildren ==
  /\ Running("children") /\ Top.next > Len(Top.node.children)
  /\ stack' = Now(IF Looping THEN "rows" ELSE "close")
  /\ UNCHANGED << call, scope, out, tables, status >>

CloseElement ==
  /\ Running("close")
  /\ out' = Append(out, Close(Top.node))
  /\ stack' = Below
  /\ UNCHANGED << call, scope, tables, status >>

(* The output function of a type follows the Datum, or the type itself is   *)
(* junk: elog, or the end of the backend.                                   *)
RiskAhead ==
  \/ Running("open")  /\ RiskyItems(Contents(Top.node)) # {}
  \/ /\ Running("query") /\ ~Missing(QueryOf(Top.node))
     /\ RiskyItems(QueryOf(Top.node)) # {}

BadRead ==
  /\ RiskAhead
  /\ status' \in { "error", "crashed" }
  /\ UNCHANGED << call, scope, stack, out, tables >>

Finish ==
  /\ status = "rendering" /\ stack = <<>>
  /\ status' = "done"
  /\ UNCHANGED << call, scope, stack, out, tables >>

RenderStep ==
  \/ RenderNode \/ RunQuery \/ QueryFails \/ BindRow \/ FreeRows
  \/ RenderChild \/ EndChildren \/ CloseElement \/ BadRead \/ Finish
=============================================================================
