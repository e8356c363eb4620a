---------------------------- MODULE RenderScope ----------------------------
(* What a template means when names are scoped as the README has it, "with  *)
(* names in the query result set bound" for the children of an element and  *)
(* nowhere else, and the properties that compare a call with that, from the *)
(* lines of the source to the page.                                         *)
EXTENDS PlmugginCall, RenderSafety

(* The rows a query has for given arguments                                 *)
RowsOf(text, args) ==
  [r \in 1..db[text] |->
    [k \in DOMAIN Columns[text] |-> Value(Columns[text][k], text, args, r)]]

(* An environment: name -> value, for the names in scope.                   *)
Extended(env, row) ==
  [n \in DOMAIN env \cup { row[k].col : k \in DOMAIN row } |->
    IF \E k \in DOMAIN row : row[k].col = n
      THEN row[CHOOSE k \in DOMAIN row : row[k].col = n]
      ELSE env[n]]

Said(contents, env) ==
  FlattenSeq([i \in DOMAIN contents |->
    IF contents[i].type = "constant" THEN << Raw(contents[i].id) >>
    ELSE IF contents[i].id \in DOMAIN env THEN << Shown(env[contents[i].id]) >>
    ELSE <<>>])

(* The environments of an element's children, one after the other           *)
Inside(n, env) ==
  IF QueryAttributes(n) = {} THEN << env >>
  ELSE LET q    == QueryOf(n)
           p    == Parameters(q)
           rows == RowsOf(q[1].id, [k \in DOMAIN p |-> env[q[p[k]].id]])
       IN  [r \in DOMAIN rows |-> Extended(env, rows[r])]

(* The page of a node: a function of the node and its environment, and of   *)
(* what the pages of its children are in theirs.                            *)
PageWith(n, env, below) ==
  IF n.kind = "text" THEN Said(n.contents, env)
  ELSE
    LET children(e) ==
          FlattenSeq([i \in DOMAIN n.children |-> below[<< n.children[i], e >>]])
        inside == [r \in DOMAIN Inside(n, env) |-> children(Inside(n, env)[r])]
    IN << Open(n) >> \o Said(ShownContents(n), env)
       \o (IF n.void THEN <<>> ELSE FlattenSeq(inside) \o << Close(n) >>)

ChildrenIn(p) ==
  { << n, e >> : n \in ToSet(p[1].children), e \in ToSet(Inside(p[1], p[2])) }

Page(top, env) ==
  LET level[d \in 0..MaxDepth] ==
        IF d = 0 THEN { << top, env >> }
        ELSE UNION { ChildrenIn(p) : p \in { q \in level[d - 1] : q[1].kind = "element" } }
      pageOf[h \in 0..MaxDepth] ==
        [p \in level[MaxDepth - h] |->
          PageWith(p[1], p[2], IF h = 0 THEN <<>> ELSE pageOf[h - 1])]
  IN  pageOf[MaxDepth][<< top, env >>]

-----------------------------------------------------------------------------
(* The lines of the source that count, and the tree they mean.              *)
Lines   == Written(function.lines)
Meant   == Node(Accepted(Lines))

InputNames == { Inputs[i].name : i \in DOMAIN Inputs }

(* Every argument is named, and no output stands in front of an input or    *)
(* has the name of one.                                                     *)
WellCalled ==
  /\ Unnamed = {}
  /\ IsPrefix(Inputs, Args)
  /\ \A i, j \in DOMAIN Args : Args[i].name = Args[j].name => i = j

WellScoped ==
  WellCalled /\ InScope(Meant, InputNames) /\ Unshadowed(Meant, InputNames)

-----------------------------------------------------------------------------
(* Properties                                                               *)

(* Every variable keeps to its type, and a rendering begins in a state that *)
(* RenderSafety's Begin describes.                                          *)
TypeOK ==
  /\ Running("open") /\ Len(stack) = 1 => Begin
  /\ status \in { "binding", "rendering", "done" } =>
       db \in function.tables /\ nulls \in function.nulls
  /\ parsing \in { "parsing", "parsed", "failed", "error", "crashed", "hung" }
  /\ \A pool \in { constants, names } :
       /\ DOMAIN pool.slots = 0..(P!Size(pool) - 1)
       /\ Len(pool.idxs) <= P!Size(pool) /\ ToSet(pool.idxs) \subseteq DOMAIN pool.slots
  /\ DOMAIN scope = template.names
  /\ \A n \in DOMAIN scope :
       /\ scope[n].has \in BOOLEAN /\ scope[n].table \in 0..tables
       /\ scope[n].memory \in { "live", "freed", "junk" }
  /\ \A i \in DOMAIN stack :
       /\ stack[i].todo \in { "open", "query", "rows", "children", "close" }
       /\ stack[i].row \in 0..Len(stack[i].rows) /\ stack[i].table \in 0..tables
  /\ tables \in Nat
  /\ status \in { "parsing", "binding", "rendering", "done", "error", "crashed", "hung" }

(* The source ends inside a value without quotes.                           *)
EndsInValue ==
  LET reached == Reached(Lines) IN
  reached # <<>> /\ EndlessAt(Lines, Len(reached))

(* The tree is the one the lines mean by their indentation, with every tag, *)
(* attribute and text what was written although the parser keeps them by    *)
(* number in tables that grow and rehash under it; it stops without a word  *)
(* at the first line that is not where a child can be.  Of the lines above  *)
(* that, two kinds are not what and where they were written, and no other:  *)
(* the one behind an empty text line is its text (TextTaken), and what is   *)
(* behind the beginning of a name that does not parse is a child further    *)
(* out, or stops the parser (Room).  Only a value that ends with the source *)
(* keeps it for ever.  For lines that are Unambiguous                       *)
(* (muggin.c:83-192, 353-357, 435-574).                                     *)
AsWritten ==
  status = "parsing" =>
    CASE parsing = "parsed" -> /\ Accepted(Lines) # <<>> /\ ~AnyBroken(Accepted(Lines))
                               /\ Tree(root[1]) = Meant
      [] parsing = "failed" -> Accepted(Lines) = <<>>
      [] parsing = "error"  -> AnyBroken(Reached(Lines))
      [] parsing = "hung"   -> EndsInValue
      [] OTHER -> TRUE

(* One flat scope is enough when no name hides another: the page is the one *)
(* lexical scoping gives to the source, every row's children with that      *)
(* row's values and every nested query with the arguments of its row,       *)
(* although each binding stays in effect behind its element                 *)
(* (muggin.c:802-826, 871-873); the arguments are the call's                *)
(* (plmuggin.c:147-157).                                                    *)
LexicalPage ==
  status = "done" /\ WellScoped /\ nulls = {}
    /\ (\A t \in DOMAIN db : db[t] <= RowLimit)
    => out = Page(Meant, [n \in InputNames |-> Arg(n)])

(* The parser reads on or finishes what it is at, with every step it takes: *)
(* it cannot go round in circles, whatever it is given                      *)
(* (muggin.c:435-574).                                                      *)
Ahead(todo) ==
  CASE todo = "name" -> 3 [] todo = "attributes" -> 2
    [] todo = "content" -> 1 [] todo = "children" -> 0
ToFinish ==
  Len(open) + (IF parsing = "parsing" THEN 1 ELSE 0)
    + IF open = <<>> THEN 0 ELSE Ahead(P!Inner.todo)

Shrinks ==
  [][parser' # parser =>
       \/ Len(input') < Len(input)
       \/ Len(input') = Len(input) /\ ToFinish' < ToFinish]_vars

(* Once it is bound every template comes to an end, a page, an error or a  *)
(* crash, whatever the tables hold and however deep its queries nest        *)
(* (muggin.c:726-841).                                                      *)
Terminates == (status = "rendering") ~> Ended
=============================================================================
