---------------------------- MODULE RenderSafety ----------------------------
(***************************************************************************)
(* What muggin_render owes for any template, whatever its queries return:   *)
(* the state it is called in (plmuggin.c:163-178), when the one flat scope  *)
(* is enough, and the properties that do not depend on where the template   *)
(* came from.                                                               *)
(***************************************************************************)
EXTENDS Render

CONSTANT MaxDepth  \* bound: how deep the elements of a template nest

ASSUME DepthAssumption == MaxDepth \in Nat

(* The names that contents, and a node itself, use; those that an m:q       *)
(* element binds for its children.                                          *)
UsedIn(contents) ==
  { contents[i].id : i \in { j \in DOMAIN contents : contents[j].type = "name" } }

UsedBy(n) ==
  IF n.kind = "text" THEN UsedIn(n.contents)
  ELSE UNION { UsedIn(n.attributes[i].contents) : i \in DOMAIN n.attributes }

HasQuery(n)  == n.kind = "element" /\ QueryAttributes(n) # {}
QueryText(n) == QueryOf(n)[1].id
ColumnsOf(n) == IF HasQuery(n) THEN ToSet(Columns[QueryText(n)]) ELSE {}

(* The nodes that are d elements deep, each with the names bound around it. *)
Within(p) ==
  { << p[1].children[i], p[2] \cup ColumnsOf(p[1]) >> : i \in DOMAIN p[1].children }
Deeper(level) == UNION { Within(p) : p \in { q \in level : q[1].kind = "element" } }

NodesAt(root, given) ==
  LET level[d \in 0..MaxDepth] ==
        IF d = 0 THEN { << root, given >> } ELSE Deeper(level[d - 1])
  IN  level

(* Every name is used where it is bound; no element binds a name that one   *)
(* around it, or an argument, binds.                                        *)
InScope(root, given) ==
  \A d \in 0..MaxDepth : \A p \in NodesAt(root, given)[d] : UsedBy(p[1]) \subseteq p[2]

Unshadowed(root, given) ==
  \A d \in 0..MaxDepth : \A p \in NodesAt(root, given)[d] : ColumnsOf(p[1]) \cap p[2] = {}

-----------------------------------------------------------------------------
(* The call: a tree of nodes whose names are in the scope and whose queries *)
(* exist, with the cells of the given names bound.                          *)
Items      == [type : { "constant", "name" }, id : Seq(STRING)]
Attributes == [name : Seq(STRING), contents : Seq(Items)]

IsTreeNode(n) ==
  \/ n.kind = "text" /\ n.contents \in Seq(Items)
  \/ /\ n.kind = "element" /\ n.void \in BOOLEAN
     /\ n.attributes \in Seq(Attributes)
     /\ Len(n.children) \in Nat /\ DOMAIN n.children = 1..Len(n.children)

Queryable(n) ==
  HasQuery(n) => /\ QueryOf(n) # <<>>
                 /\ QueryText(n) \in DOMAIN db \cap DOMAIN Columns
                 /\ db[QueryText(n)] \in Nat

Levels == NodesAt(template.root, template.given)

Renderable ==
  /\ Levels[MaxDepth] = {}
  /\ \A d \in 0..MaxDepth : \A p \in Levels[d] :
       IsTreeNode(p[1]) /\ Queryable(p[1]) /\ UsedBy(p[1]) \subseteq template.names

Readable(b, t) ==
  b.has /\ b.memory = "live" /\ b.table = t /\ (nulls = {} => b.value # Zero)

Begin ==
  /\ Renderable
  /\ DOMAIN scope = template.names
  /\ \A n \in template.given \cap template.names : Readable(scope[n], 0)
  /\ stack = << Frame(template.root) >> /\ out = <<>> /\ tables = 0
  /\ status = "rendering"

RenderSpec == Begin /\ [][RenderStep]_page

-----------------------------------------------------------------------------
(* Properties                                                               *)

(* When no name hides another, no cell is read before it is written or      *)
(* after its row is freed, neither for the page nor for a query's arguments *)
(* (muggin.c:644, 697, 828; the scope is not cleared, muggin.c:848).        *)
Scoped ==
  InScope(template.root, template.given) /\ Unshadowed(template.root, template.given)

SafeReads == RiskAhead => ~Scoped \/ nulls # {}

(* Tags nest: what is open in the output is what the recursion is inside    *)
(* of, whatever the queries return and at whatever point the call ends      *)
(* (muggin.c:726-841).                                                      *)
WithToken(tags, token) ==
  CASE token.kind = "open"  -> Append(tags, token.text)
    [] token.kind = "close" -> IF tags # <<>> /\ Last(tags) = token.text
                                 THEN Front(tags) ELSE Append(tags, << "/" >>)
    [] OTHER -> tags

TagsIn(tokens) ==
  LET after[k \in 0..Len(tokens)] ==
        IF k = 0 THEN <<>> ELSE WithToken(after[k - 1], tokens[k])
  IN  after[Len(tokens)]

\* the elements whose opening tag is out
Entered == IF stack # <<>> /\ Top.todo = "open" THEN Below ELSE stack

Nested == TagsIn(out) = [i \in DOMAIN Entered |-> Entered[i].node.tag]
=============================================================================
