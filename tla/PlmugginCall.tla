---------------------------- MODULE PlmugginCall ----------------------------
(***************************************************************************)
(* One call of a plmuggin function (plmuggin_func_handler,                  *)
(* src/plmuggin.c:95-196): its source is parsed, the arguments are bound to *)
(* the names of the template, and the template is rendered.  It composes    *)
(* the parser (MugginParse) and the renderer (Render).                      *)
(***************************************************************************)
EXTENDS Render, MugginSource

CONSTANTS
  Calls,  \* [lines, args, tables, nulls]: a function's source and arguments
          \* [name, mode]; what the tables may hold and what may be null
  Words, Hash(_), FirstSize   \* see MugginParse

ASSUME CallsAssumption ==
  \A c \in Calls : /\ Source(c.lines) \in Seq(STRING)
                   /\ c.args \in Seq([name : Seq(STRING), mode : STRING])
ASSUME WordsAssumption ==
  Words \subseteq STRING /\ "eos" \notin Words /\ { "id", "class" } \subseteq Words
ASSUME SizeAssumption  == FirstSize \in Nat /\ FirstSize >= 2

VARIABLES
  function,                                         \* the call
  input, open, constants, names, root, parsing      \* see MugginParse

P == INSTANCE MugginParse

parser == << input, open, constants, names, root, parsing >>
vars   == << function, parser, page >>

(* A cell of the scope is known by its name, and the tree by the strings    *)
(* its numbers stand for now.                                               *)
NameOf(id) == P!Entry(names, id)
TextOf(id) == P!Entry(constants, id)

Reading(contents) ==
  [i \in DOMAIN contents |->
    [type |-> contents[i].type,
     id |-> IF contents[i].type = "name" THEN NameOf(contents[i].id)
            ELSE TextOf(contents[i].id)]]

ReadNode(n, children) ==
  IF n.kind = "text" THEN [kind |-> "text", contents |-> Reading(n.contents)]
  ELSE [kind |-> "element", tag |-> TextOf(n.tag), void |-> n.void,
        attributes |->
          [i \in DOMAIN n.attributes |->
            [name |-> TextOf(n.attributes[i].name),
             contents |-> Reading(n.attributes[i].contents)]],
        children |-> children]

(* The nodes that are d elements deep, and each of them as it is read; no   *)
(* node is deeper than the source is long.                                  *)
Tree(top) ==
  LET deepest == Len(Source(function.lines))
      level[d \in 0..deepest] ==
        IF d = 0 THEN { top }
        ELSE UNION { ToSet(n.children) : n \in { m \in level[d - 1] : m.kind = "element" } }
      read[h \in 0..deepest] ==
        [n \in level[deepest - h] |->
          ReadNode(n, IF h = 0 \/ n.kind = "text" THEN <<>>
                      ELSE [i \in DOMAIN n.children |-> read[h - 1][n.children[i]]])]
  IN  read[deepest][top]

(* get_func_arg_info counts every argument, and has no names at all when    *)
(* none is named; fcinfo has the values of the input arguments only, and    *)
(* behind them whatever is there.                                           *)
InputsOf(args) ==
  FlattenSeq([i \in DOMAIN args |-> IF args[i].mode # "out" THEN << args[i] >> ELSE <<>>])
Args    == function.args
Inputs  == InputsOf(Args)
Unnamed == { i \in DOMAIN Args : Args[i].name = <<>> }
NoNames == Unnamed # {} /\ Unnamed = DOMAIN Args

(* The names an argument's value is bound to, and none that is not there.   *)
Given ==
  { Args[i].name : i \in DOMAIN Args \cap DOMAIN Inputs }
    \ { Args[i].name : i \in DOMAIN Args \ DOMAIN Inputs }

NoTemplate == [root |-> <<>>, names |-> {}, given |-> {}]

Init ==
  /\ function \in Calls /\ P!InitWith(Source(function.lines))
  /\ template = NoTemplate /\ db = <<>> /\ nulls = {} /\ scope = <<>>
  /\ stack = <<>> /\ out = <<>> /\ tables = 0 /\ status = "parsing"

Parse ==
  /\ status = "parsing" /\ P!Step
  /\ UNCHANGED << function, page >>

(* muggin_scope_new: the cells hold what was in the memory.  From here on   *)
(* it matters what the call is given and what the tables hold.              *)
Load ==
  /\ status = "parsing" /\ parsing = "parsed"
  /\ template' = [root |-> Tree(root[1]), given |-> Given,
                  names |-> { NameOf(id) : id \in DOMAIN names.idxs }]
  /\ \E h \in [template'.names -> BOOLEAN] :
       scope' = [n \in template'.names |-> Unwritten(h[n])]
  /\ db' \in function.tables /\ nulls' \in function.nulls
  /\ status' = "binding"
  /\ UNCHANGED << function, parser, stack, out, tables >>

(* elog, also "Template loading failed."                                    *)
LoadFails ==
  /\ status = "parsing" /\ parsing \in { "failed", "error", "crashed", "hung" }
  /\ status' = IF parsing = "failed" THEN "error" ELSE parsing
  /\ UNCHANGED << function, parser, call, scope, stack, out, tables >>

-----------------------------------------------------------------------------
Passed(i) ==
  IF i \in DOMAIN Inputs THEN Bound(Datum(Arg(Inputs[i].name)), 0)
  ELSE [Unwritten(TRUE) EXCEPT !.memory = "junk"]

(* muggin_scope_bind: an argument the template does not use is not bound.   *)
WithArgument(cells, i) ==
  LET id == P!Lookup(names, Args[i].name) IN
  IF id = 0 THEN cells ELSE [cells EXCEPT ![NameOf(id)] = Passed(i)]

ArgumentScope ==
  LET bound[i \in 0..Len(Args)] ==
        IF i = 0 THEN scope ELSE WithArgument(bound[i - 1], i)
  IN  bound[Len(Args)]

(* A free slot passes for the empty name, and has no number: elog.          *)
FreeSlots == { p \in DOMAIN names.slots : names.slots[p] = <<>> }

BindArguments ==
  /\ status = "binding" /\ ~NoNames
  /\ Unnamed = {} \/ FreeSlots = {}
  /\ scope' = ArgumentScope
  /\ stack' = << Frame(template.root) >>
  /\ status' = "rendering"
  /\ UNCHANGED << function, parser, call, out, tables >>

BindFails ==
  /\ status = "binding"
  /\ \/ NoNames /\ status' = "crashed"
     \/ ~NoNames /\ Unnamed # {} /\ FreeSlots # {} /\ status' = "error"
  /\ UNCHANGED << function, parser, call, scope, stack, out, tables >>

Rendering == RenderStep /\ UNCHANGED << function, parser >>

Ended == status \in { "done", "error", "crashed", "hung" }
Stop  == Ended /\ UNCHANGED vars

Next ==
  \/ Parse \/ Load \/ LoadFails \/ BindArguments \/ BindFails \/ Rendering
  \/ Stop

(* The call runs on the backend's only thread and waits for nobody.  That   *)
(* the parser stops is shown without fairness (RenderScope!Shrinks), and    *)
(* loading and binding are one step each.                                   *)
Spec == Init /\ [][Next]_vars /\ WF_vars(Rendering)
=============================================================================
