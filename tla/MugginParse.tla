----------------------------- MODULE MugginParse -----------------------------
(***************************************************************************)
(* muggin_parse: from the source of a template to its tree                  *)
(* (src/muggin.c:194-632).                                                  *)
(*                                                                         *)
(* The recursion of muggin_parse_node is the variable `open`: the elements  *)
(* whose parsing has begun, innermost last, each with what is to be read of *)
(* it next.  A tag, an attribute's name, a class is one character (see      *)
(* Str): Words are the ones valid_tag and its likes accept.                 *)
(*                                                                         *)
(* Nothing remembers where a node failed: it returns false like one that is *)
(* not there, with the input wherever it was, and the node around it takes  *)
(* that for the end of its children.                                        *)
(***************************************************************************)
EXTENDS StringPool

CONSTANTS
  Words,         \* what can be a name
  VoidElements,  \* those of them that are void elements
  MaxClasses     \* 64 in the code

VARIABLES
  input,      \* what is left of the source
  open,       \* the elements being parsed
  constants,  \* the pool of constants
  names,      \* the pool of names
  root,       \* << the root node >> once it is parsed
  parsing     \* "parsing", "parsed", "failed" (NULL), "error" (elog), "hung"
              \* or "crashed"

vars == << input, open, constants, names, root, parsing >>
pools == << constants, names >>

(* muggin_skip_metadata: whatever is in front of the first "---".           *)
Body(source) ==
  LET i == IndexOf(source, "---") IN LTrim(Drop(source, i))

InitWith(source) ==
  /\ input = Body(source) /\ open = <<>> /\ root = <<>> /\ parsing = "parsing"
  /\ constants = NewPool(FirstSize) /\ names = NewPool(FirstSize)

-----------------------------------------------------------------------------
(* muggin_contents_from_str: a string is constants and {{ names }}, here    *)
(* still as strings.  A reference that does not end is an error.            *)
Constant(s) == [type |-> "constant", text |-> s]
Name(s)     == [type |-> "name", text |-> s]
BadItem     == [type |-> "error", text |-> <<>>]

Items(s) ==
  LET ofLast[n \in 0..Len(s)] ==
        LET rest   == Drop(s, Len(s) - n)
            i      == IndexOf(rest, "{")
            inside == LTrim(Drop(rest, i + 1))
            j      == IndexOf(inside, "}")
        IN  IF i # 0 /\ CharAt(rest, i + 1) = "{"
              THEN (IF i = 1 THEN <<>> ELSE << Constant(Take(rest, i - 1)) >>)
                   \o IF j # 0 /\ CharAt(inside, j + 1) = "}"
                        THEN << Name(RTrim(Take(inside, j - 1))) >>
                             \o ofLast[Len(Drop(inside, j + 1))]
                        ELSE << BadItem >>
              ELSE IF rest = <<>> THEN <<>> ELSE << Constant(rest) >>
  IN  ofLast[Len(s)]

(* LOG_ERROR ends the call; that of the string pools is about {{ }}.        *)
Raises(items) ==
  \E i \in DOMAIN items : items[i] \in { BadItem, Name(<<>>) }

(* muggin_use_constant and muggin_use_name, item by item.                   *)
WithItem(got, item) ==
  LET pool == IF item.type = "name" THEN "names" ELSE "constants"
      use  == Use(got[pool], item.text)
  IN  [got EXCEPT ![pool] = use.pool,
                  !.ids = Append(@, [type |-> item.type, id |-> use.id])]

Interned(items) ==
  LET after[n \in 0..Len(items)] ==
        IF n = 0 THEN [constants |-> constants, names |-> names, ids |-> <<>>]
        ELSE WithItem(after[n - 1], items[n])
  IN  after[Len(items)]

Keep(got) == constants' = got.constants /\ names' = got.names

Error == parsing' = "error" /\ UNCHANGED << input, open, pools, root >>

-----------------------------------------------------------------------------
(* Nodes                                                                    *)

Element(tag, void) ==
  [kind |-> "element", tag |-> tag, void |-> void, id |-> <<>>, classes |-> <<>>,
   attributes |-> <<>>, children |-> <<>>, todo |-> "name"]
Text(contents) == [kind |-> "text", contents |-> contents]

Inner == Last(open)
At(todo) == parsing = "parsing" /\ open # <<>> /\ Inner.todo = todo
AtNode   == parsing = "parsing" /\ (open # <<>> => Inner.todo = "children")

Update(element) == open' = Append(Front(open), element)

(* muggin_parse_node returns true with a node, inside these elements ...    *)
Give(node, around) ==
  IF around = <<>>
    THEN root' = << node >> /\ parsing' = "parsed" /\ open' = <<>>
    ELSE /\ open' = Append(Front(around),
                           [Last(around) EXCEPT !.children = Append(@, node)])
         /\ UNCHANGED << root, parsing >>

(* ... or false: the element around has all its children.                   *)
GiveNone(around) ==
  IF around = <<>>
    THEN parsing' = "failed" /\ open' = <<>> /\ UNCHANGED root
    ELSE Give(Last(around), Front(around))

(* The indentation of the input, in columns                                 *)
Margin(s) ==
  LET i == FirstOf(s, LAMBDA c : c \notin { " ", "tab" }) IN
  IF i = 0 THEN s ELSE Take(s, i - 1)
Width(s) == FoldLeft(LAMBDA n, c : n + IF c = "tab" THEN 8 ELSE 1, 0, s)

\* Mutant: anything indented as deep as that, or deeper, is a child.
IndentedFurther == Width(Margin(input)) >= 2 * Len(open)

Indented == Width(Margin(input)) = 2 * Len(open)
Line     == Drop(input, Len(Margin(input)))

StartElement ==
  LET tag == Interned(<< Constant(<< Head(Line) >>) >>) IN
  /\ AtNode /\ Indented /\ CharAt(Line, 1) \in Words
  /\ open' = Append(open, Element(tag.ids[1].id, Head(Line) \in VoidElements))
  /\ input' = Tail(Line)
  /\ Keep(tag)
  /\ UNCHANGED << root, parsing >>

(* A text node is filled in through a pointer nothing has set: the write    *)
(* ends the backend unless it happens to hit memory nobody misses.  What is *)
(* trimmed in front of the line may be its own end.                         *)
TextLine == SplitAt(Trim(Drop(Line, 1)), "nl")

ParseText ==
  LET items == Items(Trim(TextLine.split))
      got   == Interned(items)
  IN
  /\ AtNode /\ Indented /\ CharAt(Line, 1) = "|" /\ ~Raises(items)
  /\ input' = TextLine.rest
  /\ Keep(got)
  /\ Give(Text(got.ids), open)

TextRaises ==
  /\ AtNode /\ Indented /\ CharAt(Line, 1) = "|"
  /\ Raises(Items(Trim(TextLine.split)))
  /\ Error

WildWrite ==
  /\ AtNode /\ Indented /\ CharAt(Line, 1) = "|"
  /\ parsing' = "crashed"
  /\ UNCHANGED << input, open, pools, root >>

(* No node here.  A margin of another width is given back.                  *)
NoNode ==
  /\ AtNode
  /\ ~Indented \/ CharAt(Line, 1) \notin Words \cup { "|" }
  /\ input' = IF Indented THEN Line ELSE input
  /\ GiveNone(open)
  /\ UNCHANGED pools

(* PARSE_ERROR: the element is forgotten, and what is left of its line is   *)
(* where the elements around it go on.                                      *)
NodeFails(rest) == input' = rest /\ GiveNone(Front(open))

-----------------------------------------------------------------------------
(* #id and .class                                                           *)

ReadId ==
  LET id == Interned(<< Constant(<< CharAt(input, 2) >>) >>) IN
  /\ At("name") /\ CharAt(input, 1) = "#"
  /\ Inner.id = <<>> /\ CharAt(input, 2) \in Words
  /\ Update([Inner EXCEPT !.id = id.ids])
  /\ input' = Drop(input, 2)
  /\ Keep(id)
  /\ UNCHANGED << root, parsing >>

ReadClass ==
  LET class == Interned(<< Constant(<< CharAt(input, 2) >>) >>) IN
  /\ At("name") /\ CharAt(input, 1) = "."
  /\ CharAt(input, 2) \in Words /\ Len(Inner.classes) < MaxClasses
  /\ Update([Inner EXCEPT !.classes = @ \o class.ids])
  /\ input' = Drop(input, 2)
  /\ Keep(class)
  /\ UNCHANGED << root, parsing >>

BadName ==
  /\ At("name")
  /\ \/ /\ CharAt(input, 1) = "#"
        /\ Inner.id # <<>> \/ CharAt(input, 2) \notin Words
        /\ NodeFails(IF Inner.id # <<>> THEN input ELSE Tail(input))
     \/ /\ CharAt(input, 1) = "." /\ CharAt(input, 2) \notin Words
        /\ NodeFails(Tail(input))
  /\ UNCHANGED pools

(* The class that is one too many has been read, and stays in the pool.     *)
TooManyClasses ==
  /\ At("name") /\ CharAt(input, 1) = "."
  /\ CharAt(input, 2) \in Words /\ Len(Inner.classes) = MaxClasses
  /\ NodeFails(Drop(input, 2))
  /\ Keep(Interned(<< Constant(<< CharAt(input, 2) >>) >>))

(* The two become the first attributes.                                     *)
EndName ==
  LET Short(key, contents) == IF contents = <<>> THEN <<>> ELSE << << key, contents >> >>
      short == Short("id", Inner.id) \o Short("class", Inner.classes)
      keys  == Interned([i \in DOMAIN short |-> Constant(<< short[i][1] >>)])
  IN
  /\ At("name") /\ CharAt(input, 1) \notin { "#", "." }
  /\ Update([Inner EXCEPT
       !.attributes = [i \in DOMAIN short |->
                         [name |-> keys.ids[i].id, contents |-> short[i][2]]],
       !.todo = IF CharAt(input, 1) = "(" THEN "attributes" ELSE "content"])
  /\ input' = IF CharAt(input, 1) = "(" THEN Tail(input) ELSE input
  /\ Keep(keys)
  /\ UNCHANGED << root, parsing >>

-----------------------------------------------------------------------------
(* Attributes                                                               *)

Key        == CharAt(LTrim(input), 1)
AfterKey   == LTrim(Drop(LTrim(input), 1))
AfterEqual == LTrim(Drop(AfterKey, 1))
HasKey     == Key \in Words
IsAssigned == HasKey /\ CharAt(AfterKey, 1) = "="
IsQuoted   == CharAt(AfterEqual, 1) = "\""

(* A value without quotes ends at a blank, which is dropped, or at ")",     *)
(* which is not; behind the end of the input there is neither.              *)
\* Mutant: the end of a line does not end it.
RawStopInLine(s) == FirstOf(s, LAMBDA c : c \in { ")", " ", "tab" })

RawStop(s) == FirstOf(s, LAMBDA c : c \in { ")" } \cup Blank)

RawValue(s) ==
  LET i == RawStop(s) IN
  [split |-> Take(s, i - 1), rest |-> Drop(s, IF s[i] = ")" THEN i - 1 ELSE i)]

\* the quotes that do not end take all there is
Quoted == SplitAt(Tail(AfterEqual), "\"")

HasValue ==
  IsAssigned /\ IF IsQuoted THEN Len(AfterEqual) > 1 ELSE RawStop(AfterEqual) # 0

\* Mutant: the value stays where it is.
ValStays == [split |-> <<>>, rest |-> input]

Val == IF IsQuoted THEN Quoted ELSE RawValue(AfterEqual)

ReadAttribute ==
  LET items == Items(Val.split)
      got   == Interned(<< Constant(<< Key >>) >> \o items)
  IN
  /\ At("attributes") /\ HasValue /\ ~Raises(items)
  /\ Update([Inner EXCEPT !.attributes =
       Append(@, [name |-> Head(got.ids).id, contents |-> Tail(got.ids)])])
  /\ input' = Val.rest
  /\ Keep(got)
  /\ UNCHANGED << root, parsing >>

AttributeRaises ==
  /\ At("attributes") /\ HasValue /\ Raises(Items(Val.split))
  /\ Error

(* The loop for the end of the value goes on for ever.                      *)
ValueNeverEnds ==
  /\ At("attributes") /\ IsAssigned /\ ~IsQuoted /\ RawStop(AfterEqual) = 0
  /\ parsing' = "hung"
  /\ UNCHANGED << input, open, pools, root >>

(* No attribute: none left, or none that can be read, which is the same     *)
(* when ")" follows.                                                        *)
Unread ==
  IF IsAssigned THEN <<>>
  ELSE IF HasKey THEN AfterKey
  ELSE LTrim(input)

NoAttribute == At("attributes") /\ (~IsAssigned \/ IsQuoted) /\ ~HasValue

\* the name that was not an attribute's stays in the pool
KeptKey ==
  Keep(Interned(IF HasKey THEN << Constant(<< Key >>) >> ELSE <<>>))

EndAttributes ==
  /\ NoAttribute /\ CharAt(Unread, 1) = ")"
  /\ Update([Inner EXCEPT !.todo = "content"])
  /\ input' = Tail(Unread)
  /\ KeptKey
  /\ UNCHANGED << root, parsing >>

BadAttributes ==
  /\ NoAttribute /\ CharAt(Unread, 1) # ")"
  /\ input' = Unread
  /\ GiveNone(Front(open))
  /\ KeptKey

-----------------------------------------------------------------------------
(* The rest of the line is the first child.                                 *)
Rest == SplitAt(input, "nl")

ReadContent ==
  LET items == Items(Trim(Rest.split))
      got   == Interned(items)
  IN
  /\ At("content") /\ ~Raises(items)
  /\ Update([Inner EXCEPT
       !.children = IF items = <<>> THEN @ ELSE Append(@, Text(got.ids)),
       !.todo = "children"])
  /\ input' = Rest.rest
  /\ Keep(got)
  /\ UNCHANGED << root, parsing >>

ContentRaises ==
  /\ At("content") /\ Raises(Items(Trim(Rest.split)))
  /\ Error

Step ==
  \/ StartElement \/ ParseText \/ TextRaises \/ WildWrite \/ NoNode
  \/ ReadId \/ ReadClass \/ BadName \/ TooManyClasses \/ EndName
  \/ ReadAttribute \/ AttributeRaises \/ ValueNeverEnds \/ EndAttributes
  \/ BadAttributes \/ ReadContent \/ ContentRaises
=============================================================================
