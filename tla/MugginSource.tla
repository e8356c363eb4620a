---------------------------- MODULE MugginSource ----------------------------
(***************************************************************************)
(* The source of a template as its author sees it: lines, and the tree they *)
(* mean.  What the README and muggin_test.c say by example is here a        *)
(* definition that has nothing of the parser in it: a line's parent is the  *)
(* nearest line above with a smaller indent.                                *)
(*                                                                         *)
(* A line is [kind, margin, tag, id, classes, attributes, contents]; an     *)
(* attribute [name, quoted, contents, after], where after is what separates *)
(* it from the next; contents are items [type, id], id a text, of type      *)
(* "constant", "name" or "broken", a reference that does not end; tags,     *)
(* names and classes are one character.  No two constants are neighbours.   *)
(* Kinds: "element", "text", "blank", "rule" (the "---" behind metadata),   *)
(* "bad" (a tag with "." and nothing), "unclosed" (an element without the   *)
(* ")" of its attributes) and "stub" (a name that breaks off at a "." or a  *)
(* class too many); what follows a stub on its line is the next of lines.   *)
(*                                                                         *)
(* Two things are not as an author would have them, and are said where they *)
(* are defined: what an empty text line means (TextTaken), and what the     *)
(* rest of a line means whose beginning does not parse (Fits).              *)
(***************************************************************************)
EXTENDS Integers, Sequences, SequencesExt, FiniteSetsExt

CONSTANTS
  VoidElements,  \* the tags that have no children and no end
  MaxClasses     \* how many an element can be given; 64 in the code

(* A line as items: what is written stands for itself, a reference for the  *)
(* name between its braces and the gaps that go with it.                    *)
Mark(text) == << [type |-> "constant", id |-> text, gap |-> <<>>] >>
Spaced(contents, gap) ==
  [i \in DOMAIN contents |->
    [type |-> contents[i].type, id |-> contents[i].id, gap |-> gap]]

AttributeItems(a, last) ==
  (IF a.quoted THEN Mark(<< a.name, "=", "\"" >>) \o Spaced(a.contents, << " " >>) \o Mark(<< "\"" >>)
   ELSE Mark(<< a.name, "=" >>) \o Spaced(a.contents, <<>>))
  \o IF last THEN <<>> ELSE Mark(<< a.after >>)

NameItems(line) ==
  Mark(<< line.tag >>
         \o FlattenSeq([i \in DOMAIN line.id |-> << "#", line.id[i] >>])
         \o FlattenSeq([i \in DOMAIN line.classes |-> << ".", line.classes[i] >>]))

LineItems(line) ==
  LET attributes == FlattenSeq([i \in DOMAIN line.attributes |->
        AttributeItems(line.attributes[i], i = Len(line.attributes))])
      text == IF line.contents = <<>> THEN <<>>
              ELSE Mark(<< " " >>) \o Spaced(line.contents, << " " >>)
  IN  CASE line.kind = "element" ->
             NameItems(line) \o (IF attributes = <<>> THEN <<>>
                                 ELSE Mark(<< "(" >>) \o attributes \o Mark(<< ")" >>)) \o text
        [] line.kind = "unclosed" -> NameItems(line) \o Mark(<< "(" >>) \o attributes
        [] line.kind = "text"     -> Mark(<< "|" >>) \o text
        [] line.kind = "bad"      -> Mark(<< line.tag, "." >>)
        [] line.kind = "stub"     ->
             NameItems(line) \o IF Len(line.classes) > MaxClasses THEN <<>> ELSE Mark(<< "." >>)
        [] line.kind = "rule"     -> Mark(<< "---" >>)
        [] line.kind = "blank"    -> <<>>

PrintedItem(item) ==
  CASE item.type = "constant" -> item.id
    [] item.type = "name"   -> << "{", "{" >> \o item.gap \o item.id \o item.gap \o << "}", "}" >>
    [] item.type = "broken" -> << "{", "{" >> \o item.id

PrintedLine(line) ==
  LET items == LineItems(line) IN
  line.margin \o FlattenSeq([i \in DOMAIN items |-> PrintedItem(items[i])])

Source(lines) ==
  FlattenSeq([i \in DOMAIN lines |->
    PrintedLine(lines[i])
      \o IF i = Len(lines) \/ lines[i].kind = "stub" THEN <<>> ELSE << "nl" >>])

(* Lines of which what is printed has one reading: no text has a mark of    *)
(* the syntax in it or begins with one, a value is there, a reference that  *)
(* does not end swallows no other; and no empty text line stands in front   *)
(* of a line that is printed on several, or is only part of one.            *)
Marks == { " ", "tab", "nl", "{", "}", "\"", ")", "---" }
OneLine(line) ==
  line.kind # "stub" /\ \A i \in DOMAIN line.attributes : line.attributes[i].after # "nl"
IsEmptyText(line) == line.kind = "text" /\ line.contents = <<>>

PlainLine(line) ==
  LET items == LineItems(line)
      texts == FlattenSeq(<< line.contents >>
                 \o [i \in DOMAIN line.attributes |-> line.attributes[i].contents])
  IN
  /\ ToSet(line.margin) \subseteq { " ", "tab" }
  /\ \A i \in DOMAIN texts : texts[i].id # <<>> /\ ToSet(texts[i].id) \cap Marks = {}
  /\ line.contents # <<>> => line.contents[1].id[1] # "="
  /\ \A i \in DOMAIN line.attributes :
       LET a == line.attributes[i] IN
       a.after \in { " ", "tab", "nl" } /\ (a.contents = <<>> => a.quoted)
  /\ \A i, j \in DOMAIN items :
       i < j /\ items[i].type = "broken" => items[j].type = "constant"

Unambiguous(lines) ==
  /\ \A i \in DOMAIN lines : PlainLine(lines[i])
  /\ \A i, j \in DOMAIN lines :
       i < j /\ IsEmptyText(lines[i]) => OneLine(lines[j])

-----------------------------------------------------------------------------
(* The lines that count: behind the metadata and, silently, only up to the  *)
(* first that is not where a child can be.                                  *)
Width(margin) == Len(margin) + 7 * Len(SelectSeq(margin, LAMBDA c : c = "tab"))

OfKind(lines, kind) == { i \in DOMAIN lines : lines[i].kind = kind }
From(lines, where) ==
  IF where = {} THEN <<>> ELSE SubSeq(lines, Min(where), Len(lines))

(* The blanks behind the "|" of an empty text line are trimmed with the end  *)
(* of the line among them, and with blank lines: the next line that is not  *)
(* blank is its text, whatever it would be elsewhere (muggin.c:457).        *)
AsText(line) ==
  FoldLeft(LAMBDA all, item :
             IF all # <<>> /\ Last(all).type = "constant" /\ item.type = "constant"
               THEN [all EXCEPT ![Len(all)].id = @ \o item.id]
               ELSE Append(all, [type |-> item.type, id |-> item.id]),
           <<>>, LineItems(line))

TextTaken(lines) ==
  FoldLeft(LAMBDA all, line :
             IF all = <<>> \/ ~IsEmptyText(Last(all)) THEN Append(all, line)
             ELSE [all EXCEPT ![Len(all)].contents = AsText(line)],
           <<>>, lines)

Written(lines) ==
  LET rules == OfKind(lines, "rule")
      body  == IF rules = {} THEN lines ELSE Tail(From(lines, rules))
  IN  TextTaken(From(body, DOMAIN body \ OfKind(body, "blank")))

(* The first line's margin is not looked at.                                *)
Depth(lines, i) == IF i = 1 THEN 0 ELSE Width(lines[i].margin) \div 2

(* How deep a line can be: what does not parse ends the children of the     *)
(* element around it, and the rest of its line goes on further out          *)
(* (muggin.c:567).                                                          *)
Room(line) == CASE line.kind = "text" -> 0 [] line.kind = "stub" -> -1 [] OTHER -> 1

Fits(lines, i) ==
  i = 1 \/ /\ Width(lines[i].margin) % 2 = 0
           /\ Depth(lines, i) \in 1..(Depth(lines, i - 1) + Room(lines[i - 1]))

IsNode(line) ==
  line.kind \in { "element", "text" } /\ Len(line.id) <= 1 /\ Len(line.classes) <= MaxClasses
IsStub(line) ==
  line.kind = "stub" /\ Len(line.id) <= 1 /\ Len(line.classes) <= MaxClasses + 1

(* The source begins with a node.                                           *)
Misfits(lines) ==
  { i \in DOMAIN lines :
      ~Fits(lines, i) \/ ~(IsNode(lines[i]) \/ (i > 1 /\ IsStub(lines[i]))) }

FirstMisfit(lines) ==
  IF Misfits(lines) = {} THEN Len(lines) + 1 ELSE Min(Misfits(lines))
Accepted(lines) ==
  SelectSeq(SubSeq(lines, 1, FirstMisfit(lines) - 1), LAMBDA line : line.kind # "stub")

(* The parser looks at a line that is no node if it is where one could be.  *)
Reached(lines) ==
  LET i == FirstMisfit(lines) IN
  SubSeq(lines, 1, IF i \in DOMAIN lines /\ Fits(lines, i) THEN i ELSE i - 1)

-----------------------------------------------------------------------------
TextNode(contents) == [kind |-> "text", contents |-> contents]
AttributeNode(name, contents) == [name |-> << name >>, contents |-> contents]
Literals(texts) ==
  [i \in DOMAIN texts |-> [type |-> "constant", id |-> << texts[i] >>]]

ChildrenOf(lines, i) ==
  { j \in (i + 1)..Len(lines) :
      /\ Depth(lines, j) = Depth(lines, i) + 1
      /\ \A k \in (i + 1)..(j - 1) : Depth(lines, k) > Depth(lines, i) }

AttributesOf(line) ==
  [k \in DOMAIN line.id |-> AttributeNode("id", Literals(line.id))]
  \o (IF line.classes = <<>> THEN <<>>
      ELSE << AttributeNode("class", Literals(line.classes)) >>)
  \o [k \in DOMAIN line.attributes |->
        AttributeNode(line.attributes[k].name, line.attributes[k].contents)]

Node(lines) ==
  LET node[i \in DOMAIN lines] ==
        LET line  == lines[i]
            text  == IF line.contents = <<>> THEN <<>> ELSE << TextNode(line.contents) >>
            below == SetToSortSeq(ChildrenOf(lines, i), LAMBDA j, k : j < k)
        IN  IF line.kind = "text" THEN TextNode(line.contents)
            ELSE [kind |-> "element", tag |-> << line.tag >>,
                  void |-> line.tag \in VoidElements, attributes |-> AttributesOf(line),
                  children |-> text \o [k \in DOMAIN below |-> node[below[k]]]]
  IN  node[1]

(* References that do not end                                               *)
BrokenIn(contents) == \E i \in DOMAIN contents : contents[i].type = "broken"
IsBroken(line) ==
  \/ BrokenIn(line.contents)
  \/ \E i \in DOMAIN line.attributes : BrokenIn(line.attributes[i].contents)
AnyBroken(lines) == \E i \in DOMAIN lines : IsBroken(lines[i])

(* A value that nothing ends.  A line end ends it; but a text line trims    *)
(* the end of the whole source, and blank lines behind the value with it.   *)
IsEndless(line) ==
  /\ line.kind = "unclosed" /\ line.attributes # <<>>
  /\ ~Last(line.attributes).quoted

EndlessAt(lines, i) ==
  /\ IsEndless(lines[i])
  /\ \A j \in (i + 1)..Len(lines) : lines[j].kind = "blank"
  /\ i = Len(lines) \/ \E j \in 1..(i - 1) : lines[j].kind = "text"
=============================================================================
