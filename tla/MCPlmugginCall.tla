--------------------------- MODULE MCPlmugginCall ---------------------------
(* Instances of PlmugginCall for TLC.  "a" is an argument, "x" a column of  *)
(* q1, "y" of q2; q3 has both, and "z" that no template uses.               *)
EXTENDS RenderScope

C(text) == [type |-> "constant", id |-> << text >>]
N(name) == [type |-> "name", id |-> << name >>]
Broken(name) == [type |-> "broken", id |-> << name >>]

Spaces(n) == [i \in 1..n |-> " "]
Line(kind, indent, tag, attributes, contents) ==
  [kind |-> kind, margin |-> Spaces(indent), tag |-> tag, id |-> <<>>, classes |-> <<>>,
   attributes |-> attributes, contents |-> contents]

Elt(indent, tag, attributes, contents) ==
  Line("element", indent, tag, attributes, contents)
TextLine(indent, contents) == Line("text", indent, "", <<>>, contents)
Odd(kind, indent) == Line(kind, indent, "p", <<>>, <<>>)

Attr(name, contents) ==
  [name |-> name, quoted |-> TRUE, contents |-> contents, after |-> " "]
RawAttr(name, contents, after) ==
  [name |-> name, quoted |-> FALSE, contents |-> contents, after |-> after]
Query(contents) == Attr("m:q", contents)

(* A list of q1(a) with, in each item, a list of `inner` with an argument;  *)
(* text in the inner item, behind the inner list and behind both.           *)
Lists(inner, arg, n1, n2, n3) ==
  << Elt(0, "div", << Attr("id", << C("p-"), N("a") >>) >>, <<>>),
     Elt(2, "ul", << Query(<< C("q1"), N("a") >>) >>, <<>>),
     Elt(4, "ol", << Attr("class", << N("a"), C("c") >>), Query(<< C(inner), N(arg) >>) >>,
         << N(n1), N("x") >>),
     Elt(4, "li", <<>>, << C("t"), N(n2) >>),
     Elt(2, "li", <<>>, << N(n3) >>) >>

(* Two lists one behind the other, an m:q on a void element and on one      *)
(* without children, and an element with two of them.                       *)
Siblings ==
  << Elt(0, "div", <<>>, <<>>),
     Elt(2, "ul", << Query(<< C("q1"), N("a") >>) >>, << N("x") >>),
     Elt(2, "br", << RawAttr("m:q", << C("q2") >>, " "), Attr("id", << N("a") >>) >>,
         << N("a") >>),
     Elt(2, "td", << Query(<< C("q2") >>) >>, <<>>),
     Elt(2, "ul", << Query(<< C("q2") >>), Query(<< C("q1"), N("a"), C("w") >>) >>, <<>>),
     Elt(4, "li", << Attr("id", << N("x") >>) >>, <<>>) >>

\* in scope, behind the outer list, and in the wrong list
Uses == { "x", "y" } \X { "x", "a", "y" } \X { "a", "x" }

Queries ==
  { Lists(inner, arg, use[1], use[2], use[3]) :
      inner \in { "q2", "q3" }, arg \in { "a", "x" }, use \in Uses }
  \cup { Siblings, Lists("q2", "y", "y", "x", "a") }

-----------------------------------------------------------------------------
(* Sources for the parser: ids, classes, values of both kinds on several    *)
(* lines, metadata, text nodes, and a last line of every kind and indent.   *)
Named(tag) ==
  [Elt(0, tag, << RawAttr("a", << C("v"), N("a") >>, "nl"), Attr("x", << N("a"), C("=") >>) >>,
       << C("t"), N("a") >>)
     EXCEPT !.id = << "u" >>, !.classes = << "p", "b" >>]

Classes(n) == [Elt(0, "p", <<>>, <<>>) EXCEPT !.classes = [i \in 1..n |-> "b"]]

Stub(indent) == Odd("stub", indent)

Behind ==
  { Elt(indent, "p", <<>>, << N("a") >>) : indent \in 0..7 }
  \cup { TextLine(indent, contents) :
           indent \in { 2, 4, 6 }, contents \in { << C("t"), N("a") >>, <<>> } }
  \cup { Odd(kind, 4) : kind \in { "blank", "rule", "bad", "unclosed" } }
  \cup { Stub(indent) : indent \in { 3, 4, 6 } }
  \cup { Line("unclosed", 4, "p", << RawAttr("a", << C("v") >>, " ") >>, <<>>),
         Line("unclosed", 4, "p", << Attr("a", << C("v") >>) >>, <<>>),
         Elt(4, "p", <<>>, << Broken("a") >>), Elt(3, "p", <<>>, << Broken("a") >>),
         Elt(4, "p", << Attr("a", << C("t"), Broken("a") >>) >>, <<>>),
         TextLine(4, << Broken("a") >>),
         [Elt(0, "p", <<>>, <<>>) EXCEPT !.margin = << "tab" >>],
         [Elt(0, "p", <<>>, <<>>) EXCEPT !.margin = << " ", "tab" >>] }

(* What an empty text line may take: nothing, references, one that does not *)
(* end, another text line; blank lines do not count.                        *)
Taken ==
  { Odd("blank", 4), TextLine(6, <<>>), TextLine(4, << N("a") >>), Odd("bad", 4),
    Line("unclosed", 4, "p", << RawAttr("a", << C("v"), N("a") >>, " ") >>, <<>>),
    Elt(4, "p", << Attr("a", << C("t"), Broken("a") >>) >>, <<>>),
    [Elt(4, "p", << Attr("a", << C("v"), N("a") >>), RawAttr("x", << N("a") >>, " ") >>,
         << N("a"), C("t") >>)
       EXCEPT !.id = << "u" >>, !.classes = << "p" >>] }

(* The end of the source in a value, with text lines above or not.          *)
Ends(text) ==
  << Elt(0, "div", <<>>, <<>>), text,
     Line("unclosed", 2, "p", << RawAttr("a", << C("v") >>, " ") >>, <<>>),
     Odd("blank", 2), Odd("blank", 0) >>

Sources ==
  { << Named("div"), Elt(2, "ul", <<>>, <<>>), Elt(4, "li", <<>>, << C("t") >>), line,
       Elt(indent, "td", <<>>, << C("w") >>) >> :
      line \in Behind, indent \in { 2, 6 } }
  \cup { << Named("div"), Elt(2, "ul", <<>>, <<>>), line >> : line \in Behind }
  \cup { << line >> : line \in Behind }
  \cup { << Odd("blank", 0), Odd("rule", 0), Odd("blank", 2), line, Named("br") >> :
           line \in Behind }
  \cup { << Elt(0, "div", <<>>, <<>>), TextLine(2, <<>>), Odd("blank", 2), line,
            Elt(2, "td", <<>>, <<>>), Elt(4, "p", <<>>, << C("w") >>) >> : line \in Taken }
  \cup { Ends(line) : line \in { Elt(2, "td", <<>>, <<>>), TextLine(2, << C("t") >>) } }
  \cup { << Elt(0, "div", <<>>, <<>>), Elt(2, "ul", <<>>, <<>>), Elt(4, "li", <<>>, <<>>),
            [Stub(6) EXCEPT !.classes = classes], Elt(indent, "td", <<>>, << C("w") >>),
            Elt(indent + 2, "b", <<>>, <<>>) >> :
           indent \in { 2, 4, 6 }, classes \in { << "b", "p" >>, << "b", "p", "u" >> } }
  \cup { << Elt(0, "div", <<>>, <<>>), Elt(2, "ul", <<>>, <<>>), Elt(4, "li", <<>>, <<>>),
            Elt(6, "p", <<>>, <<>>),
            [Elt(0, "b", <<>>, <<>>) EXCEPT !.margin = << "tab" >>],
            Elt(10, "p", <<>>, << C("t") >>), Elt(4, "li", <<>>, <<>>),
            Elt(8, "p", <<>>, <<>>) >>,
         << Classes(2), Elt(2, "b", <<>>, <<>>) >>, << Classes(3) >>,
         << [Named("p") EXCEPT !.kind = "bad"], Elt(2, "b", <<>>, <<>>) >> }

Trees == { lines \in Sources : Unambiguous(lines) }

-----------------------------------------------------------------------------
In(name)  == [name |-> name, mode |-> "in"]
Out(name) == [name |-> name, mode |-> "out"]
Usual     == << In(<< "a" >>), In(<< "b" >>) >>

Signatures ==
  { <<>>, << In(<< "a" >>), Out(<< "x" >>) >>, << Out(<< "b" >>), In(<< "a" >>) >>,
    << In(<<>>) >>, << In(<< "a" >>), In(<<>>) >>, << In(<< "x" >>), In(<< "a" >>) >> }

ForQueries(q1, q2, q3) ==
  << "q1" >> :> q1 @@ << "q2" >> :> q2 @@ << "q3" >> :> q3

X == << "x" >>
Y == << "y" >>
MCColumns   == ForQueries(<< X >>, << Y >>, << X, << "z" >>, Y >>)
Tables      == { ForQueries(i, j, j) : i \in { 1, 2, 3 }, j \in { 0, 1, 2 } }
Two         == ForQueries(2, 2, 2)

Call(lines, args, held, missing) ==
  [lines |-> lines, args |-> args, tables |-> held, nulls |-> missing]

MCCalls ==
  { Call(lines, Usual, Tables, { {}, { X } }) : lines \in Queries }
  \cup { Call(lines, Usual, { Two }, { {} }) : lines \in Trees }
  \cup { Call(lines, args, { Two }, { {} }) :
           lines \in { Siblings, << Named("p") >>, << Classes(1) >> }, args \in Signatures }

MCWords == { "div", "ul", "ol", "li", "td", "p", "b", "br", "a", "x", "u", "id", "class", "m:q" }
MCVoid  == { "br" }

(* Strings of one length collide.                                           *)
MCHash(s) == Len(s)
=============================================================================
