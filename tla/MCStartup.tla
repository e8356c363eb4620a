------------------------------ MODULE MCStartup ------------------------------
(* An instance of Startup for TLC: every configuration and world against a  *)
(* good one of the other, and every request to every server that comes up.  *)
EXTENDS Declared

Lit(text)   == [param |-> FALSE, text |-> text]
Par(name)   == [param |-> TRUE, text |-> name]
In(name)    == [name |-> name, mode |-> "in"]
Out(name)   == [name |-> name, mode |-> "out"]

Function(method, segments, type, args) ==
  [type |-> type, args |-> args, segments |-> segments,
   name |-> << method >> \o FlattenSeq([i \in DOMAIN segments |-> Segment(segments[i])])]

Item  == Function("GET", << Lit(<< "i" >>), Par(<< "id" >>) >>, "text",
                  << In(<< "v" >>), In(<< "id" >>), Out(<< "x" >>) >>)
New   == Function("GET", << Lit(<< "i" >>), Lit(<< "n", "w" >>) >>, "text", <<>>)
Put   == Function("POST", << Lit(<< "i" >>), Par(<< "id" >>), Lit(<< "p" >>) >>,
                  "text", << In(<< "id" >>), In(<< "v" >>), In(<< "w" >>) >>)
Three == Function("GET", << Par(<< "id" >>), Par(<< "v" >>), Par(<< "w" >>) >>,
                  "text", << In(<< "w" >>), In(<< "v" >>), In(<< "id" >>) >>)
Short == Function("GET", << Lit(<< "n" >>) >>, "text", <<>>)
Twice == Function("GET", << Par(<< "id" >>), Lit(<< "m" >>), Par(<< "id" >>) >>, "text",
                  << In(<< "id" >>) >>)

Root  == Function("GET", << Lit(<<>>) >>, "text", <<>>)

\* not meant as endpoints, or not as the query takes them
Helper   == [Function("GET", <<>>, "text", <<>>) EXCEPT !.name = << "helper" >>]
Trigger  == Function("GET", << Lit(<< "i" >>) >>, "trigger", <<>>)
OutFirst == Function("GET", << Lit(<< "i" >>), Par(<< "id" >>) >>, "text",
                     << Out(<< "x" >>), In(<< "id" >>) >>)
OneBare  == Function("GET", << Lit(<< "p" >>) >>, "text", << In(<<>>) >>)
TwoBare  == Function("GET", << Lit(<< "p" >>) >>, "text", << In(<<>>), In(<<>>) >>)

-----------------------------------------------------------------------------
Given(key, value) == [key |-> key, value |-> value, good |-> TRUE]
BadField(key, value) == [Given(key, value) EXCEPT !.good = FALSE]
FieldText(f) == IF f.key = "" THEN <<>> ELSE << f.key, "=" >> \o f.value

Setting(key, value) ==
  [key |-> key, value |-> value, fields |-> <<>>, good |-> TRUE,
   text |-> << " ", key, "tab", ":" >> \o << " " >> \o value \o << " " >>]
ConnectTo(fs) ==
  [Setting("connection", Join([i \in DOMAIN fs |-> FieldText(fs[i])], " "))
     EXCEPT !.fields = fs]
Unread(text) == [key |-> "", value |-> <<>>, fields |-> <<>>, good |-> TRUE, text |-> text]
Wrong(l) == [l EXCEPT !.good = FALSE]

Host == Given("host", << "h" >>)
User == Given("user", << "u", "=" >>)
To   == ConnectTo(<< Host, Given("password", << "s" >>), Given("database", << "d" >>), User >>)
Schema == Setting("schema", << "s", ":", "t" >>)
Usual  == << To, Schema, Setting("port", << "8", "0" >>),
             Setting("keep-alive-max-idle", << "1" >>) >>

SomeConfigs ==
  { Usual, <<>>,
    << Unread(<< "#", "port", ":", "x" >>), Unread(<<>>), Schema, Setting("threads", << "9" >>),
       Unread(<< " ", "tab" >>), Unread(<< " ", "#" >>), Setting("port", << "9" >>), To,
       Setting("schema", << "t" >>), Setting("port", << "7", "0" >>) >>,
    << Setting("port", << "6", "5", "5", "3", "6" >>), To >>,
    << Setting("port", << "6", "5", "5", "3", "5" >>) >>,
    << To, Wrong(Setting("port", << "6", "5", "5", "3", "7" >>)) >>,
    << To, Wrong(Setting("port", << "0" >>)), Schema >>,
    << Wrong(Setting("port", << "8", "x" >>)) >>,
    << Schema, Wrong(Setting("port", <<>>)) >>,
    << To, Wrong(Unread(<< ":", "x" >>)) >>, << Wrong(Unread(<< "schema" >>)), To >>,
    << ConnectTo(<< Host >>),
       ConnectTo(<< Host, User, Given("password", << "s" >>), Given("port", << "5" >>),
                    Given("host", << "g" >>), Given("database", << "d" >>),
                    Given("password", << "q" >>), Given("database", << "e" >>) >>) >>,
    << ConnectTo(<< Host, BadField("port", << "x" >>) >>) >>,
    << ConnectTo(<< BadField("sslmode", << "y" >>), Host >>) >>,
    << ConnectTo(<< Host, BadField("", <<>>), User >>) >> }

Greeting == << "AuthenticationOk", "S", "K", "Z" >>
Fine ==
  [host |-> TRUE, accepts |-> TRUE, stack |-> "junk", greeting |-> Greeting,
   functions |-> << Short >>, rows |-> 9, free |-> TRUE]

With(functions) == [Fine EXCEPT !.functions = functions]
Many == With(<< Item, New, Put, Three, Short >>)

SomeWorlds ==
  { Fine, Many, With(<<>>), With(<< Three, Put, Item >>), With(<< Twice, Root, New, Item >>),
    With(<< Helper, Trigger, OutFirst, OneBare, Item, New >>), With(<< Item, TwoBare, New >>),
    [Fine EXCEPT !.host = FALSE], [Fine EXCEPT !.accepts = FALSE],
    [Fine EXCEPT !.stack = "Z"], [Fine EXCEPT !.stack = "AuthenticationOk"],
    [Fine EXCEPT !.greeting = << "password" >>], [Fine EXCEPT !.greeting = << "E" >>],
    [Fine EXCEPT !.greeting = << "AuthenticationOk", "E" >>],
    [Fine EXCEPT !.greeting = << "N", "AuthenticationOk", "N", "S", "Z" >>],
    [Fine EXCEPT !.rows = 0 - 1], [Many EXCEPT !.rows = 2], [Fine EXCEPT !.free = FALSE] }

MCSetups ==
  { [config |-> c, world |-> Fine] : c \in SomeConfigs }
  \cup { [config |-> Usual, world |-> w] : w \in SomeWorlds }

\* every line of these is what the theorems take it to be
ASSUME Legible
ASSUME Spelled

-----------------------------------------------------------------------------
Byte(n) == "byte" \o ToString(n)
MCCode ==
  (9 :> "tab" @@ 10 :> "nl" @@ 32 :> " " @@ 37 :> "%" @@ 38 :> "&" @@ 47 :> "/" @@ 58 :> ":"
     @@ 61 :> "=")
  @@ [n \in 48..57  |-> DigitsInOrder[n - 47]]
  @@ [n \in 65..70  |-> CapitalsInOrder[n - 54]] @@ [n \in 97..102 |-> DigitsInOrder[n - 86]]
  @@ [n \in 0..255 |-> Byte(n)]

\* digits of both cases; one character more than it has to, and the bytes of a snowman
MCEscaping ==
  " " :> << "%", "2", "0" >> @@ "%" :> << "%", "2", "5" >> @@ "&" :> << "%", "2", "6" >>
  @@ "/" :> << "%", "2", "F" >> @@ "=" :> << "%", "3", "d" >> @@ ":" :> << "%", "3", "A" >>
  @@ "a" :> << "%", "6", "1" >> @@ "nl" :> << "%", "0", "A" >>
  @@ Byte(226) :> << "%", "E", "2" >> @@ Byte(152) :> << "%", "9", "8" >>
  @@ Byte(131) :> << "%", "8", "3" >>

Pair(name, value) == [name |-> name, value |-> value]
Ask(segments, query) == [segments |-> segments, query |-> query, form |-> <<>>, typed |-> FALSE]
Post(segments, query, form) == [Ask(segments, query) EXCEPT !.form = form, !.typed = TRUE]

V(value) == Pair(<< "v" >>, value)
W(value) == Pair(<< "w" >>, value)
Plain == << "1" >>
Texts == { Plain, <<>>, << "a", "/", "b" >>, << "&", "w", "=" >>, << "%", "2", "6" >>,
           << Byte(226), Byte(152), Byte(131) >>, << " ", "nl" >>, << Byte(255) >> }

MCRequests ==
  { Ask(<< << "i" >>, id >>, query) : id \in (Texts \ { <<>> }) \cup { << "n", "w" >> },
      query \in { <<>>, << V(Plain) >> } }
  \cup { Ask(<< << "i" >>, id >>, << W(Plain), V(t), V(Plain) >>) :
           id \in { << "n", "w" >>, << "&", "w", "=" >> }, t \in Texts }
  \cup { Post(<< << "i" >>, Plain, << "p" >> >>, << W(Plain) >>, << W(t), V(t) >>) : t \in Texts }
  \cup { [Post(<< << "i" >>, Plain, << "p" >> >>, <<>>, << V(Plain), W(Plain) >>)
            EXCEPT !.typed = typed] : typed \in BOOLEAN }
  \cup { Ask(segments, << V(Plain) >>) : segments \in
           { <<>>, << << "i" >> >>, << << "p" >> >>, << << "n" >> >>, << << "n", "w" >> >>,
             << << "i" >>, << ":", "x" >> >>, << << "i" >>, <<>> >>,
             << << "i" >>, << ":", "id" >> >>, << << "i" >>, Plain, <<>> >>,
             << << "i" >>, << "m" >>, Plain >>, << << "i" >>, Plain, << "q" >> >>,
             << << "q" >>, << "/" >>, << "=", "&" >> >>, << << "i" >>, Plain, << "p" >>, Plain >> } }

\* and so is every request
ASSUME Asked
=============================================================================
