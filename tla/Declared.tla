------------------------------ MODULE Declared ------------------------------
(***************************************************************************)
(* What the configuration, the functions' names and a request say,          *)
(* before they are text, and what a server started from them owes.          *)
(*                                                                         *)
(* A line of configuration is [text, key, value, fields, good], fields      *)
(* being the [key, value, good] of a connection.  A function is its row     *)
(* with the segments [param, text] of its name.  A request is [segments,   *)
(* query, form, typed]: values by position or by [name, value], and whether *)
(* it says that its body is a form.                                         *)
(***************************************************************************)
EXTENDS Startup

-----------------------------------------------------------------------------
(* How a client prints a request: it may escape any character, has to       *)
(* escape those that would be taken for something else, and writes the      *)
(* digits in either case, the same wherever a character stands.  (For a     *)
(* space some write "+", which the server leaves as it is.)                 *)
CONSTANT Escaping  \* the escape a client writes for a character

ASSUME EscapingAssumption ==
  /\ { " ", "%", "&", "/", "=" } \subseteq DOMAIN Escaping
  /\ \A c \in DOMAIN Escaping : \E h, l \in HexDigit :
       Escaping[c] = << "%", h, l >> /\ ByteOf(h, l) = c

Escapes == DOMAIN Escaping
Escaped(c) == IF c \in Escapes THEN Escaping[c] ELSE << c >>

Encode(text) == FlattenSeq([i \in DOMAIN text |-> Escaped(text[i])])

Join(parts, c) == FlattenSeq([i \in DOMAIN parts |->
  IF i = 1 THEN parts[i] ELSE << c >> \o parts[i]])

Pairs(held) == Join([i \in DOMAIN held |->
  Encode(held[i].name) \o << "=" >> \o Encode(held[i].value)], "&")

Printed(r) ==
  [path  |-> FlattenSeq([i \in DOMAIN r.segments |-> << "/" >> \o Encode(r.segments[i])]),
   query |-> Pairs(r.query), body |-> Pairs(r.form), form |-> r.typed]

(* What is asked is a request, and comes as a client prints it.             *)
Request ==
  [segments : Seq(Seq(STRING)), typed : BOOLEAN,
   query : Seq([name : Seq(STRING), value : Seq(STRING)]),
   form : Seq([name : Seq(STRING), value : Seq(STRING)])]
Asked == \A r \in Requests : r \in Request /\ Wire(r) = Printed(r)

-----------------------------------------------------------------------------
(* The last value a configuration gives for a key                           *)
Holding(list, key) == { i \in DOMAIN list : list[i].key = key }
LastOf(list, key, default) ==
  IF Holding(list, key) = {} THEN default ELSE list[Max(Holding(list, key))].value

Fields ==
  IF Holding(config, "connection") = {} THEN <<>>
  ELSE config[Max(Holding(config, "connection"))].fields

Good(list) == \A i \in DOMAIN list : list[i].good

(* Connecting and logging in works: the greeting lets the server in, and    *)
(* its first "Z" comes after that.                                          *)
Reachable ==
  /\ Good(Fields) /\ world.host /\ world.accepts /\ world.stack # "Z"
  /\ \E i, j \in DOMAIN world.greeting :
       /\ i < j /\ world.greeting[i] = "AuthenticationOk" /\ world.greeting[j] = "Z"
       /\ \A k \in 1..i : world.greeting[k] # "Z"

(* A line's text says what its key, value and fields say, and one that is   *)
(* good can be read.                                                        *)
FieldKeys == { "host", "port", "database", "user", "password" }
FieldSays(text, field) ==
  /\ \A key \in FieldKeys :
       field.key = key <=> text # <<>> /\ SplitAt(text, "=").split = << key >>
  /\ field.key \in FieldKeys => SplitAt(text, "=").rest = field.value
  /\ field.key = "port" /\ IsLong(field.value) => ToLong(field.value) < PortLimit
  /\ field.good => /\ field.key \in FieldKeys
                   /\ field.key = "port" => IsLong(field.value)

\* what is left of a connection string after each of n fields
Left(text, n) == Rests(text, " ", n)

FieldsSay(text, list) ==
  LET rest == Left(text, Len(list)) IN
  /\ rest[Len(list)] = <<>>
  /\ \A k \in DOMAIN list :
       rest[k - 1] # <<>> /\ FieldSays(SplitAt(rest[k - 1], " ").split, list[k])

LineSays(l) ==
  LET text  == Trim(l.text)
      taken == Ignored(text) \/ GoodLine(text)
      keys  == { "connection", "schema", "port" }
  IN  /\ taken => \A key \in keys :
           l.key = key <=> ~Ignored(text) /\ KeyIn(text) = << key >>
      /\ l.key \in keys => ValIn(text) = l.value
      /\ l.key = "connection" => FieldsSay(l.value, l.fields)
      /\ l.good => taken

Legible == \A setup \in Setups : \A i \in DOMAIN setup.config : LineSays(setup.config[i])

-----------------------------------------------------------------------------
(* Which function a request is for, and with what                           *)

(* A name spells the segments it is said to have: a method, then each       *)
(* behind a "/".  No text of them has a character that would be taken for   *)
(* something else, or that a client escapes.                                *)
Segment(s) == << "/" >> \o (IF s.param THEN << ":" >> ELSE <<>>) \o s.text

Spells(f) ==
  /\ f.name = << f.name[1] >> \o FlattenSeq([i \in DOMAIN f.segments |-> Segment(f.segments[i])])
  /\ \A s \in ToSet(f.segments) :
       ToSet(s.text) \cap (IF s.param THEN { "/" } ELSE Escapes \cup { ":" }) = {}

Spelled == \A setup \in Setups : \A i \in DOMAIN setup.world.functions :
             Spells(setup.world.functions[i])

(* A name the server can read, and arguments the catalog lists as the       *)
(* query for endpoints takes them: inputs first, each with a name of its    *)
(* own that no client escapes.                                              *)
WellDeclared(f) ==
  /\ f.type \in Types /\ CharAt(f.name, 1) \in Methods
  /\ \A i \in DOMAIN f.args :
       /\ f.args[i].name # <<>> /\ ToSet(f.args[i].name) \cap Escapes = {}
       /\ f.args[i].mode # "out" => \A j \in 1..(i - 1) :
            f.args[j].mode # "out" /\ f.args[j].name # f.args[i].name
  /\ \A s \in ToSet(f.segments) :
       s.param => \E i \in DOMAIN InputsOf(f) : InputsOf(f)[i].name = s.text

(* A path of segments that are not empty, and no ":" in it or character the *)
(* server refuses that is not escaped.                                      *)
Values(held) == { p.value : p \in ToSet(held) }
Ordinary(r) ==
  /\ r.segments # <<>>
  /\ \A s \in ToSet(r.segments) : s # <<>> /\ ":" \notin ToSet(s) \ Escapes
  /\ \A s \in ToSet(r.segments) \cup Values(r.query) \cup Values(r.form) :
       ToSet(s) \cap (Refused \ Escapes) = {}

Fits(f, r) ==
  /\ Len(f.segments) = Len(r.segments)
  /\ \A i \in DOMAIN f.segments : ~f.segments[i].param => f.segments[i].text = r.segments[i]

(* Where a value for a name is, and which counts: the last in the path,     *)
(* else the first in the query, else the first in a form.                   *)
InPath(f, name) ==
  { i \in DOMAIN f.segments : f.segments[i].param /\ f.segments[i].text = name }
Named(held, name) == { i \in DOMAIN held : held[i].name = name }

Gives(f, r, name) ==
  \/ InPath(f, name) # {} \/ Named(r.query, name) # {}
  \/ r.typed /\ Named(r.form, name) # {}

ValueOf(f, r, name) ==
  IF InPath(f, name) # {} THEN r.segments[Max(InPath(f, name))]
  ELSE IF Named(r.query, name) # {} THEN r.query[Min(Named(r.query, name))].value
  ELSE r.form[Min(Named(r.form, name))].value

GivesAll(f, r) == \A i \in DOMAIN InputsOf(f) : Gives(f, r, InputsOf(f)[i].name)

Fitting(r) == { i \in DOMAIN world.functions : Fits(world.functions[i], r) }

(* A "/" that ends a name right behind a parameter is passed over with it,  *)
(* and the path without it has the function, too.                           *)
EndsInText(f) ==
  LET n == Len(f.segments) IN
  n > 1 /\ f.segments[n - 1].param => Segment(f.segments[n]) # << "/" >>

(* The case in which all of that is said clearly.                           *)
Clear ==
  /\ Ordinary(reply.to)
  /\ \A i \in DOMAIN world.functions : EndsInText(world.functions[i])
  /\ \A i \in Fitting(reply.to) : WellDeclared(world.functions[i])
  /\ world.rows >= Len(world.functions)

-----------------------------------------------------------------------------
(* Every variable has its type; a port has 16 bits.                         *)
TypeOK ==
  /\ [config |-> config, world |-> world] \in Setups
  /\ pc \in { "config", "fields", "login", "query", "rows", "listen",
              "serving", "exited", "crashed" }
  /\ line \in 0..Len(config) /\ greeted \in 0..Len(world.greeting)
  /\ server.port \in 0..(PortLimit - 1) /\ target.port \in 0..(PortLimit - 1)
  /\ authOk \in BOOLEAN
  /\ Len(routes) <= Len(world.functions)
  /\ reply.outcome \in { "none", "not_found", "called" }

(* load_config and pg_connect: of the three keys load_config knows,         *)
(* connection, schema and port, a server that runs uses the last value the  *)
(* configuration gives, whatever stands around it; and it has connected     *)
(* where the last connection line says, as that user, with that password,   *)
(* to that database.  Except for the port 65536, which is let through and   *)
(* becomes 0.  Other keys change nothing, and the keep-alive-max-idle that  *)
(* example/config:8-10 documents is one of them.                            *)
Port == ToLong(LastOf(config, "port", << "3", "0", "0", "0" >>))
StartsAsConfigured ==
  (pc = "serving" /\ Port # PortLimit) =>
    /\ server.port = Port
    /\ server.schema = LastOf(config, "schema", <<>>)
    /\ target.host = LastOf(Fields, "host", <<>>)
    /\ target.port = ToLong(LastOf(Fields, "port", << "5", "4", "3", "2" >>))
    /\ target.database = LastOf(Fields, "database", <<>>)
    /\ target.user = LastOf(Fields, "user", <<>>)
    /\ target.password = LastOf(Fields, "password", <<>>)

(* read_startup_messages: the first query goes out only to a database that  *)
(* has let the server in and whose greeting has been read to its end: no    *)
(* message of it is taken for a part of the answer.  Whatever m.type is     *)
(* before it is set.                                                        *)
LoggedIn ==
  pc \in { "query", "rows", "listen", "serving" } =>
    /\ \E i \in 1..greeted : world.greeting[i] = "AuthenticationOk"
    /\ world.greeting[greeted] = "Z"
    /\ \A i \in 1..(greeted - 1) : world.greeting[i] # "Z"

(* main: the server gives up only for a line it cannot read, a database it  *)
(* cannot use, a function with several arguments and no name, or a port it  *)
(* cannot have; when it runs, and no row was lost, every function has its   *)
(* route, in the order of the catalog, which decides between routes.        *)
Serves ==
  /\ pc = "exited" => ~Good(config) \/ config = <<>> \/ world.rows < 0 \/ ~world.free
  /\ pc = "crashed" =>
       \/ ~Reachable
       \/ \E i \in DOMAIN world.functions : CannotRead(world.functions[i])
  /\ (pc = "serving" /\ world.rows >= Len(world.functions)) =>
       /\ Len(routes) = Len(world.functions)
       /\ \A i \in DOMAIN routes :
            WellDeclared(world.functions[i]) => routes[i].name = world.functions[i].name

(* Routing: a request calls the first function of the catalog whose path it *)
(* has, and each of the function's arguments gets the value given under its *)
(* name: in the path, else in the query, else in a form; as it was before   *)
(* the client escaped it, with digits of either case: a "/", "&" or "=" in  *)
(* it included, and bytes of characters that have several.                  *)
CalledAsDeclared ==
  (reply.outcome = "called" /\ Clear) =>
    LET r == reply.to
        f == world.functions[Min(Fitting(r))]
    IN  /\ Fitting(r) # {}
        /\ reply.name = f.name
        /\ reply.values =
             [i \in DOMAIN InputsOf(f) |-> ValueOf(f, r, InputsOf(f)[i].name)]

(* Routing: 404 goes only to requests that have no function's path, or do   *)
(* not give all that the first with their path asks for.                    *)
FoundAsDeclared ==
  (reply.outcome = "not_found" /\ Clear) =>
    \/ Fitting(reply.to) = {}
    \/ ~GivesAll(world.functions[Min(Fitting(reply.to))], reply.to)

(* pg_connect and main: once the configuration is read the server comes up  *)
(* or gives up, whatever the database says or leaves unsaid.                *)
Starts == (pc = "fields") ~> (pc \in { "serving", "exited", "crashed" })
=============================================================================
