------------------------------- MODULE Startup -------------------------------
(***************************************************************************)
(* main of mugshot: read the configuration, connect to the database, turn   *)
(* the functions of the schema into routes, listen and answer               *)
(* (src/mugshot/mugshot.c:1199-1276, 1421-1683; pg_connect,                 *)
(* src/mugshot/pgwire.c:58-227).                                            *)
(*                                                                         *)
(* What the machine and the database do is a record of its own, world, so   *)
(* that a run has at most the faults it names.  One worker answers, one     *)
(* request at a time; how it talks to the database is ServePg.              *)
(***************************************************************************)
EXTENDS Routing

CONSTANTS
  Setups,     \* [config, world]: a configuration file, a sequence of lines
              \* [text, ...], and a world [host, accepts, stack, greeting,
              \* functions, rows, free]: is the name known; is the connection
              \* accepted; what m.type holds; the messages up to the first
              \* query; the catalog; how many of its rows can be read, -1 if
              \* not even the description; is the port free
  Requests,   \* what clients ask: see Declared
  Wire(_),    \* a request as it comes: see Routing
  PortLimit   \* 2^16

Line ==
  [text : Seq(STRING), key : STRING, value : Seq(STRING), good : BOOLEAN,
   fields : Seq([key : STRING, value : Seq(STRING), good : BOOLEAN])]
World ==
  [host : BOOLEAN, accepts : BOOLEAN, stack : STRING, greeting : Seq(STRING),
   functions : Seq([type : STRING, name : Seq(STRING),
                    args : Seq([name : Seq(STRING), mode : { "in", "out" }]),
                    segments : Seq([param : BOOLEAN, text : Seq(STRING)])]),
   rows : Int, free : BOOLEAN]

ASSUME SetupsAssumption == Setups \subseteq [config : Seq(Line), world : World]
\* the ports that are there before any is configured are ports
ASSUME PortAssumption == PortLimit \in Nat /\ PortLimit > 5432

VARIABLES
  config, world,
  pc,        \* "config", "fields", "login", "query", "rows", "listen",
             \* "serving", "exited", "crashed"
  line,      \* the lines that have been read
  server,    \* [connection, schema, port]
  fields,    \* what is left of the connection string
  target,    \* [host, port, database, user, password], where it connects to
             \* and what the startup message says; not sent when empty
  authOk, greeted,   \* of read_startup_messages; how many have been read
  routes,
  reply      \* [to, outcome, name, values], the last answer

vars == << config, world, pc, line, server, fields, target, authOk, greeted, routes, reply >>
given == << config, world >>

NoTarget ==
  [host |-> <<>>, port |-> 5432, database |-> <<>>, user |-> <<>>, password |-> <<>>]
NoReply == [to |-> <<>>, outcome |-> "none", name |-> <<>>, values |-> <<>>]

Init ==
  /\ \E setup \in Setups : config = setup.config /\ world = setup.world
  /\ pc = "config" /\ line = 0
  /\ server = [connection |-> <<>>, schema |-> <<>>, port |-> 3000]
  /\ fields = <<>> /\ target = NoTarget
  /\ authOk = FALSE /\ greeted = 0
  /\ routes = <<>> /\ reply = NoReply

-----------------------------------------------------------------------------
(* load_config, a line at a time                                            *)
Ignored(text) == text = <<>> \/ CharAt(text, 1) = "#"
KeyIn(text)   == Trim(SplitAt(text, ":").split)
ValIn(text)   == Trim(SplitAt(text, ":").rest)

GoodLine(text) ==
  /\ IndexOf(text, ":") > 1
  /\ KeyIn(text) = << "port" >> => IsLong(ValIn(text)) /\ ToLong(ValIn(text)) \in 1..PortLimit

Text    == Trim(config[line + 1].text)
Key     == KeyIn(Text)
Val     == ValIn(Text)
BadLine == ~(Ignored(Text) \/ GoodLine(Text))

AtLine == pc = "config" /\ line < Len(config)

\* Mutant: a port keeps all its bits.
WithSettingWide ==
  CASE Key = << "connection" >> -> [server EXCEPT !.connection = Val]
    [] Key = << "schema" >>     -> [server EXCEPT !.schema = Val]
    [] Key = << "port" >>       -> [server EXCEPT !.port = ToLong(Val)]
    [] OTHER -> server

WithSetting ==
  CASE Key = << "connection" >> -> [server EXCEPT !.connection = Val]
    [] Key = << "schema" >>     -> [server EXCEPT !.schema = Val]
    [] Key = << "port" >>       -> [server EXCEPT !.port = ToLong(Val) % PortLimit]
    [] OTHER -> server

ReadLine ==
  /\ AtLine /\ ~BadLine
  /\ server' = IF Ignored(Text) THEN server ELSE WithSetting
  /\ line' = line + 1
  /\ UNCHANGED << given, pc, fields, target, authOk, greeted, routes, reply >>

RefuseLine ==
  /\ AtLine /\ BadLine
  /\ pc' = "exited"
  /\ UNCHANGED << given, line, server, fields, target, authOk, greeted, routes, reply >>

EndConfig ==
  /\ pc = "config" /\ line = Len(config)
  /\ pc' = IF config = <<>> THEN "exited" ELSE "fields"
  /\ fields' = server.connection
  /\ UNCHANGED << given, line, server, target, authOk, greeted, routes, reply >>

-----------------------------------------------------------------------------
(* pg_connect.  main uses the connection without a look: a null pointer.    *)
NoConnection == pc' = "crashed"

Field      == SplitAt(fields, " ").split
FieldKey   == SplitAt(Field, "=").split
FieldVal   == SplitAt(Field, "=").rest
\* Mutant: no passwords.
KnownFieldNoPassword == Field # <<>> /\ FieldKey \in
  { << "host" >>, << "port" >>, << "database" >>, << "user" >> }
KnownField == Field # <<>> /\ FieldKey \in
  { << "host" >>, << "port" >>, << "database" >>, << "user" >>, << "password" >> }
GoodField ==
  /\ KnownField
  /\ FieldKey = << "host" >> => world.host
  /\ FieldKey = << "port" >> => IsLong(FieldVal)

\* Mutant: the password is taken for the database.
WithFieldMixed ==
  CASE FieldKey = << "host" >> -> [target EXCEPT !.host = FieldVal]
    [] FieldKey = << "port" >> -> [target EXCEPT !.port = ToLong(FieldVal) % PortLimit]
    [] FieldKey = << "user" >> -> [target EXCEPT !.user = FieldVal]
    [] FieldKey \in { << "database" >>, << "password" >> } ->
         [target EXCEPT !.database = FieldVal]
    [] OTHER -> target

WithField ==
  CASE FieldKey = << "host" >>     -> [target EXCEPT !.host = FieldVal]
    [] FieldKey = << "port" >>     -> [target EXCEPT !.port = ToLong(FieldVal) % PortLimit]
    [] FieldKey = << "database" >> -> [target EXCEPT !.database = FieldVal]
    [] FieldKey = << "user" >>     -> [target EXCEPT !.user = FieldVal]
    [] FieldKey = << "password" >> -> [target EXCEPT !.password = FieldVal]
    [] OTHER -> target

(* Two blanks make an empty field, for which key and value are not set; the *)
(* field before may still be there.                                         *)
ReadField ==
  /\ pc = "fields" /\ fields # <<>>
  /\ GoodField \/ Field = <<>>
  /\ target' = IF Field = <<>> THEN target ELSE WithField
  /\ fields' = SplitAt(fields, " ").rest
  /\ UNCHANGED << given, pc, line, server, authOk, greeted, routes, reply >>

RefuseField ==
  /\ pc = "fields" /\ fields # <<>> /\ ~GoodField
  /\ NoConnection
  /\ UNCHANGED << given, line, server, fields, target, authOk, greeted, routes, reply >>

Connect ==
  /\ pc = "fields" /\ fields = <<>>
  /\ IF world.accepts THEN pc' = "login" ELSE NoConnection
  /\ UNCHANGED << given, line, server, fields, target, authOk, greeted, routes, reply >>

(* read_startup_messages.  The loop's condition reads a type nothing has    *)
(* set yet; a message of any other kind, an error too, is passed over.      *)
Message == world.greeting[greeted + 1]
\* Mutant: being let in is enough.
LastReadAuth == IF greeted = 0 THEN world.stack ELSE
  IF authOk THEN "Z" ELSE world.greeting[greeted]
LastRead == IF greeted = 0 THEN world.stack ELSE world.greeting[greeted]

ReadGreeting ==
  /\ pc = "login" /\ LastRead # "Z" /\ greeted < Len(world.greeting)
  /\ greeted' = greeted + 1
  /\ authOk' = (authOk \/ Message = "AuthenticationOk")
  /\ UNCHANGED << given, pc, line, server, fields, target, routes, reply >>

(* The server waits for a password nobody sends, or closes.                 *)
\* Mutant: without SO_RCVTIMEO it waits for ever.
GreetingEndsNever ==
  /\ pc = "login" /\ LastRead # "Z" /\ greeted = Len(world.greeting)
  /\ UNCHANGED vars

GreetingEnds ==
  /\ pc = "login" /\ LastRead # "Z" /\ greeted = Len(world.greeting)
  /\ NoConnection
  /\ UNCHANGED << given, line, server, fields, target, authOk, greeted, routes, reply >>

Login ==
  /\ pc = "login" /\ LastRead = "Z"
  /\ IF authOk THEN pc' = "query" ELSE NoConnection
  /\ UNCHANGED << given, line, server, fields, target, authOk, greeted, routes, reply >>

-----------------------------------------------------------------------------
(* main: the rows of query_endpoints                                        *)
Query ==
  /\ pc = "query"
  /\ pc' = IF world.rows >= 0 THEN "rows" ELSE "exited"
  /\ UNCHANGED << given, line, server, fields, target, authOk, greeted, routes, reply >>

Row == world.functions[Len(routes) + 1]
HasRow == Len(routes) < Len(world.functions) /\ Len(routes) < world.rows

AddEndpoint ==
  /\ pc = "rows" /\ HasRow
  /\ IF CannotRead(Row) THEN pc' = "crashed" /\ UNCHANGED routes
     ELSE routes' = Append(routes, ReadEndpoint(Row)) /\ UNCHANGED pc
  /\ UNCHANGED << given, line, server, fields, target, authOk, greeted, reply >>

(* A row that cannot be read ends them like the last.                       *)
EndRows ==
  /\ pc = "rows" /\ ~HasRow
  /\ pc' = "listen"
  /\ UNCHANGED << given, line, server, fields, target, authOk, greeted, routes, reply >>

(* mugshot_server_start.  For port 0 the system chooses one.                *)
Listen ==
  /\ pc = "listen"
  /\ pc' = IF world.free THEN "serving" ELSE "exited"
  /\ UNCHANGED << given, line, server, fields, target, authOk, greeted, routes, reply >>

-----------------------------------------------------------------------------
(* The worker                                                               *)

Answer(r, outcome, name, values) ==
  /\ reply' = [to |-> r, outcome |-> outcome, name |-> name, values |-> values]
  /\ UNCHANGED << given, pc, line, server, fields, target, authOk, greeted, routes >>

NotFound(r) ==
  /\ pc = "serving" /\ Matching(routes, Wire(r)) = {}
  /\ Answer(r, "not_found", <<>>, <<>>)

LacksParameter(r) ==
  /\ pc = "serving" /\ Matching(routes, Wire(r)) # {} /\ Incomplete(routes, Wire(r))
  /\ Answer(r, "not_found", <<>>, <<>>)

Call(r) ==
  /\ pc = "serving" /\ Matching(routes, Wire(r)) # {} /\ ~Incomplete(routes, Wire(r))
  /\ Answer(r, "called", Found(routes, Wire(r)).name, Decoded(routes, Wire(r)))

Configure == ReadLine \/ RefuseLine \/ EndConfig

Start ==
  \/ ReadField \/ RefuseField \/ Connect
  \/ ReadGreeting \/ GreetingEnds \/ Login
  \/ Query \/ AddEndpoint \/ EndRows \/ Listen

Serve == \E r \in Requests : NotFound(r) \/ LacksParameter(r) \/ Call(r)

Gone == pc \in { "exited", "crashed" } /\ UNCHANGED vars

Next == Configure \/ Start \/ Serve \/ Gone

(* The configuration is a file, read at once; what may take time is the     *)
(* database, and that at most a minute for each read (SO_RCVTIMEO), of      *)
(* which there is one for each message.                                     *)
Spec == Init /\ [][Next]_vars /\ WF_vars(Start)
=============================================================================
