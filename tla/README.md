# A TLA+ model of mugshot and PL/Muggin

The repository has two programs. **PL/Muggin** (`src/muggin.c`, `src/plmuggin.c`)
is an HTML template language that runs inside a PostgreSQL backend. **mugshot**
(`src/mugshot/`) is an HTTP server that turns each request into the call of a
PostgreSQL function, usually a template, over its own implementation of the
PostgreSQL wire protocol. What is concurrent, can fail half way and depends on the
order of messages is a request's way through mugshot: `ServePg`, `HttpWorker` and
`PgBuffer`. What is sequential and decides whether the right function is called and
the right page written is mugshot's start and routing (`Startup`) and the whole of
PL/Muggin, from a template's source to the page (`PlmugginCall`).

## Inventory

| part | state | operations | interacts with | what is hard | what makes it correct |
|---|---|---|---|---|---|
| request service: `mugshot_serve_pg`, `ensure_connection` (`mugshot.c:953-1075`) | control point, the captured response, sleep time | put three queries, sync, read three results, respond, `pg_ready`, fail, reconnect | the wire client; the HTTP socket | an answer left unread becomes the next request's; failure after the page is sent; backend ends at any time | each client gets the result of its own call, once, and it is true |
| wire client, messages (`pgwire.c`) | `PgConn`: socket position, `error`, `close` | `expect_msg`, `read_error`, `pg_read_result`, `pg_next_row`, `pg_ready`, `pg_clear`, `pg_connect`, `pg_close` | the backend | notices anywhere, errors anywhere, timeouts | read position and request stay in step, or the connection is closed |
| wire client, buffer (`pgwire.c`, `pgwire.h`) | `buf_size`, `buf_pos` | `pg_ensure_buf`, `put_*`, `mark_len`, `update_len`, `read_buf`, `pg_clear` | both above | positions kept over reallocations; unchecked length slots | no write leaves it, no row in use is overwritten |
| HTTP worker and parser (`mugshot.c:555-821, 1077-1196`) | `mugshot_conn` (state, buffer, lengths), the worker's buffer, open sockets | accept, recv, `_mugshot_http_read`, route, answer, close | clients, the shared server socket, the request service | requests in pieces, clients that leave or say nothing, several workers | the answer depends on the request only; workers and sockets are not lost |
| routing and parameters (`mugshot.c:839-942`) | none | `mugshot_path_match`, `get_form_parameter`, `str_urldecode` | worker, strings | prefixes, empty values, encoded separators | first matching route, every parameter has its value |
| start-up: configuration, endpoint discovery, `mugshot_server_start` (`mugshot.c:1199-1683`, `pgwire.c:58-227`) | server, routes | `load_config`, `pg_connect`, `mugshot_read_endpoint` | database | results nobody looks at; limits of values; reads of what was not set | settings and routes as declared, or no server |
| template parser and string pools (`muggin.c:83-632`) | input, indentation, pools | `muggin_parse` and its parts | strings | failure and "not here" are the same `false`; ends of input; growth of pools | terminates; the tree is that of the text; numbers of strings stay valid |
| renderer and scopes (`muggin.c:634-915`) | scope, output buffer | render, query loop, bind, unbind | SPI | nested loops rebinding a name; values that point into freed rows; cells never written | a name shows the value of the row it is in; no dead memory is read |
| language handler (`plmuggin.c`) | none of its own | one call: parse, bind, render | PostgreSQL, parser, renderer | arguments without names, or that are no inputs | each argument is bound under its name |
| strings (`str.h`) | string buffers | split, index, trim, decode, append | everything | boundaries, growth | agree with a plain definition |
| trie, arena, base64, SHA-1 (`mugshot.c:180-531, 1281-1419`) | arena | - | nothing on the request path | - | - |

## Modules

| module | models |
|---|---|
| `PgScripts` | what a backend sends for one request, for each way a request can go (external: written from what `pgwire.c` reads) |
| `ServePg` | one worker's database side: request service, wire client, backend and its faults |
| `PgCall` | abstract: what a worker promises its clients |
| `ServePgInv` | the inductive invariant of `ServePg` |
| `HttpWorker` | the worker threads' HTTP side with their clients |
| `PgBuffer` | the buffer of a connection |
| `Str` | the strings of `str.h`: splitting, trimming, numbers |
| `Url` | url decoding, byte by byte |
| `StringPool` | the parser's hash tables of constants and names |
| `MugginParse` | `muggin_parse`, a construct of the template at a time |
| `MugginSource` | reference: what a template is written as, its source, and the tree it stands for |
| `Render` | the walk over the tree, queries, the scope |
| `PlmugginCall` | one call of a template function: composes `MugginParse` and `Render` |
| `RenderSafety` | when one flat scope is enough for a template, the state the renderer is called in, and the properties that hold whatever the template |
| `RenderScope` | the page lexical scoping gives, level by level of the tree, and the properties of `PlmugginCall` |
| `Routing` | reading an endpoint from its catalog row; paths, parameters, decoding |
| `Startup` | `main`: configuration, connection, endpoints, listening, and the worker's search for an endpoint |
| `Declared` | reference: what a configuration, a function's name and a request say, and the properties of `Startup` |
| `MCServePg`, `MCHttpWorker`, `MCPgBuffer`, `MCPlmugginCall`, `MCStartup` | instances for TLC |
| `ServePg_proofs`, `PgBuffer_proofs`, `HttpWorker_proofs`, `PlmugginCall_proofs`, `Render_proofs`, `RenderScope_proofs`, `Startup_proofs` | theorems |
| `SetInduction` | what those rest on: induction over an interval, recursions over one, the greatest of a set |

### ServePg

One action is one blocking read, one write, or one decision between them; the
sequence of reads is the code's. `pc` is where `mugshot_serve_pg` stands, `query`
which of its three queries is being read. `conn`, `close`, `error`, `delay` are the
fields of `PgConn` and the sleep time; `aligned` says that the socket's read position
is at the start of a message, which it is not after `expect_msg` met a message it did
not want: it reads the header, not the payload. From there `ReadJunk` allows every
outcome reading payload bytes as a header can have. `stream` holds answers, each a
script of message types with a position; the same record has the request it answers
(`of`), which the worker cannot see, and this is how the properties know whose row
was sent. `effect` records what each request did in the database.

`ExpectMsg` is `expect_msg` with its three ways out: the message, an error (whose
`ReadyForQuery` `read_error` awaits, marking the connection otherwise), anything
else. `ReadRow` and `ReadNoMoreRows` are `pg_next_row`, which treats an error as an
unreadable row and does not mark the connection. The build matters twice, and
`DebugBuild` says which: `src/mugshot/Makefile` compiles with `-DDEBUG`, whose
`LOG_DEBUG` after `pg_connect` follows a null pointer, and with the address
sanitizer, which ends the process when a freed `PgConn` is used.

### HttpWorker

A request is a sequence of units, each of which completes a line or does not; the
module's header lists them. `Parse` goes through the units of the first recv as
`_mugshot_http_read` does. Parsing is atomic (it touches only the worker's memory),
each recv of the body is a step of its own, so clients send, stop and leave
between them. `dangling` records that the buffer moved under the parsed path. What
the handler gets is `Body`: a position no recv wrote shows as `"stale"`. Routing and
the database are a choice between `served` and `not_found`; `ensure_connection`
is in `ServePg`. A server has one worker (`load_config` sets
`threads = 1`); the model has two, which includes what one can do.

### PgBuffer

Sizes, positions and the bytes the last step wrote. `BeginMessage` is the type byte
and `mark_len` together, `PutField` any of the `put_` macros, `ReadMessage` and
`ReadScratch` the two ways a payload is read (kept or not).

### Str, StringPool, MugginParse, MugginSource

A string is a sequence of characters, and a word that no operation looks into may be one
character: a tag, an attribute's name, a configuration key. So sources stay short, and what is
decided by characters (blanks, `"`, `{`, `)`, `%`, `:`) is decided by characters in the
model too.

`MugginParse` keeps the recursion of `muggin_parse_node` as the sequence `open` of the
elements whose parsing has begun, each with what is read of it next (`todo`: name, attributes,
content, children). Indentation is two columns for each of them. `Give` and `GiveNone` are the
two returns: a node goes to the element around it, no node ends that element. A node
that fails (`NodeFails`, `BadAttributes`) returns like one that is not there, with the input
wherever the failure was; this is the code's only error handling below the root. An `elog`
(`Raises`: a reference without its end, or without a name) ends the call. Pools are
`StringPool` with the code's growth and probing, but a first size of 2, so that a template
of a few words makes them grow; `MCHash` has strings of one length collide.

`MugginSource` knows nothing of characters left to read. A template is there a sequence of lines of
known kind and margin, `Source` prints it, and `Node` gives, from the last line to the first,
the tree it stands for. `AsWritten` compares this with what the parser made. `Reached`
says where a template silently ends: at a blank line, a line too deep or one that is not
a node. In two places the reference says what the code does and no author would expect, because there is no
other reading the parser has: `TextTaken` (the line behind an empty text line is its text) and
`Room` (the rest of a line whose beginning does not parse is a child further out, or ends the template).
`Unambiguous` says which lines are meant: no text holds a mark of the syntax, no value is missing, nothing
is behind a reference that does not end that could end it. Where this fails what is printed may have another reading,
and `AsWritten` need not hold: it is checked for the 161 sources of the run that are `Unambiguous`.

### PlmugginCall

`Parse` steps the parser, `Load` turns numbers into strings (a cell of the scope is
known by the name's spelling) and chooses what the tables hold; only then, because
parsing does not depend on it. `BindArguments` is the handler's loop over **all** arguments, while
fcinfo has the values of the input arguments only.

### Startup, Routing, Declared

One action of `Startup` is a line of the configuration, a field of the connection string,
a message of the greeting, a catalog row, an answer. The record `world` holds what machine
and database do. A field of no characters leaves key and value unset: it is passed over or
refused, whichever the stack makes of it. `LastRead` is `m.type`, unset before the first
message. `main` does not look at the result of `pg_connect`, so every failure there ends
as `crashed`, nor at that of `mugshot_read_endpoint`, so an unreadable row becomes an
endpoint without name and path. `Routing!PathMatch` goes through path and route by
character, as the code does, a turn of the loop (`MatchNext`) after the other; so does
`Url!UrlDecode`, where any two hexadecimal digits are a byte (`Code` names the 256 of them). `Declared!Fits` compares segments. A request is structured
in `Declared`, `Printed` escapes it as its client does (`Escaping`: in either case, what must be and what need not), and
the properties speak of the values before that; `Asked`
says that what comes is printed so, and `Spells` that a function's name is a method and its segments.

A route is a function's *name*: the query for endpoints asks for the comment under the OID of
the function's return type (`obj_description(t.oid, 'pg_proc')`, `mugshot.c:1479`), where
there is none, although `src/mugshot/README.md:6` says "Templates are routed automatically
by their name/comment metadata".

### Render

`stack` is the recursion of `muggin_render_node`, `scope` the array of cells with the
name's index left out. A value is its origin: column, query text, the arguments
the query had, row. So the output says for every value which row of which query it came
from, and `LexicalPage` compares it with `Page`, a function of the node and an
environment. A cell also has `memory`: written by nobody (`palloc` does not clear, so
`has` is arbitrary), live, or pointing into rows that `SPI_freetuptable` gave back. Reading
the last two, or a null taken for a Datum, may give what was there, junk, an error, or
the end of the backend (`BadRead`). The database is a number of rows for each query
text, and any query may fail. Separators, escaping and the doctype are left out.

## Runs

| run | shows | bounds |
|---|---|---|
| `serve_handled` | the properties below and the refinement of `PgCall`, for the outcomes and faults the code copes with | 3 requests: one to spoil the connection, one to suffer, one to recover |
| `serve_faults` | every fault but notices, every outcome but the two that are read like others: types, at most one response per client, every request answered unless the process ends | 3 requests: one leaves `ReadyForQuery` unread, the next loses its place in the stream, the third reads from there (`ReadJunk`) |
| `serve_exec_error` (violation) | a function that raises leaves its `ReadyForQuery` unread | 3 requests |
| `serve_late` (violation) | after a 60 second timeout a client gets the page of another | 3 requests |
| `serve_commit_error` (violation) | a failing commit makes the worker use a freed connection | 3 requests |
| `http_whole` | requests in one segment, silent clients: fair answers, no worker or socket lost, everybody accepted | 3 clients, 2 workers, 2 descriptors, so that one lost socket is missed |
| `http_any` | any segments, clients leaving, malformed requests, a growing buffer: complete before handled, one answer, no overrun | 2 clients, 2 workers, buffer of 5 units so that one request outgrows it |
| `http_segments` (violation) | headers in two segments: no answer, and the socket stays open | 2 clients, 1 worker |
| `http_body` (violation) | a body in pieces overwrites itself | 2 clients, 1 worker |
| `buffer` | no overrun, no overwritten row, over repeated requests with growth by each branch of `pg_ensure_buf` and shrinking | positions up to 36 for a smallest buffer of 4; proved for all |
| `template_call` | from source to page: the tree is the one written; one flat scope gives the lexical page when no name hides another; then no dead memory is read; tags nest; the parser never stands still and every call ends | 50 templates of nested queries with every use of three names in, between and behind them, and of sibling, void, childless and doubled `m:q`; 161 sources with a line of every kind and depth behind others and in front of them, with empty text lines, lines that break off, and ends in a value; 6 signatures; 0 to 3 rows with at most 2 fetched; 2 classes; pools of 2 |
| `startup` | the server comes up as configured, with every route, or gives up for a reason; a request calls the function it fits with the values it gives | 15 configurations with a good database, 18 worlds (databases and catalogs) with a good configuration, 55 requests to each server that comes up, with escapes in both cases, of bytes that need it and of letters that do not; among the catalogs one name with a parameter twice and one of `/` alone |

The bounds are named constants: `MaxRequests`, `Capacity`, `MaxHeaders`, `MaxOpen`,
`MaxPos`, `RowLimit`, `MaxClasses`, `FirstSize`, `MaxDepth` (how deep elements nest: 8, more than any
template of the run). Requests of `ServePg` interact only through what is left on a connection or
in its flags, and one request's leftovers meet the next; three cover cause, effect and
recovery. The proofs do not need the bound.

Properties of `ServePg`: `OwnAnswer`, `HonestSuccess`, `CommittedIsReported`,
`BadRequestIsOwn`, `OneReply`, `InSyncAtAccept`, `AtMostOneLost`, `ProcessSurvives`,
`EveryRequestAnswered`, `Reconnects`. Of `HttpWorker`: `FairVerdict`, `OwnBody`,
`HandledIsComplete`, `OneReply`, `WithinCapacity`, `NoLeak`,
`WorkersReturn`, `BacklogDrains`, `AnsweredOrClosed`. Of `PgBuffer`: `InBounds`,
`RowIntact`. Of `PlmugginCall`: `AsWritten`, `LexicalPage`, `SafeReads`, `Nested`, `Shrinks`,
`Terminates`. Of `Startup`: `StartsAsConfigured`, `LoggedIn`, `Serves`, `CalledAsDeclared`,
`FoundAsDeclared`, `Starts`. Each is stated in words where it is defined.

### What the passing runs leave out, and what happens there

`serve_handled` covers the outcomes `ok`, `conflict`, `parse_error`, `bad_input` with
notices, backends terminated in order, and refused connections (release build). Outside:

- `exec_error`, `no_row`, `two_rows`, `fatal_exec`: the request fails while rows are
  read and `close` is not set; the next requests read what is left (`serve_exec_error`);
- `late`: `serve_late`;
- `commit_error`, `param_status`: `pg_ready` fails and the freed connection is used
  (`serve_commit_error`);
- `crash`: a read or write that fails does not set `close`, so the dead connection is
  kept for ever (`AtMostOneLost` fails with `Faults = {"crash"}`);
- `down` in the debug build: a null pointer is followed (`ProcessSurvives` fails with
  `Faults = {"down"}`, `DebugBuild = TRUE`).

`http_whole` has well-formed requests in one segment, with bodies that fit and hold no
line end. Outside, besides the two violation runs:

- a malformed request is answered 400 and its socket is never closed (`NoLeak`), which
  in the end exhausts the descriptors (`BacklogDrains`);
- when the rest of a body is not there yet, the request is answered 400 (`FairVerdict`);
- when the client leaves in the middle of its body the worker loops for ever
  (`WorkersReturn`), and with one thread that is the server;
- a line end in a body that comes with its headers is parsed as a line: 400
  (`FairVerdict`);
- a body that outgrows the buffer may move it under the parsed path (`HandleDangling`).

`LexicalPage` and `SafeReads` speak of templates in which every name is used where it is
bound and none hides another, of calls without nulls, and `LexicalPage` of results within
the row limit. The run also goes through all others, for which `Nested`, `Terminates` and
`TypeOK` hold. There, a name used behind its loop is read from freed memory; a nested
query with a column of the outer one (`q3` in `MCPlmugginCall`) leaves its last value for
the rest of the outer row, although the README of the repository has names bound "for
each row" and `muggin.h:127` says of unbinding "Revert to previous binding."; a
null or unbound name may end the backend; rows beyond the limit are dropped.

`AsWritten` says what the tree is for sources of `Unambiguous` lines; what it says for some of
them may surprise who wrote them:

- a text node (`|`) is filled in through a pointer nobody set (`muggin.c:468`), although
  `src/README.md` and `src/muggin_test.c` use them: the backend ends, or memory is lost
  (`WildWrite`); an empty one takes the next line that is not blank for its text, because `str_trim` goes
  over the end of the line (`muggin.c:457`, `TextTaken`);
- a blank line, a line of the wrong depth, or one that is not a node ends the template
  silently; the indentation of the first line is not counted, so that its children miss theirs;
- what is left of a line whose name breaks off (`li.` and blanks, or a class too many) is read as a line: it
  becomes the child of an element further out if its blanks are as many as that one's children need, and ends the
  template otherwise (`Room`, `muggin.c:567`);
- a text line trims the end of the whole source, so that blank lines there no longer end an unquoted value;
- the first `---` anywhere drops all that is in front of it;
- an attribute without a value is dropped if `)` follows, and fails the node otherwise;
  a quoted value that does not end takes the rest of the template; an unquoted one
  at the end of the source hangs the backend (`ValueNeverEnds`, outside `Shrinks`).

With an output argument in front of an input one the template gets values of the
wrong arguments; with no argument named a null pointer is followed; with some unnamed the
call raises, because the empty name equals every free slot of the pool (`BindFails`).

`startup` has, outside its properties: a port of 65536, which passes the test and becomes
0, so that the system chooses one; settings the server does not know, which it passes over without a word, although one of them,
`keep-alive-max-idle`, is documented in `src/mugshot/example/config:8-10` (connections are not kept alive, and the only
limit on a silent client is the 5 seconds of `mugshot.c:1134`); a path with a `:`, which meets the route's `:` and gives the parameter no value; a
trailing `/` behind a parameter, which is not seen in a path, and in a route makes a function be
found for the path without it, too (`EndsInText`: both are because `str_splitat` drops the separator
and leaves nothing behind it; TLC refutes `CalledAsDeclared` without that clause); a value with a raw control or high
byte, passed on half decoded; functions the query cannot take in (output arguments first,
one argument without name, other return types); a row lost to an error or a timeout, and all
behind it (`rows`), whose functions have no route; a request that the first function with its path
cannot take, which is not offered to the next. The method of a request is never compared with
the route's. A `+` is not decoded to a blank. A refused connection leaves its socket open
and a null pointer to `main`.

## Fairness

`ServePg!Spec`: weak fairness of the worker's own steps, a thread that is never
blocked for ever since every read has a timeout of 60 seconds (`pgwire.c:174-178`), and of
`Connect`: the database can be reached in the end. Clients need not come and nothing
need fail. `AnsweringSpec` adds that a live backend answers; only `serve_handled` uses
it, for the progress part of `PgCall`. `HttpWorker!Spec`: weak fairness of each
worker's accept and of its serving. Clients have none: they may stop anywhere.
`GiveUp` is the five second limit on a silent client, so it is fair like any step of the
worker. A recv of 0 bytes inside a body changes nothing, and repeating it is not
progress. `PlmugginCall!Spec`: the call runs on its backend's only thread, so its next
step is always taken; the fairness is stated for rendering only. That the parser stops
needs none: `Shrinks` says that every step shortens what is to be read. `Startup!Spec`:
once the configuration file is read every step of the start is fair, since a read of the
database gets its message or fails after 60 seconds; requests have no fairness.

## Proofs

`ServePg_proofs`: `TypeCorrect` and `OneReplyCorrect`, under every outcome, every fault, any number of
requests, so also on a connection whose place in the stream is lost. `TypeOK` is inductive by itself; the
lemmas are about one read (`Consume`), the scripts, and each action. That a client gets one response
is not: what makes it so is that at every point before the response the current request has none
(`RepliesInOrder`, with `BeforeReply` for those points), and that no read writes one (`ReadQuiet`).

Its second part is about safety: under `Coped` (outcomes and faults as in `serve_handled`) the
safety properties of the run and `ImplementsCallSteps`, that each step of the
worker is a step of `PgCall` or invisible there. None of the properties is inductive:
that the row just read is the current request's does not follow from the replies so
far. `IInv` (module `ServePgInv`, checked by `serve_handled`) says what the code
relies on without saying it: the worker is either reading, with exactly one answer
on the wire, the current request's, its position determined by `pc` and `query`
(`PositionIn`, `ReachedIn`), or waiting, or facing a lost backend, or failing, or at
rest with nothing on the wire; plus a ledger of the requests before, at and after the
current one, and what the flags of the connection say. The proof goes action by action; `DueStep` and `NoticeStep`
factor what all reads share, `Advance` computes the scripts. `ProcessSurvivesCorrect` follows: a freed
connection is used only after `pg_ready` fails, and under `IInv` it does not; for a debug build it
assumes besides that the database accepts connections, which is the null pointer named above.

`PgBuffer_proofs`: `TypeCorrect`, `InBoundsCorrect` and `RowIntactCorrect` for all sizes and lengths,
from `EnsuredSuffices`: `pg_ensure_buf` leaves at least `MinIncrease`, hence four bytes,
behind what was asked for, and that is what `mark_len` uses. The strengthening `Room`
keeps a row below the position.

`HttpWorker_proofs`: `OneReplyCorrect` for any number of workers
and clients, any requests, segments and departures. It is not inductive: what keeps an answered client from being answered again is that only who
waits or is served can be answered and has no answer yet (`Unanswered`), and that whoever
was answered had sent something, so it does not connect again (`SentFirst`). `TurnAway`
and `GoOn` are the two ways a worker's step ends. Nothing is assumed of what parsing
finds, so these hold whatever `_mugshot_http_read` makes of a request.

Its second part is about what parsing finds. `Parse` is a recursive function of the units, and
a first group of lemmas computes it by induction over their number: `SetInduction` proves, from
the library's natural numbers, that a set of numbers with 0 and every successor up to n has all of 0..n,
which is a statement about sets and so within the provers' reach. From it: the outcome of a
read says no more than the units do, whatever was sent (`ParseShows`); a head that is complete
is that of a well-formed request and its length is what was read of it (`HeadRead`); and a plain
well-formed request that is there as a whole reaches a body or the end (`WholeParse`).
The invariants add where a client's units are: `Flow` (received, on
the wire and not yet sent are, in this order, the request), `Accounts` (a worker at a body or at
the handler has taken the head and the counted bytes, no more) and `Whole` (under `WholeRequests` what is received is the whole request).

- `TypeCorrect` and `WithinCapacityCorrect` have no hypothesis.
- `HandledIsCompleteCorrect` assumes `AllFramed`: clients send as many bytes of body as they announce. Without it
  a request with more behind its body is handled though it is not well-formed; pieces and departures are free.
- `FairVerdictCorrect` and `NoLeakCorrect` assume `WholeRequests`, what `http_whole` has: one segment,
  no line end in a body, a buffer that holds the request; `NoLeakCorrect` besides that all are
  well-formed. Each is needed: the list above says what happens without.

The instances of the runs satisfy these (`InstancesFramed`, `Valid`).

`Render_proofs`: for every template whose elements nest at most `MaxDepth` deep, every scope and every database, `SafeReadsCorrect` and
`NestedCorrect`. They are about `RenderSpec`: the steps of `Render`
from any state `muggin_render` can be called in (`Begin`); that each call of the language handler
begins in one is proved in `RenderScope_proofs`. The tree is not walked by recursion but by levels (`NodesAt`: the
nodes d elements deep, each with the names bound around it), a recursive function whose solution `LevelsRun` unfolds.
`IInv` says that the stack is a path through these levels, all but the innermost activation at their children
(`Shape`); that the results in use are younger the deeper they are (`Results`), so that `FreeRows` of one never frees
what those around it use; and, for scoped templates, that the cells of the arguments and of every element at its
children are live and point into that element's own result (`Cells`), which is what `SafeReads` needs
and what the bindings, never taken back, could break: a query that binds a name of an outer
one would leave its cell pointing into freed rows. `Unshadowed` excludes that case. `NestedCorrect` adds `Output`: the open tags of
the output are the tags of the stack, by lemmas on `TagsIn` (`TagsAppend`, `TagsPlain`) and on the flattening of sequences (`FlattenType`).

`PlmugginCall_proofs`: what the parser leaves, for every source, every signature and every hash function.
`ParserInvariant` is `TypeOK` of the parser made inductive (`ParserInv`). Two things had to be added to the types. One is about each
pool (`Sound`): a string stands in one slot only, in the first free one on its probing sequence, there is always a free slot, and
so `Lookup` ends and finds what was added; this is the induction over probing that the growth of a pool must keep, because
rehashing puts every string into another slot. The other is about the tree (`WellMade`, `Family`): every number that
the tree or an open element holds is of a string its pool has, so `Load` never reads beyond one. `NumbersKeepTheirStrings` states
what the parser relies on across all of this: a number once given means the same string after any later step.
`ShrinksCorrect` is the action property `Shrinks`, that no step of the parser stands still, from what each
reading function leaves (`Falls`): it is why the parser ends, and is proved construct by construct, the failures included.
Hypothesis `Hashes`: a string's hash is a natural number, as the code's `uint32_t` is.

`RenderScope_proofs` composes it with `Render`: `CallTypeCorrect`, `CallSafeReads`, `CallNested` and `CallLexicalPage` are the properties of `template_call` for
`PlmugginCall!Spec`, from the source to the end of the page. `Load` is shown to make of a tree with known numbers one
whose levels are those `Render` walks (`Walkable`), and `BindArguments` to leave the cells of the arguments live and the
others as they were (`ArgumentsBound`), so that a call enters `Begin` and the theorems on `RenderSpec` carry over (`CallInv`).
Hypothesis `[]Executable`: when binding begins no element of the loaded tree is deeper than `MaxDepth`, and every query is one
the database has an answer for. The first is the bound of the model, on a recursion of the code that has none; the second
says that the constants of the model describe the queries the source has in it. In the instance
every call that comes to rendering has both (`Begin`, in the run's `TypeOK`, contains them).

`CallLexicalPage`, the longest of these proofs, is that the page is the one lexical scoping gives to the source: for every function whose tree
is the one its lines mean (`[]AsWritten`), for all arguments, rows and depths up to `MaxDepth`. `Page` is two recursions over levels, nodes with their environments going down
and pages coming up (`Paging`); they have one solution (`PageRuns`, `PagingUnique`), which no step changes (`PagedSame`).
The invariant (`OnWay`) speaks of every activation on the stack, not of the innermost one alone: E[i] is
the environment the i-th stands in, and R[i] what it and those around it still have to write (`Left`: the rest of
its children in this row, its other rows, its closing tag), and `out` followed by R of the innermost is the whole page (`Continues`).
That each step writes exactly what it takes off R is the arithmetic of the counters `row` and `next` (`TurnAfter`,
`KidAfter`); that it writes the right values is `Agrees`: the one flat scope has, for every name in the
environment of what is rendered next, that environment's value. A row's binding establishes it for its children
(`RowBound`), and behind an element it still holds of what is around it, although nothing is taken back, because
its columns are no names of that environment (`AroundAgrees`): this is where `Unshadowed` is needed. `SafeReads`
is used on the way: a cell that could be dead might be read as anything. `LexInv` carries it over the call: `Load`
makes the tree that was meant, `BindArguments` gives every input its own value
(`ArgumentsAgree`, which needs what `WellCalled` says of the order of inputs and outputs).

`Startup_proofs`: for every configuration, database, catalog and request. `TypeCorrect` and
`LoggedInCorrect` have no hypothesis; `LoggedIn` is made inductive by `Greeted`, that `authOk` says
exactly whether the greeting so far has let the server in, and that a "Z" in it can only be its last
message. So the loop whose condition reads an unset type is harmless for what follows: if it happens to be "Z",
nothing has let the server in. `StartsAsConfiguredCorrect` and `ServesCorrect` assume `Legible`: every line's text
is read, trimmed and split, as the key, value and fields it is said to have, and what is good can
be read. It speaks of one line or one field at a time, `MCStartup` assumes it of its configurations and TLC
evaluates it. What the theorems add is the order and the number of lines and fields: `Read` and `Connected` say that what has been
read so far agrees with the last value among as many lines (`LastIn`, `LastOfMore`), and
`Excused` that a server that is gone had a reason; `Rests` is the recursion that follows the
connection string field by field (`NextField`). `GreetingRead` is why a good greeting is not given up: its
first "Z" comes after it let the server in. That "first" was missing from `Reachable` before the proof: a greeting
with a "Z", then "AuthenticationOk", then another "Z" counts as unusable, and the server rightly takes it so.

Its second part is routing, for every catalog and request: `CalledAsDeclaredCorrect` and
`FoundAsDeclaredCorrect`. The hypotheses are `Spelled` (each name is the text of the segments it is said to have, none with a
character that would be taken for a separator) and `Asked` (a request comes as a client prints it); TLC
evaluates both for the instance. The properties themselves are confined to `Clear`, whose exceptions the list above
gives. The invariant is `Answered`: the last answer is the one the routes have for its request, and routes do not change
once the server runs. The rest is about the operators, and each loop is a
recursion over an interval that `SetInduction` unfolds:

- `PathMatch` is followed segment by segment (`AtSegment`: where route and path stand in front of a segment,
  and what has been taken so far; `SegmentStep`, `SegmentEnd`). A segment that is text is passed character by
  character; where the two differ the match is over, because neither goes on with a "/" unless its segment ends;
  one that is a parameter is taken whole, because what a client escapes cannot hold a "/". So `MatchWalk` and `FitsMatches`: a route
  matches exactly the requests that `Fits` says, and gives each parameter its last segment.
- Decoding undoes escaping (`ValueRead`, from one turn of the loop for each character, escaped or
  not): whichever characters are escaped, each as "%" and the two digits of its byte in either case (`EscapingAssumption`). Text
  that is not escaped is what it was.
- A form is read pair by pair (`FormGives`): the pairs a client joined with "&" and "=" are those `get_form_parameter`
  splits off, and the first with the name counts.
- `ArgumentName` ties this to the catalog: under `WellDeclared` the name an endpoint has for its i-th argument is that
  of the i-th input.

Two things came out of these proofs. A name that ends in "/" behind a parameter is
found for the path without it, which the properties did not exclude before and no catalog of the run
had. And `WellDeclared` has to ask that names of arguments hold no character a client
escapes, since names in a query are compared as they come (`mugshot.c:845`).

Assumptions: the `ASSUME`s of the modules (constants are in range), and the hypotheses named above,
each in the theorem's statement. Only model-checked:

- liveness, and the progress part of `PgCall`: out of the provers' reach;
- `AsWritten`: it compares the parser, character by character, with a reference that is a function of the
  whole source (`Node` of `Accepted`, printed by `Source`), so it needs an induction over the text. It is a hypothesis
  of `CallLexicalPage`, which is therefore as good as the run that checks it, on the sources of
  `template_call`; of a parsed tree that is not the one meant the theorem says nothing.

## Not modelled

`PROJECT.json` lists every component. Left out, and why:

- The trie, arena, base64, SHA-1 and WebSocket states of `mugshot.c`: nothing between
  `accept` and `close` calls them; the arena only serves allocations that are never given back.
- Static responses (`mugshot_response_file`, `mugshot_response_static`): the worker does not call them.
- `stb_ds.h` is vendored; of it the code uses appending to one array. It is a third of the
  repository's lines.
- String buffers, logging, the logo and the printing of endpoints: output without
  effect on what is decided.
- Running out of memory, anywhere; numbers too large for a `long`.
- The layout of values on the wire (`pg_field`, `pg_value`, `pg_value_arr`); messages of the wire
  protocol are atomic in `ServePg`: a `read` that returns part of a header
  (`pgwire.c:400`) is not modelled there, nor the descriptors that failed attempts to
  connect leave open (`pgwire.c:180`). `ServePg!Connect` is one step; `Startup` has the
  same function in steps.
- The kernel's accept queue is unbounded. Of HTTP, methods, versions and header values
  other than Content-Length are left out of `HttpWorker`, where routing is a choice;
  `Startup` has the routing, of one worker that answers whole requests.
- `load_template`, which the parser is given and never calls.

## What could follow

1. For `RenderScope`: `AsWritten`, an induction over the lines of the source and what is printed of each.
2. An abstract exchange that `http_whole` implements, and its composition with `PgCall`
   and `Routing`.
3. Short reads, in a refinement of `ServePg`.
