------------------------------- MODULE Routing -------------------------------
(***************************************************************************)
(* Endpoints: how one is read from a function's catalog row, and how a      *)
(* request finds one and gets its arguments                                 *)
(* (src/mugshot/mugshot.c:839-942, 1157-1190, 1477-1584).                   *)
(***************************************************************************)
EXTENDS Url

CONSTANTS
  Methods,  \* HTTP method names, a character each (see Str)
  Types     \* the supported return types

(* A catalog row is [name, type, args]; args are [name, mode].  The query    *)
(* for them asks for a comment under the OID of the function's return type, *)
(* which has none: what is left for the route is the function's name.       *)
Route(row) == row.name

InputsOf(row) == FlattenSeq([i \in DOMAIN row.args |->
  IF row.args[i].mode = "out" THEN <<>> ELSE << row.args[i] >>])

(* Without any name proargnames is null, and what is read instead is the    *)
(* row description: one name of no characters, then a length of a quarter   *)
(* of a gigabyte.                                                           *)
Nameless(row)  == \A i \in DOMAIN row.args : row.args[i].name = <<>>
CannotRead(row) == Nameless(row) /\ Len(InputsOf(row)) >= 2

(* The names are those of the first arguments, inputs or not.               *)
ArgNames(row) == [i \in DOMAIN InputsOf(row) |-> row.args[i].name]

(* An endpoint [name, path, args].  That a row could not be read is not     *)
(* noticed by the caller: the endpoint stays without name and path.  The    *)
(* method is split off and never compared with a request's.                 *)
ReadEndpoint(row) ==
  IF row.type \in Types /\ CharAt(Route(row), 1) \in Methods
    THEN [name |-> row.name, path |-> Tail(Route(row)), args |-> ArgNames(row)]
    ELSE [name |-> <<>>, path |-> <<>>, args |-> ArgNames(row)]

-----------------------------------------------------------------------------
(* mugshot_path_match: character by character, a ":" of the route taking    *)
(* what is in front of the path's next "/" - unless the path has a ":"      *)
(* there too.                                                               *)
Unset      == [has |-> FALSE, text |-> <<>>]
Set(text)  == [has |-> TRUE, text |-> text]

\* the argument a ":" names, and whether there is one, and a value for it
Parameter(e, m) == IndexOf(e.args, SplitAt(Tail(m.route), "/").split)
TakesValue(e, m) ==
  m.route[1] = ":" /\ SplitAt(m.path, "/").split # <<>> /\ Parameter(e, m) # 0

\* a turn of the loop: what is left of route and path, the values so far
MatchNext(e, m) ==
  IF ~m.ok \/ m.route = <<>> \/ m.path = <<>> THEN m
  ELSE IF m.route[1] = m.path[1] THEN [m EXCEPT !.route = Tail(@), !.path = Tail(@)]
  ELSE IF TakesValue(e, m)
    THEN [m EXCEPT !.route = SplitAt(Tail(@), "/").rest, !.path = SplitAt(@, "/").rest,
                   !.values[Parameter(e, m)] = Set(SplitAt(m.path, "/").split)]
  ELSE [m EXCEPT !.ok = FALSE]

PathMatch(e, path) ==
  LET begin == [route |-> e.path, path |-> path, ok |-> TRUE,
                values |-> [i \in DOMAIN e.args |-> Unset]]
      after[n \in 0..Len(e.path)] ==
        IF n = 0 THEN begin ELSE MatchNext(e, after[n - 1])
      end == after[Len(e.path)]
  IN  [ok |-> end.ok /\ end.route = <<>> /\ end.path = <<>>, values |-> end.values]

-----------------------------------------------------------------------------
(* A request is [path, query, body, form], form for a form's content type.  *)

(* get_form_parameter: the first of that name.  A "=" may be in a value,    *)
(* not in a name.                                                           *)
FormParameter(parameters, name) ==
  LET rest    == Rests(parameters, "&", Len(parameters))
      part(n) == SplitAt(rest[n - 1], "&").split
      named   == { n \in 1..Len(parameters) :
                     part(n) # <<>> /\ SplitAt(part(n), "=").split = name }
  IN  IF named = {} THEN Unset ELSE Set(SplitAt(part(Min(named)), "=").rest)

\* Mutant: the parameters are decoded before they are told apart.
RequestParameterDecoded(req, name) ==
  LET inQuery == FormParameter(UrlDecode(req.query).value, name) IN
  IF inQuery.has \/ ~req.form THEN inQuery
  ELSE FormParameter(UrlDecode(req.body).value, name)

RequestParameter(req, name) ==
  LET inQuery == FormParameter(req.query, name) IN
  IF inQuery.has \/ ~req.form THEN inQuery ELSE FormParameter(req.body, name)

(* The first endpoint whose path matches; it gets what the path does not    *)
(* give from the parameters, and no other is tried when one is missing.     *)
Matching(routes, req) == { i \in DOMAIN routes : PathMatch(routes[i], req.path).ok }
Found(routes, req)    == routes[Min(Matching(routes, req))]

Raw(routes, req) ==
  LET e       == Found(routes, req)
      matched == PathMatch(e, req.path).values
  IN  [i \in DOMAIN e.args |->
        IF matched[i].has THEN matched[i] ELSE RequestParameter(req, e.args[i])]

\* Mutant: what the path gives has to be given again.
IncompleteTwice(routes, req) ==
  \E name \in ToSet(Found(routes, req).args) : ~RequestParameter(req, name).has

Incomplete(routes, req) ==
  \E i \in DOMAIN Raw(routes, req) : ~Raw(routes, req)[i].has

(* Whether decoding worked is not looked at.                                *)
Decoded(routes, req) ==
  [i \in DOMAIN Raw(routes, req) |-> UrlDecode(Raw(routes, req)[i].text).value]
=============================================================================
