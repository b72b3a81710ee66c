------------------------------- MODULE MCRestApi -------------------------------
(***************************************************************************)
(* RestApi for TLC: the bodies and the answers whose conversion differs.   *)
(***************************************************************************)
EXTENDS RestApi

\* The properties are invariants and a box of an action, symmetric in machines and
\* in addresses.
Symmetry == Permutations(Machine) \cup Permutations(Address)

Maps(keys, values) == UNION {[D -> values] : D \in SUBSET keys}

Plain == [httpMethod |-> "POST", rawPath |-> "plain", body |-> "text", isBase64Encoded |-> FALSE,
          cookies |-> <<>>, headers |-> EmptyHeader, multiValueHeaders |-> EmptyHeader]

\* Bound: a body that is not plain meets one machine.
PlainForMany ==
  (\A v \in Machine : request[v] # "none") => \A c \in Call : data[c] \in {<<>>, <<Plain>>}

\* A key in two spellings, cookies in two places, lists that are empty or not.
HeaderData ==
  {[Plain EXCEPT !.cookies = <<"c=2", "c=1">>, !.headers = headers, !.multiValueHeaders = multi] :
   headers \in Maps({"a", "A"}, {"x"}),
   multi \in Maps({"a", "Cookie"}, {<<"y", "x">>}) \cup {[key \in {"A"} |-> <<>>]}}

BodyData ==
  {[Plain EXCEPT !.body = body, !.isBase64Encoded = encoded] :
   body \in {"empty", "text", "base64"}, encoded \in BOOLEAN}

LineData ==
  {[Plain EXCEPT !.httpMethod = method] : method \in {"", "not a token"}}
    \cup {[Plain EXCEPT !.rawPath = path] : path \in {"raw", "escaped"}}

MCData == HeaderData \cup BodyData \cup LineData

MCResponse ==
  {[status |-> 200, body |-> "empty", header |-> header] :
   header \in Maps({"A", "Set-Cookie"}, {<<"c=1", "no cookie">>}) \cup Maps({"A"}, {<<"c=1">>})}
    \cup {[status |-> 500, body |-> "bytes", header |-> EmptyHeader]}

===============================================================================
