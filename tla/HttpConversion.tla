---------------------------- MODULE HttpConversion ----------------------------
(***************************************************************************)
(* toHttpRequest and toHttpResponse of pkg/actors/manager/manager.go: the  *)
(* JSON of POST /invoke becomes a request to the service, and its answer   *)
(* becomes JSON again.  A text is a name; what is kept of it is whether    *)
(* the code changes it.  Maps of Go are visited in any order.              *)
(***************************************************************************)
EXTENDS SequencesExt

\* models.HTTPRequest has a list of strings and two maps, from strings to strings and
\* to lists of them.
IsHTTPRequest(data) ==
  /\ data.cookies \in Seq(STRING)
  /\ IsFiniteSet(DOMAIN data.headers)
  /\ data.headers \in [DOMAIN data.headers -> STRING]
  /\ IsFiniteSet(DOMAIN data.multiValueHeaders)
  /\ data.multiValueHeaders \in [DOMAIN data.multiValueHeaders -> Seq(STRING)]

\* textproto.CanonicalMIMEHeaderKey: "a" and "A" are the same header.
Canonical(key) == IF key = "a" THEN "A" ELSE key

EmptyHeader == [key \in {} |-> <<>>]

MutAdd(header, key, value) ==
  [n \in DOMAIN header \cup {Canonical(key)} |->
     IF n = Canonical(key) THEN <<value>> ELSE header[n]]

\* http.Header.Add
Add(header, key, value) ==
  LET name == Canonical(key)
      old == IF name \in DOMAIN header THEN header[name] ELSE <<>>
  IN  [n \in DOMAIN header \cup {name} |-> IF n = name THEN Append(old, value) ELSE header[n]]

\* The lists of values that the JSON has for the header, each with its key.
Lists(data) == {<<"cookies", "Cookie">>}
                 \cup {<<"headers", key>> : key \in DOMAIN data.headers}
                 \cup {<<"multiValueHeaders", key>> : key \in DOMAIN data.multiValueHeaders}

Values(data, list) == CASE list[1] = "cookies" -> data.cookies
                        [] list[1] = "headers" -> <<data.headers[list[2]]>>
                        [] list[1] = "multiValueHeaders" -> data.multiValueHeaders[list[2]]

\* The three loops: the cookies, then Headers, then MultiValueHeaders.
Visit(p, q) == <<<<"cookies", "Cookie">>>> \o [i \in DOMAIN p |-> <<"headers", p[i]>>]
                                           \o [i \in DOMAIN q |-> <<"multiValueHeaders", q[i]>>]

Visits(data) == {Visit(p, q) : p \in SetToSeqs(DOMAIN data.headers),
                               q \in SetToSeqs(DOMAIN data.multiValueHeaders)}

\* The calls of Add of a visit.
Lines(data, visit) ==
  FlattenSeq([i \in DOMAIN visit |-> LET values == Values(data, visit[i])
                                     IN  [j \in DOMAIN values |-> <<visit[i][2], values[j]>>]])

HeaderOf(lines) ==
  LET after[n \in 0..Len(lines)] ==
        IF n = 0 THEN EmptyHeader ELSE Add(after[n - 1], lines[n][1], lines[n][2])
  IN  after[Len(lines)]

HeadersOf(data) == {HeaderOf(Lines(data, visit)) : visit \in Visits(data)}

Encode(body) == IF body = "empty" THEN "empty" ELSE "base64"

\* Only a body that says so is decoded, and "text" is not base64.
IsEncoded(data) == data.body # "empty" /\ data.isBase64Encoded

\* DecodeString or NewRequestWithContext returns an error.
Refused(data) == \/ IsEncoded(data) /\ data.body = "text"
                 \/ data.httpMethod = "not a token"

\* url.URL.String escapes Path, which it takes for a path that is not escaped.
Escape(path) == CASE path = "plain" -> "plain"
                  [] path = "raw" -> "escaped"
                  [] path = "escaped" -> "escaped twice"

ToHttpRequest(data) ==
  {[method |-> IF data.httpMethod = "" THEN "GET" ELSE data.httpMethod,
    path   |-> Escape(data.rawPath),
    header |-> header,
    body   |-> IF IsEncoded(data) THEN "bytes" ELSE data.body] :
   header \in IF Refused(data) THEN {} ELSE HeadersOf(data)}

\* http.Response.Cookies leaves out what it cannot parse.
Cookies(header) ==
  IF "Set-Cookie" \in DOMAIN header
  THEN SelectSeq(header["Set-Cookie"], LAMBDA value : value # "no cookie")
  ELSE <<>>

MutIsSingle(values) == Len(values) >= 1

IsSingle(values) == Len(values) = 1

ToHttpResponse(response) ==
  LET single == {key \in DOMAIN response.header : IsSingle(response.header[key])}
  IN  [statusCode |-> response.status,
       body |-> Encode(response.body),
       isBase64Encoded |-> TRUE,
       cookies |-> Cookies(response.header),
       headers |-> [key \in single |-> Head(response.header[key])],
       multiValueHeaders |-> Restrict(response.header, DOMAIN response.header \ single)]

-------------------------------------------------------------------------------
(* What the conversions have to keep. *)

\* The values that the JSON gives for a header under every spelling of its key, each
\* by its list and its place there.
Given(data, name) ==
  UNION {{<<list, n>> : n \in DOMAIN Values(data, list)} :
         list \in {list \in Lists(data) : Canonical(list[2]) = name}}

\* Every value arrives, as often as it is given and nothing else, and the values
\* of a list stay together and in order.
Conveys(data, request) ==
  /\ DOMAIN request.header =
       {Canonical(list[2]) : list \in {list \in Lists(data) : Values(data, list) # <<>>}}
  /\ \A name \in DOMAIN request.header :
       \E from \in Bijection(DOMAIN request.header[name], Given(data, name)) :
         \A i \in DOMAIN from :
           LET list == from[i][1]
               n == from[i][2]
           IN  /\ request.header[name][i] = Values(data, list)[n]
               /\ n < Len(Values(data, list)) =>
                    i + 1 \in DOMAIN from /\ from[i + 1] = <<list, n + 1>>

\* The header of the answer can be read off the JSON, each key in one place.
Recovers(response, result) ==
  /\ DOMAIN result.headers \cap DOMAIN result.multiValueHeaders = {}
  /\ DOMAIN response.header = DOMAIN result.headers \cup DOMAIN result.multiValueHeaders
  /\ \A key \in DOMAIN result.headers : response.header[key] = <<result.headers[key]>>
  /\ \A key \in DOMAIN result.multiValueHeaders :
       response.header[key] = result.multiValueHeaders[key]

===============================================================================
