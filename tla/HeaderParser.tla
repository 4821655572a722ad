---------------------------- MODULE HeaderParser -----------------------------
(***************************************************************************)
(* http_header and the functions on headers (header_parser.h, .cpp).  A    *)
(* header is its first line and the sequence of its properties, a property *)
(* a name in lower case and a value; the value of a property with          *)
(* directives is the set of those that should_cache() looks for.           *)
(***************************************************************************)
EXTENDS Naturals, Sequences

Property(name, value) == [name |-> name, value |-> value]

\* get_property() of a property that is not there.
NoValue == "no value"

Positions(ps, name) == {i \in 1 .. Len(ps) : ps[i].name = name}

Has(ps, name) == Positions(ps, name) # {}

\* The first property with the name, there is one.
First(ps, name) == CHOOSE i \in Positions(ps, name) :
                     \A j \in Positions(ps, name) : i <= j

Get(ps, name) == IF Has(ps, name) THEN ps[First(ps, name)].value ELSE NoValue

\* set_property() changes the first one, or adds one at the end.
Set(ps, name, value) ==
  IF Has(ps, name) THEN [ps EXCEPT ![First(ps, name)] = Property(name, value)]
                   ELSE Append(ps, Property(name, value))

\* erase_property() erases the first one.
Erase(ps, name) ==
  IF Has(ps, name)
    THEN LET n == First(ps, name) IN SubSeq(ps, 1, n - 1) \o SubSeq(ps, n + 1, Len(ps))
    ELSE ps

\* Mutant: Proxy-Connection wins over Connection.
Parsed_Overwrites(ps) ==
  IF Has(ps, "proxy-connection")
    THEN Set(Erase(ps, "proxy-connection"), "connection", Get(ps, "proxy-connection"))
    ELSE ps

\* What the constructor makes of the lines: Proxy-Connection stands for
\* Connection unless that is there.
Parsed(ps) ==
  LET rest == Erase(ps, "proxy-connection") IN
  IF ~Has(ps, "proxy-connection") THEN ps
  ELSE IF Has(rest, "connection") THEN rest
  ELSE Set(rest, "connection", Get(ps, "proxy-connection"))

Restrictive == {"no-cache", "no-store", "must-revalidate", "proxy-revalidate", "max-age=0"}

\* The directives of a property that may not be there.
Directives(ps, name) == IF Has(ps, name) THEN Get(ps, name) ELSE {}

\* should_cache().  It asks for "cache-control" and reads "cache_control".
ShouldCache(ps) ==
  /\ ~(Has(ps, "cache-control") /\ Directives(ps, "cache_control") \cap Restrictive # {})
  /\ "no-cache" \notin Directives(ps, "pragma")
  /\ ~(Has(ps, "cache") /\ Get(ps, "cache") = {"none"})
  /\ Has(ps, "etag") \/ Has(ps, "last-modified")

\* Mutant: the validator is the one the client sent, if it did.
MakeValidateHeader_OfClient(rqst, response) ==
  IF Has(rqst, "if-none-match") THEN rqst
  ELSE LET etag == IF Has(response, "etag")
                     THEN Set(<<Property("host", Get(rqst, "host"))>>,
                              "if-none-match", Get(response, "etag"))
                     ELSE <<Property("host", Get(rqst, "host"))>>
       IN  IF Has(response, "last-modified")
             THEN Set(etag, "if-modified-since", Get(response, "last-modified")) ELSE etag

\* make_validate_header(): a new header with the validators of the response.
MakeValidateHeader(rqst, response) ==
  LET host  == Set(<<>>, "host", Get(rqst, "host"))
      etag  == IF Has(response, "etag")
                 THEN Set(host, "if-none-match", Get(response, "etag")) ELSE host
      since == IF Has(response, "last-modified")
                 THEN Set(etag, "if-modified-since", Get(response, "last-modified")) ELSE etag
  IN  Set(since, "connection", Get(rqst, "connection"))
==============================================================================
