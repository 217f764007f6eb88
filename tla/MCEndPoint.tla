----------------------------- MODULE MCEndPoint -----------------------------
(* EndPoint on a small instance: a handful of requests and sites that      *)
(* between them take every branch of ReadRequest and BuildResponse.        *)
EXTENDS EndPoint, TLC

Length(n) == [key |-> "Content-Length", sep |-> TRUE, n |-> n]
NoSpace(n) == [key |-> "Content-Length", sep |-> FALSE, n |-> n]
LowerCase(n) == [key |-> "content-length", sep |-> TRUE, n |-> n]

Request(method, query, heads, body) ==
  [method |-> method, query |-> query, heads |-> heads, body |-> body]

Get == Request("GET", FALSE, <<>>, 0)
GetWithParameters == Request("GET", TRUE, <<>>, 0)
Post(heads, body) == Request("POST", FALSE, heads, body)
PostToUriWithQuery == Request("POST", TRUE, <<>>, 0)
Put == Request("OTHER", FALSE, <<>>, 0)

SomeRequests == {Get, Post(<<Length(1)>>, 1)}
AllRequests == {Get, GetWithParameters, Put, PostToUriWithQuery, Post(<<Length(1)>>, 1),
                Post(<<Length(-1)>>, 1), Post(<<NoSpace(1), Length(2)>>, 2),
                Post(<<LowerCase(1)>>, 1)}

Entry(type, size) == [type |-> type, size |-> size]
Absent == Entry("absent", 0)
Site(target, index) == [target |-> target, index |-> index, page404 |-> Entry("file", 1),
                        uri_with_query |-> Absent]

SomeSites == {Site(Entry("file", 2), Absent), Site(Entry("prog", 1), Absent)}
AllSites == {Site(Entry("file", 3), Absent), Site(Entry("prog", 1), Absent), Site(Absent, Absent),
             Site(Entry("dir", 1), Entry("file", 1)), Site(Entry("dir", 1), Absent)}

Symmetry == Permutations(Conns)
=============================================================================
