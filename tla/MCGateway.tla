------------------------------ MODULE MCGateway ------------------------------
(* Gateway for TLC: environments that vary in one group of settings each.   *)
EXTENDS Gateway

NoFile == [is |-> "none", default |-> "", defaultDatabaseID |-> "", items |-> <<>>]
Unset == [url |-> "", id |-> ""]
UpTo(n, items) == UNION {[1..k -> items] : k \in 0..n}
Url(k) == <<"u1", "u2", "u3">>[k]

Base ==
  [file |-> NoFile, urls |-> <<>>, ids |-> <<>>, numbered |-> <<Unset, Unset, Unset>>, single |-> "u9",
   wanted |-> "", iam |-> FALSE, region |-> "", valid |-> TRUE,
   wellKnown |-> "", alias |-> "", resource |-> "", scopes |-> <<>>, cloudflare |-> FALSE, clients |-> "databases"]

(* The n-th item of a list of URLs is the n-th URL or is empty.             *)
UrlLists == {list \in UpTo(3, {"", "u1", "u2", "u3"}) : \A k \in DOMAIN list : list[k] \in {"", Url(k)}}
Lists ==
  {[Base EXCEPT !.urls = urls, !.ids = ids, !.wanted = wanted] :
     urls \in UrlLists, ids \in UpTo(3, {"", "b", "db2"}), wanted \in {"", "b"}}

Item(id, url, iam, region) == [id |-> id, url |-> url, iam |-> iam, region |-> region]
FileItems ==
  {Item("a", "u1", FALSE, ""), Item("b", "u2", FALSE, ""), Item("b", "u2", TRUE, ""), Item("b", "u2", TRUE, "r"),
   Item("", "u2", FALSE, ""), Item("a b", "u2", FALSE, ""), Item("a", "", FALSE, ""), Item("a", Unreadable, FALSE, "")}
Files ==
  {[Base EXCEPT !.file = [is |-> "read", default |-> default, defaultDatabaseID |-> other, items |-> items],
                !.wanted = wanted] :
     default \in {"", "a"}, other \in {"", "b"}, wanted \in {"", "a"}, items \in UpTo(2, FileItems)}

NumberedUrls ==
  {[Base EXCEPT !.numbered = <<one, two, three>>, !.single = single] :
     one \in {Unset, [url |-> "u1", id |-> ""], [url |-> "u1", id |-> "a"]},
     two \in {Unset, [url |-> "u2", id |-> "a"], [url |-> Unreadable, id |-> ""]},
     three \in {Unset, [url |-> "u3", id |-> "b"]},
     single \in {"", "u9", Unreadable}}

Mixed ==
  {[Base EXCEPT !.file = file, !.urls = urls, !.numbered = <<one, Unset, Unset>>,
                !.iam = iam, !.region = region, !.valid = valid] :
     file \in {NoFile, [NoFile EXCEPT !.is = Unreadable], [NoFile EXCEPT !.is = "read"],
               [NoFile EXCEPT !.is = "read", !.items = <<Item("a", "u3", FALSE, "")>>]},
     urls \in {<<>>, <<"">>, <<"", "">>, <<"u1">>}, one \in {Unset, [url |-> "u2", id |-> "c"]},
     iam \in BOOLEAN, region \in {"", "r"}, valid \in BOOLEAN}

Authorizations ==
  {[Base EXCEPT !.wellKnown = one, !.alias = two, !.resource = resource, !.scopes = list, !.cloudflare = cloudflare,
                !.clients = "mcp"] :
     one \in {"", "good", "bad"}, two \in {"", "good", "other"}, resource \in {"", "good", "bad"},
     list \in UpTo(2, {"s", "t", "bad"}), cloudflare \in BOOLEAN}

MCEnvironments == Lists \cup Files \cup NumberedUrls \cup Mixed \cup Authorizations

Good ==
  [method |-> "POST", path |-> "/mcp", db |-> "", cloudflare |-> TRUE, host |-> "resource", origin |-> "same",
   token |-> "valid", granted |-> {"s", "t"}, body |-> <<"object">>, received |-> 9]

Bodies == UpTo(3, {"ws", "array", "object"}) \cup {<<"ws", "ws", "ws", "object">>}

MCRequests ==
  [databases |-> {[Good EXCEPT !.path = path, !.db = db] : path \in {"/mcp", "/api"}, db \in {"", "a", "b", "c"}},
   mcp |->
     {[Good EXCEPT !.method = method, !.path = path, !.cloudflare = cloudflare, !.origin = origin] :
        method \in {"GET", "POST", "OPTIONS", "PUT"}, path \in {"/mcp", "/", "/readyz", Metadata},
        cloudflare \in BOOLEAN, origin \in {"same", "other"}}
     \cup {[Good EXCEPT !.token = token, !.granted = granted, !.host = host] :
             token \in {"none", "invalid", "valid"}, granted \in SUBSET {"s", "t"},
             host \in {"resource", "loopback", "other"}}
     \cup {[Good EXCEPT !.body = bytes, !.received = received] : bytes \in Bodies, received \in {0, 1, 2, 9}}]
=============================================================================
