---------------------------- MODULE MCCrawlSite ----------------------------
(***************************************************************************)
(* An instance of LinkDiscovery for TLC: four pages of one host, and links *)
(* to others.                                                              *)
(***************************************************************************)
EXTENDS LinkDiscovery

CONSTANTS TaggedRoot  \* whether the root is given with a tracking key

Url(port, path, query, fragment) ==
    [scheme |-> "https", host |-> "site", port |-> port, path |-> path,
     mark |-> query # <<>>, query |-> query, fragment |-> fragment]

Home == Url(443, "/", <<>>, "")
Shop == Url(443, "/shop", <<<<"page", 1>>, <<"sort", 2>>>>, "")
Blog == Url(443, "/blog", <<>>, "")
Admin == Url(8080, "/admin", <<>>, "")

TheRoot == IF TaggedRoot THEN [Home EXCEPT !.mark = TRUE, !.query = <<<<"ref", 1>>>>] ELSE Home

TheKeys == <<"page", "ref", "sort", "utm_source">>

ThePairs == Range(TheKeys) \X (1 .. 7)

Path(path, query, fragment) ==
    [kind |-> "path", path |-> path, mark |-> TRUE, query |-> query, fragment |-> fragment]

Absolute(url) == [kind |-> "url", url |-> url]

Mailto == [Home EXCEPT !.scheme = "mailto", !.host = NoHost]

(* The shop has moved to a host of its own.                                *)
SiteLanding(u) == IF u.path = "/shop" THEN [u EXCEPT !.host = "shop.site"] ELSE u

(* Four pages that link to each other under many spellings, and elsewhere. *)
SiteHrefs(u) ==
    CASE u.path = "/" ->
           <<Path("/shop", <<<<"sort", 2>>, <<"page", 1>>>>, "top"), Path("/blog", <<>>, ""),
             Path("/shop", <<<<"utm_source", 7>>, <<"page", 1>>, <<"sort", 2>>>>, ""),
             Absolute(Mailto), [kind |-> "broken"]>>
      [] u.path = "/shop" ->
           <<Path("/", <<<<"ref", 3>>>>, ""), Path("/blog", <<<<"ref", 1>>>>, "news"),
             Absolute(Admin), [kind |-> "fragment", fragment |-> "foot"]>>
      [] u.path = "/blog" ->
           <<Absolute([Shop EXCEPT !.fragment = "x"]), Absolute([Admin EXCEPT !.mark = TRUE]),
             Absolute([Home EXCEPT !.host = "elsewhere"])>>
      [] u.path = "/admin" -> <<Absolute(Home)>>

Reach(urls) == urls \cup UNION {discover_links(u, SiteHrefs(u)) : u \in urls}

(* The four pages and every spelling of them that a link leads to.         *)
SiteUrls == Reach(Reach({Home, Shop, Blog, Admin, TheRoot}))

SiteLinks == [u \in SiteUrls |-> discover_links(u, SiteHrefs(u))]

TheAdmin == {Admin}

TheShop == {Shop}
=============================================================================
