--------------------------- MODULE LinkDiscovery ---------------------------
(***************************************************************************)
(* src/parser/links.rs and partition of src/audit/links.rs: which links of *)
(* a page the crawl follows, and which the link auditor probes; and the    *)
(* crawl of CrawlEngine over a site that is given by the links of its      *)
(* pages as they are written.                                              *)
(*                                                                         *)
(* A URL has a scheme, a host (NoHost for mailto: and the like), a port, a *)
(* path, whether a "?" is written, the pairs of its query and a fragment   *)
(* ("" for none).  A pair stands for all its percent-encodings: the query  *)
(* is decoded and encoded anew.                                            *)
(***************************************************************************)
EXTENDS CrawlEngine, SequencesExt

CONSTANTS Keys,      \* the keys of queries, in the order of their strings
          Tracking,  \* those is_tracking_key knows
          Pairs,     \* the pairs of a key and a value
          NoHost,
          Hrefs(_),  \* the hrefs of the page a URL leads to, as dom.links() lists them
          Landing(_) \* the URL that page is at, after the redirects: page_data.url

is_tracking_key(key) == key \in Tracking

(* Url::join: an href is a URL of its own, or a path, query and fragment,  *)
(* or a fragment only, or cannot be resolved.                              *)
join(base, href) ==
    CASE href.kind = "url" -> href.url
      [] href.kind = "path" -> [base EXCEPT !.path = href.path, !.mark = href.mark,
                                            !.query = href.query, !.fragment = href.fragment]
      [] href.kind = "fragment" -> [base EXCEPT !.fragment = href.fragment]

Resolves(href) == href.kind # "broken"

(* The pairs with one of these keys, in their order.                       *)
Only(query, keysKept) ==
    FlattenSeq([i \in DOMAIN query |->
                  IF query[i][1] \in keysKept THEN <<query[i]>> ELSE <<>>])

(* Stable: pairs of one key stay in their order.                           *)
SortedByKey(query) == FlattenSeq([i \in DOMAIN Keys |-> Only(query, {Keys[i]})])

Untracked == {key \in Range(Keys) : ~is_tracking_key(key)}

(* Mutant: the query is left in the order it came.                         *)
MutNormalized(u) ==
    LET kept == Only(u.query, Untracked)
    IN  [u EXCEPT !.fragment = "", !.query = kept, !.mark = kept # <<>>]

Normalized(u) ==
    LET kept == Only(u.query, Untracked)
    IN  [u EXCEPT !.fragment = "", !.query = SortedByKey(kept), !.mark = kept # <<>>]

(* normalize, of the hrefs for which it is not None.                       *)
Followable(base, href) == Resolves(href) /\ join(base, href).scheme \in {"http", "https"}

normalize(base, href) == Normalized(join(base, href))

(* The host alone decides, not the port and not the scheme.                *)
is_same_site(u, v) == u.host # NoHost /\ u.host = v.host

discover_links(base, hrefs) ==
    {u \in {normalize(base, h) : h \in {g \in Range(hrefs) : Followable(base, g)}} :
       is_same_site(base, u)}

(* The auditor's own split, which passes over the links into the page.     *)
(* Mutant: it takes the pages of other sites for its own.                  *)
MutInternal(base, hrefs) ==
    {normalize(base, h) : h \in {g \in Range(hrefs) : Followable(base, g)}}

Internal(base, hrefs) ==
    {u \in {normalize(base, h) :
              h \in {g \in Range(hrefs) : g.kind # "fragment" /\ Followable(base, g)}} :
       u.host # NoHost /\ u.host = base.host}

-----------------------------------------------------------------------------
(***************************************************************************)
(* The crawl of such a site.                                               *)
(***************************************************************************)

(* What Url::parse and Url::join return.                                   *)
IsUrl(u) ==
    /\ u = [scheme |-> u.scheme, host |-> u.host, port |-> u.port, path |-> u.path,
            mark |-> u.mark, query |-> u.query, fragment |-> u.fragment]
    /\ u.query \in Seq(Pairs)

ASSUME SiteAssumption ==
    /\ Keys \in Seq(Range(Keys))
    /\ \A i, j \in DOMAIN Keys : Keys[i] = Keys[j] => i = j
    /\ \A pair \in Pairs : pair[1] \in Range(Keys)
    /\ \A u \in Urls : IsUrl(u)
    /\ \A u \in Urls : \A h \in Range(Hrefs(u)) : Resolves(h) => IsUrl(join(u, h))
    /\ \A u \in Urls : IsUrl(Landing(u))
    /\ Links = [u \in Urls |-> discover_links(u, Hrefs(u))]

(* Two URLs that differ in the order of their keys, in their fragments or  *)
(* in what tracks the visitor are one page.                                *)
SamePage(u, v) ==
    /\ u.scheme = v.scheme /\ u.host = v.host /\ u.port = v.port /\ u.path = v.path
    /\ \A key \in Untracked : Only(u.query, {key}) = Only(v.query, {key})

(* Every page of the site is crawled under one spelling, however many the  *)
(* links to it have, and nothing off the site's host is crawled.           *)
SpellingsMerged ==
    /\ \A u, v \in seen : SamePage(u, v) => u = v
    /\ \A u \in seen : u.host = Root.host /\ u.scheme \in {"http", "https"}

(* The links the auditor probes as internal on a reported page.  Its base  *)
(* is where the redirects ended, that of the crawl is the URL in the queue. *)
Probed(report) == Internal(Landing(report.url), Hrefs(report.url))

(* Whatever the link auditor calls internal on a page above the depth      *)
(* limit that was not redirected, and probes, is crawled as well.          *)
InternalIsCrawled ==
    AllExited /\ faults = 0 /\ ~Capped =>
       \A i \in DOMAIN channel :
          channel[i].depth < MaxDepth /\ Landing(channel[i].url) = channel[i].url =>
             Probed(channel[i]) \subseteq seen

(* The same of every page: what is internal for the auditor is internal    *)
(* for the crawl.                                                          *)
InternalAlwaysCrawled ==
    AllExited /\ faults = 0 /\ ~Capped =>
       \A i \in DOMAIN channel :
          channel[i].depth < MaxDepth => Probed(channel[i]) \subseteq seen
=============================================================================
