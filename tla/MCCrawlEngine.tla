--------------------------- MODULE MCCrawlEngine ---------------------------
(* Instances of CrawlEngine for TLC: the sites its workers crawl.          *)
EXTENDS CrawlEngine, TLC

CONSTANTS a, b, c, d    \* URLs

(* Two pages that link to each other, to the root and to one grandchild.   *)
Diamond == (a :> {b, c}) @@ (b :> {a, c, d}) @@ (c :> {b, d}) @@ (d :> {a})

(* A page that links back to the root beside one that links on.            *)
BackLink == (a :> {b, c}) @@ (b :> {a}) @@ (c :> {d}) @@ (d :> {})

=============================================================================
