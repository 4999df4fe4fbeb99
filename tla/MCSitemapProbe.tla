--------------------------- MODULE MCSitemapProbe ---------------------------
(* Instances of SitemapProbe for TLC: two pages with a link each, one of   *)
(* them to an entry of the sitemap.                                        *)
EXTENDS SitemapProbe

CONSTANTS p, q, a, b

OneLinkEach == [x \in {p, q} |-> IF x = p THEN {a} ELSE {a, b}]

Answering(h, g) == [head |-> h, get |-> g]

(* One server of each kind that is told apart.                             *)
KindsOfServer ==
    {Answering("ok", "ok"), Answering("4xx", "4xx"), Answering("odd", "odd"),
     Answering("405", "5xx"), Answering("none", "ok")}

(* Two that only differ in whether they like HEAD.                         *)
HostileServers == {Answering("ok", "ok"), Answering("5xx", "ok")}

At(n, f) == [named |-> n, fallback |-> f]

FourSites ==
    {At("urlset", "missing"), At("malformed", "index"), At("index", "urlset"),
     At("missing", "malformed")}

FourLocs == <<Invalid, a, b, a>>
=============================================================================
