---------------------------- MODULE MCSinglePage ----------------------------
(* Instances of SinglePage for TLC: three URLs of two hosts and one        *)
(* without, and findings of several categories.                            *)
EXTENDS SinglePage

CONSTANTS u1, u2, u3, mailto, A, B

HostOfUrl == [u \in {u1, u2, u3} |-> IF u = u3 THEN B ELSE A]

Config(server, respect, quiet, output) ==
    [server |-> server, respect_robots |-> respect, quiet |-> quiet, output |-> output]

(* The server, and the command line with each way to write.                *)
ServerAndFlags ==
    {Config(TRUE, TRUE, FALSE, FALSE), Config(FALSE, FALSE, FALSE, FALSE),
     Config(FALSE, TRUE, FALSE, TRUE), Config(FALSE, TRUE, TRUE, FALSE),
     Config(FALSE, FALSE, TRUE, TRUE)}

FoundOnPage ==
    {<<>>, <<finding("title.missing", "Metadata", 30), finding("images.missing_alt", "Media", 5)>>}

FoundOnSite ==
    [robots |-> {<<>>, <<finding("robots.disallow-all", "Crawlability", 40)>>},
     sitemap |-> {<<>>, <<finding("sitemap.missing", "Crawlability", 5)>>},
     links |-> {<<>>, <<finding("links.broken-5xx", "Links", 20)>>}]
=============================================================================
