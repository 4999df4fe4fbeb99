---------------------------- MODULE MCReportDiff ----------------------------
(***************************************************************************)
(* Sites of one page with up to two deviations from a page nothing is      *)
(* wrong with, each repaired in every way; and sites of up to two pages    *)
(* out of a few, each turned into every other.                             *)
(***************************************************************************)
EXTENDS ReportDiff

Node(context, types, fields) ==
    [context |-> context, typed |-> types # <<>>, types |-> types, fields |-> fields]

Block(nodes) == [parsed |-> TRUE, nodes |-> nodes]

Malformed == [parsed |-> FALSE, nodes |-> <<>>]

Well == Block(<<Node(TRUE, <<"Article">>, {"headline", "author", "datePublished"})>>)

Clean ==
    [title |-> "fits", description |-> "fits", canonicals |-> <<"self">>,
     https |-> TRUE, plain |-> 0, headings |-> <<1, 1, 0, 0, 0, 0>>, blank |-> 0,
     noAlt |-> 0, emptyAlt |-> 0, social |-> {"title", "description", "image", "url", "card"},
     chain |-> 0, html |-> TRUE, thin |-> FALSE, tags |-> 1, jsonld |-> <<Well>>,
     others |-> <<>>]

(* What may be wrong with each part of a page.                             *)
Wrong ==
    [title |-> {"missing", "empty", "short", "long"},
     description |-> {"missing", "empty", "short", "long"},
     canonicals |-> {<<>>, <<"selfHttp">>, <<"relative">>, <<"sibling">>, <<"redirected">>,
                     <<"away">>, <<"awayChain">>, <<"broken">>, <<"none">>,
                     <<"none", "redirected">>, <<"self", "self">>},
     https |-> {FALSE},
     plain |-> {1, 3, 6},
     headings |-> {<<0, 1, 0, 0, 0, 0>>, <<3, 0, 0, 0, 0, 0>>, <<1, 0, 1, 0, 0, 1>>,
                   <<0, 0, 0, 0, 0, 0>>},
     blank |-> {1},
     noAlt |-> {1, 3, 21},
     emptyAlt |-> {1, 4},
     social |-> {{}, {"title", "card"}, {"title", "description", "image", "url"}},
     chain |-> {3, 4, 6},
     thin |-> {TRUE},
     tags |-> {0},
     jsonld |-> {<<>>, <<Malformed>>, <<Well, Block(<<Node(FALSE, <<>>, {})>>)>>,
                 <<Block(<<Node(TRUE, <<"Article", "Product">>, {"author"}),
                           Node(FALSE, <<"Thing">>, {})>>)>>},
     others |-> {<<finding("sitemap.missing", "Crawlability", 5)>>,
                 <<finding("links.broken-4xx", "Links", 10), finding("robots.disallow-all", "Crawlability", 40)>>}]

Parts == DOMAIN Wrong

Set(p, part, value) == [p EXCEPT ![part] = value]

Deviants(pages, parts) ==
    UNION {{Set(p, part, value) : value \in Wrong[part]} : <<p, part>> \in pages \X parts}

(* Three small faults at once bring a score to half a point.               *)
Slight == {"description", "social", "emptyAlt"}

OnePage == Deviants(Deviants({Clean}, Parts), Parts) \cup {Clean}
           \cup Deviants(Deviants(Deviants({Clean}, Slight), Slight), Slight)

Site(p) == (1 :> p)

-----------------------------------------------------------------------------
(* A page without any text, and some pages that differ in many ways.       *)
Bare ==
    [Clean EXCEPT !.title = "missing", !.description = "missing", !.canonicals = <<>>,
                  !.headings = <<0, 0, 0, 0, 0, 0>>, !.social = {}, !.html = FALSE,
                  !.tags = 0, !.jsonld = <<>>]

Few ==
    {Clean, Bare, [Clean EXCEPT !.https = FALSE, !.noAlt = 3],
     [Clean EXCEPT !.title = "long", !.plain = 6],
     [Clean EXCEPT !.description = "short", !.chain = 6, !.emptyAlt = 1]}

FewSites == UNION {[urls -> Few] : urls \in SUBSET {1, 2}}

MCSites == {Site(p) : p \in OnePage} \cup FewSites

-----------------------------------------------------------------------------
(* Every repair of one part, and the move to https whatever it loads.      *)
Repairs(p) ==
    {q \in UNION {{Set(p, part, w) : w \in Wrong[part] \cup {Clean[part]}} : part \in Parts} :
       q \in OnePage /\ Repaired(p, q)}
    \cup {Set(p, "https", TRUE)}

MCEdits(s) ==
    (IF s \in FewSites THEN FewSites ELSE {s})
    \cup (IF DOMAIN s = {1} /\ s[1] \in OnePage THEN {Site(q) : q \in Repairs(s[1])} ELSE {})

(* HTTPS is what "insecure" asks for: a page that moves to it and stays as *)
(* it is otherwise should not be shown as worse.                           *)
HttpsShows ==
    stage = "shown" /\ DOMAIN first = {1} /\ site = Site(Set(first[1], "https", TRUE)) =>
        shown.summary.regressions = 0
=============================================================================
