----------------------------- MODULE PageAudits -----------------------------
(***************************************************************************)
(* The page auditors of src/audit: what each finds on one page, by what    *)
(* src/parser/dom.rs reads from it.  A page is a record:                   *)
(*   title, description  "missing", "empty", "short", "long" or "fits",    *)
(*                trimmed and by the limits 30 to 60 and 50 to 160         *)
(*   canonicals   the link elements, each a kind of href (see Href)        *)
(*   https        whether the page came over https                         *)
(*   plain        how many of its resources are http:// (canonicals apart) *)
(*   headings     how many it has of each level, and blank: how many of    *)
(*                them are empty                                           *)
(*   noAlt, emptyAlt  images without alt or with an empty one, data: URIs  *)
(*                apart                                                    *)
(*   social       the og: properties and "card" it has, not empty          *)
(*   chain        the length of its redirect chain                         *)
(*   html, thin, tags  whether there is any; whether visible text is too   *)
(*                small a part of it; content tags that are no headings    *)
(*   jsonld       the JSON-LD blocks                                       *)
(***************************************************************************)
EXTENDS Scores, FiniteSets

CONSTANT MinContentTags  \* 3, or JS_RENDERED_MIN_CONTENT_TAGS of the environment

ASSUME ThresholdAssumption == MinContentTags \in Nat

When(condition, f) == IF condition THEN <<f>> ELSE <<>>

Times(n, f) == [i \in 1..n |-> f]

-----------------------------------------------------------------------------
(* MetadataAuditor: a verdict costs what the table says.                   *)
LengthFindings(check, verdict, penalties) ==
    IF verdict = "fits" THEN <<>>
    ELSE <<finding(<<check, verdict>>, "Metadata", penalties[verdict])>>

audit_title(p) ==
    LengthFindings("title", p.title,
                   [missing |-> 30, empty |-> 30, short |-> 15, long |-> 10])

(* Mutant: an empty description is the lightest fault.                     *)
MutAuditDescription(p) ==
    LengthFindings("description", p.description,
                   [missing |-> 20, empty |-> 4, short |-> 10, long |-> 5])

audit_description(p) ==
    LengthFindings("description", p.description,
                   [missing |-> 20, empty |-> 20, short |-> 10, long |-> 5])

(* What the auditors see of a canonical link: whether it has an href, is a *)
(* URL by itself, can be resolved against the page, leads to the page's    *)
(* host, to its path, query and fragment, to a URL of its redirect chain,  *)
(* and begins with http://.  The chain of a page never has its own URL.    *)
Kind(href, absolute, resolves, host, own, chain, http) ==
    [href |-> href, absolute |-> absolute, resolves |-> resolves,
     host |-> host, own |-> own, chain |-> chain, http |-> http]

Href ==
    [none       |-> Kind(FALSE, FALSE, FALSE, FALSE, FALSE, FALSE, FALSE),
     self       |-> Kind(TRUE, TRUE, TRUE, TRUE, TRUE, FALSE, FALSE),
     selfHttp   |-> Kind(TRUE, TRUE, TRUE, TRUE, TRUE, FALSE, TRUE),
     relative   |-> Kind(TRUE, FALSE, TRUE, TRUE, TRUE, FALSE, FALSE),
     sibling    |-> Kind(TRUE, TRUE, TRUE, TRUE, FALSE, FALSE, FALSE),
     redirected |-> Kind(TRUE, TRUE, TRUE, TRUE, FALSE, TRUE, FALSE),
     away       |-> Kind(TRUE, TRUE, TRUE, FALSE, FALSE, FALSE, FALSE),
     awayChain  |-> Kind(TRUE, TRUE, TRUE, FALSE, FALSE, TRUE, FALSE),
     broken     |-> Kind(TRUE, FALSE, FALSE, FALSE, FALSE, FALSE, FALSE)]

(* Dom::canonical reads the first link only, Dom::canonicals those with an *)
(* href.                                                                   *)
canonical(p) == IF p.canonicals = <<>> THEN Href.none ELSE Href[p.canonicals[1]]

canonicals(p) ==
    FlattenSeq([i \in DOMAIN p.canonicals |->
                  When(Href[p.canonicals[i]].href, Href[p.canonicals[i]])])

audit_canonical(p) ==
    LET c == canonical(p)
    IN  When(~c.href, finding(<<"canonical", "missing">>, "Metadata", 10))
        \o When(c.href /\ ~c.absolute, finding(<<"canonical", "invalid">>, "Metadata", 10))
        \o When(c.absolute /\ ~c.host, finding(<<"canonical", "off-host">>, "Metadata", 15))

MetadataAuditor(p) == audit_title(p) \o audit_description(p) \o audit_canonical(p)

(* CanonicalAuditor works on the first href, and goes no further when that *)
(* cannot be resolved or leads back into the chain.                        *)
CanonicalAuditor(p) ==
    LET hrefs == canonicals(p)
    IN  IF hrefs = <<>> THEN <<>>
        ELSE When(Len(hrefs) > 1, finding(<<"canonical", "multiple">>, "Metadata", 10))
             \o When(hrefs[1].resolves /\ hrefs[1].chain,
                     finding(<<"canonical", "redirect-mismatch">>, "Metadata", 15))
             \o When(hrefs[1].resolves /\ ~hrefs[1].chain /\ hrefs[1].host /\ ~hrefs[1].own,
                     finding(<<"canonical", "not-self-referential">>, "Metadata", 5))

-----------------------------------------------------------------------------
(* HeadingsAuditor sees which levels there are, not the order in which     *)
(* they come.                                                              *)
Levels(p) == {l \in 1..6 : p.headings[l] > 0}

Skips(p) ==
    {s \in Levels(p) \X Levels(p) :
       s[2] > s[1] + 1 /\ \A l \in Levels(p) : l <= s[1] \/ l >= s[2]}

HeadingsAuditor(p) ==
    When(p.headings[1] = 0, finding(<<"headings", "no-h1">>, "Structure", 40))
    \o When(p.headings[1] > 1, finding(<<"headings", "multiple-h1">>, "Structure", 20))
    \o Times(p.blank, finding(<<"headings", "empty">>, "Structure", 10))
    \o Times(Cardinality(Skips(p)), finding(<<"headings", "skipped-level">>, "Structure", 10))

(* Dom::resource_urls takes every link[href], the canonical ones too.      *)
HttpResources(p) ==
    p.plain + Cardinality({i \in DOMAIN p.canonicals : Href[p.canonicals[i]].http})

HttpsAuditor(p) ==
    IF p.https
    THEN Times(HttpResources(p), finding(<<"https", "mixed-content">>, "Security", 20))
    ELSE <<finding(<<"https", "insecure">>, "Security", 40)>>

SocialTags == <<"title", "description", "image", "url", "card">>

(* Mutant: a page without any of them is told once.                        *)
MutOpengraphAuditor(p) ==
    FlattenSeq([i \in DOMAIN SocialTags |->
       When(SocialTags[i] \notin p.social /\ (p.social = {} => i = 1),
            finding(<<"og", SocialTags[i]>>, "SocialTags", 10))])

OpengraphAuditor(p) ==
    FlattenSeq([i \in DOMAIN SocialTags |->
       When(SocialTags[i] \notin p.social, finding(<<"og", SocialTags[i]>>, "SocialTags", 10))])

ImagesAuditor(p) ==
    Times(p.noAlt, finding(<<"images", "missing-alt">>, "Media", 5))
    \o Times(p.emptyAlt, finding(<<"images", "empty-alt">>, "Media", 2))

RedirectsAuditor(p) ==
    When(p.chain > 5, finding(<<"redirects", "chain-excessive">>, "Links", 30))
    \o When(p.chain > 3 /\ p.chain <= 5, finding(<<"redirects", "chain-long">>, "Links", 15))

(* Dom::content_tag_count counts the headings among the content tags.      *)
content_tag_count(p) ==
    p.tags + Total([l \in 1..6 |-> p.headings[l]])

JsRenderedAuditor(p) ==
    When(p.html /\ p.thin /\ content_tag_count(p) < MinContentTags,
         finding(<<"js-rendered", "likely">>, "Structure", 10))

-----------------------------------------------------------------------------
(* StructuredDataAuditor.  A block is JSON or not (parsed), and the walk   *)
(* through arrays and @graph, which keeps no memory of where it came from, *)
(* finds its nodes.  A node has a @context or not, a @type or not, the     *)
(* types that names, and the fields that are there and no empty arrays.    *)
ArticleFields == <<"headline", "author", "datePublished">>

Required ==
    [Article |-> ArticleFields, BlogPosting |-> ArticleFields, NewsArticle |-> ArticleFields,
     Product |-> <<"name">>,
     BreadcrumbList |-> <<"itemListElement">>,
     FAQPage |-> <<"mainEntity">>]

check_required_fields(node, type) ==
    IF type \notin DOMAIN Required THEN <<>>
    ELSE FlattenSeq([i \in DOMAIN Required[type] |->
            When(Required[type][i] \notin node.fields,
                 finding(<<"structured", "missing-field">>, "Metadata", 10))])

validate_object(node) ==
    When(~node.context, finding(<<"structured", "missing-context">>, "Metadata", 5))
    \o When(~node.typed, finding(<<"structured", "missing-type">>, "Metadata", 10))
    \o (IF ~node.typed THEN <<>>
        ELSE FlattenSeq([i \in DOMAIN node.types |-> check_required_fields(node, node.types[i])]))

validate_node(block) ==
    FlattenSeq([i \in DOMAIN block.nodes |-> validate_object(block.nodes[i])])

StructuredDataAuditor(p) ==
    FlattenSeq([i \in DOMAIN p.jsonld |->
       IF p.jsonld[i].parsed THEN validate_node(p.jsonld[i])
       ELSE <<finding(<<"structured", "malformed">>, "Metadata", 10)>>])

(* page_auditors, in the order of the list.                                *)
page_auditors(p) ==
    MetadataAuditor(p) \o CanonicalAuditor(p) \o HeadingsAuditor(p) \o HttpsAuditor(p)
    \o OpengraphAuditor(p) \o ImagesAuditor(p) \o RedirectsAuditor(p)
    \o JsRenderedAuditor(p) \o StructuredDataAuditor(p)
=============================================================================
