---------------------------- MODULE PageIssues ----------------------------
(***************************************************************************)
(* The page-local detectors (internal/issues/pagelocal.go): the set of      *)
(* issue types one analysed page gets.                                      *)
(*                                                                          *)
(* A context is a record: page, what the HTML parser extracted; status,     *)
(* hops, ttfb, kilobytes, headers and policy, what the fetch returned (loop *)
(* and exceeded are its redirect verdicts, headers is empty with hasHeaders *)
(* FALSE when there are none); url, the final URL; edges, the page's edges; *)
(* depth.  Of a page, n counts what the detectors only count (a function    *)
(* from names to numbers), has holds the marks they only test, and texts    *)
(* are names: LongTexts, LongUrls, UpperCase, ... hold the ones a threshold *)
(* on characters singles out.                                               *)
(***************************************************************************)
EXTENDS Urls

CONSTANTS
  TitleMax, TitleMin, DescriptionMax, DescriptionMin,   \* lengths
  ThinContent, DeepPage,                                \* words, clicks
  LongTexts,          \* headings of more than 70 characters
  GenericAnchors,     \* nonDescriptiveAnchors
  Languages, Regions, \* ISO 639-1 codes, two-letter region codes
  LongUrls,           \* URLs of more than 115 characters
  SpacedUrls, UpperCaseUrls, UnderscoreUrls

ASSUME ThresholdsAreNumbers ==
  {TitleMax, TitleMin, DescriptionMax, DescriptionMin, ThinContent, DeepPage} \subseteq Int

ValidCards == {"summary", "summary_large_image", "app", "player"}

SecurePolicies ==
  {"no-referrer", "no-referrer-when-downgrade", "strict-origin",
   "strict-origin-when-cross-origin", "same-origin", "origin",
   "origin-when-cross-origin"}

(* The issue types whose detector fires. *)
Found(detectors) == {type \in DOMAIN detectors : detectors[type]}

FetchIssues(c) == Found(
  [status_4xx |-> c.status \in 400..499,
   status_5xx |-> c.status \in 500..599,
   redirect_chain |-> c.hops > 1,
   redirect_loop |-> c.loop,
   redirect_hops_exceeded |-> c.exceeded])

TextIssues(c) == LET n == c.page.n IN Found(
  [missing_title |-> c.page.title = None,
   title_too_long |-> n.title > TitleMax,
   title_too_short |-> n.title \in 1..(TitleMin - 1),
   missing_description |-> c.page.description = None,
   description_too_long |-> n.description > DescriptionMax,
   description_too_short |-> n.description \in 1..(DescriptionMin - 1),
   missing_canonical |-> c.page.canonical = {},
   missing_favicon |-> ~\E a \in c.page.assets : a.type = "icon",
   missing_h1 |-> c.page.h1 = << >>,
   multiple_h1 |-> Len(c.page.h1) > 1])

SocialIssues(c) ==
  LET og == c.page.og  tw == c.page.twitter  n == c.page.n IN Found(
  [missing_og_title |-> og.title = None,
   og_title_too_long |-> n.ogTitle > 90,
   missing_og_description |-> og.description = None,
   og_description_too_long |-> n.ogDescription > 200,
   missing_og_image |-> og.image = None,
   missing_og_url |-> og.url = {},
   og_url_canonical_mismatch |->
     og.url # {} /\ c.page.canonical # {} /\ og.url # c.page.canonical,
   missing_og_type |-> og.type = None,
   missing_twitter_card |-> tw.card = None,
   invalid_twitter_card_type |-> tw.card \notin ValidCards \cup {None},
   missing_twitter_title |-> tw.title = None /\ og.title = None,
   missing_twitter_image |-> tw.image = None /\ og.image = None])

Thin(page) == page.words < ThinContent

(* jsonld: one record of missing property counts per validated block. *)
ContentIssues(c) == LET n == c.page.n IN Found(
  [missing_structured_data |-> n.jsonld = 0,
   malformed_structured_data |-> "malformedJSONLD" \in c.page.has,
   invalid_structured_data |-> \E b \in c.page.jsonld : b.required > 0,
   incomplete_structured_data |->
     \E b \in c.page.jsonld : b.recommended > 0 /\ ~b.nested,
   thin_content |-> Thin(c.page),
   missing_alt_attribute |-> n.noAlt > 0,
   empty_alt_attribute |-> n.emptyAlt > 0,
   very_slow_response |-> c.ttfb > 10000,
   slow_response |-> c.ttfb > 3000,
   deep_page |-> c.depth > DeepPage,
   robots_meta_header_mismatch |->
     /\ c.page.metaRobots # {} /\ c.page.xRobots # {}
     /\ c.page.metaRobots # c.page.xRobots,
   js_suspect_not_rendered |-> c.page.suspect,
   title_outside_head |-> "titleOutsideHead" \in c.page.has,
   meta_robots_outside_head |-> "metaRobotsOutsideHead" \in c.page.has])

HeadingIssues(c) ==
  LET p == c.page  n == c.page.n IN Found(
  [title_same_as_h1 |-> p.title # None /\ p.h1 # << >> /\ p.title = Head(p.h1),
   multiple_title_tags |-> n.titles > 1,
   multiple_meta_descriptions |-> n.descriptions > 1,
   meta_description_outside_head |-> "descriptionOutsideHead" \in p.has,
   h1_too_long |-> \E i \in DOMAIN p.h1 : p.h1[i] \in LongTexts,
   h1_non_sequential |-> n.firstHeading > 1,
   h1_alt_text_only |-> n.h1AltOnly > 0,
   missing_h2 |-> p.h2 = << >>,
   h2_non_sequential |-> p.h2 # << >> /\ (p.h1 = << >> \/ n.firstHeading > 1),
   h2_too_long |-> \E i \in DOMAIN p.h2 : p.h2[i] \in LongTexts,
   multiple_canonicals |-> n.canonicals > 1,
   canonical_is_relative |-> "relativeCanonical" \in p.has,
   canonical_outside_head |-> "canonicalOutsideHead" \in p.has,
   alt_text_too_long |-> n.longAlts > 0,
   missing_image_size_attributes |-> n.unsizedImages > 0])

(* The link counts the engine derives from the page's link edges. *)
LinkIssues(c) ==
  LET links == {e \in c.edges : e.relation = "link"} IN Found(
  [non_descriptive_anchor_text |->
     \E e \in links : e.internal /\ e.anchor \in GenericAnchors,
   internal_nofollow_outlink |-> \E e \in links : e.internal /\ "nofollow" \in e.rel,
   unsafe_cross_origin_links |->
     \E e \in links : /\ ~e.internal /\ e.blank
                      /\ e.rel \cap {"noopener", "noreferrer"} = {}])

DetectURLIssues(u) == Found(
  [url_uppercase |-> u \in UpperCaseUrls,
   url_underscores |-> u \in UnderscoreUrls,
   url_contains_space |-> u \in SpacedUrls,
   url_has_parameters |-> u.query # << >>,
   url_too_long |-> u \in LongUrls,
   url_multiple_slashes |->
     \E i \in DOMAIN u.path : u.path[i] = "" /\ i < Len(u.path),
   url_repetitive_path |->
     \E i \in 2..Len(u.path) : u.path[i] # "" /\ u.path[i] = u.path[i - 1]])

SecurityIssues(c) ==
  LET lacks(h) == c.hasHeaders /\ h \notin c.headers IN Found(
  [missing_hsts_header |->
     c.url.scheme = "https" /\ lacks("Strict-Transport-Security"),
   missing_x_content_type_options |-> lacks("X-Content-Type-Options"),
   missing_x_frame_options |-> lacks("X-Frame-Options"),
   missing_content_security_policy |-> lacks("Content-Security-Policy"),
   missing_referrer_policy |-> c.hasHeaders /\ c.policy \notin SecurePolicies,
   form_on_http |-> c.page.n.httpForms > 0,
   protocol_relative_urls |-> c.page.n.protocolRelative > 0])

IsValidHreflangCode(lang) ==
  /\ Head(lang) \in Languages
  /\ \/ Len(lang) = 1
     \/ Len(lang) = 2 /\ lang[2] \in Regions

HreflangIssues(c) ==
  LET entries == c.page.hreflangs
      xDefault == <<"x", "default">>
  IN Found(
  [hreflang_missing_self |->
     entries # {} /\ ~\E h \in entries : SlashTrimmed(h.url) = SlashTrimmed(c.url),
   hreflang_missing_x_default |->
     entries # {} /\ ~\E h \in entries : h.lang = xDefault,
   hreflang_invalid_language_code |->
     \E h \in entries : h.lang # xDefault /\ ~IsValidHreflangCode(h.lang),
   hreflang_outside_head |-> "hreflangOutsideHead" \in c.page.has])

HtmlIssues(c) == LET n == c.page.n IN Found(
  [invalid_html_in_head |-> n.invalidInHead > 0,
   multiple_head_tags |-> n.heads > 1,
   multiple_body_tags |-> n.bodies > 1,
   html_too_large |-> c.kilobytes > 15 * 1024,
   lorem_ipsum_detected |-> "loremIpsum" \in c.page.has,
   soft_404 |-> c.status = 200 /\ c.page.words < 100 /\ "notFoundText" \in c.page.has])

(* DetectPageLocalIssues: every detector runs, none looks at another. *)
DetectPageLocalIssues(c) ==
  FetchIssues(c) \cup TextIssues(c) \cup SocialIssues(c) \cup ContentIssues(c)
    \cup HeadingIssues(c) \cup LinkIssues(c) \cup DetectURLIssues(c.url)
    \cup SecurityIssues(c) \cup HreflangIssues(c) \cup HtmlIssues(c)

(* The issues that are about the fetch and not the page: kept for a page    *)
(* that was already stored (isDuplicatePageFetchIssue).                     *)
FetchOnlyIssues ==
  {"redirect_chain", "redirect_loop", "redirect_hops_exceeded", "rate_limited"}
=============================================================================
