-------------------------- MODULE WebsiteInspection --------------------------
(***************************************************************************)
(* What an inspection makes of a website (canonical/website_enrichment.py): *)
(* which pages it reads, what counts as an element on them, the value the   *)
(* extractor of a signal gets (signal_collection/service.py), and whether   *)
(* the evidence carries it (signal_validation/service.py, pitch_scope.py).  *)
(* Values of boolean signals are "true", "false" and "none": looked for and *)
(* not found is told from not known.                                        *)
(*                                                                          *)
(* A text is the set of the Words it has of the lists of the code: "quote"  *)
(* stands for its neighbours ("estimate", ...) as well.                     *)
(***************************************************************************)
EXTENDS Integers, FiniteSets, Sequences, SequencesExt

CONSTANTS
    Url,           \* addresses
    Address,       \* Address[u]: root of its host, domain without www, words of its path
    Common,        \* Common[b]: the first COMMON_PATHS below a root
    Alphabetical,  \* the addresses in the order of their text
    Entry,         \* _protocol_candidates of the website_url, https first; empty without one
    MaxPages,      \* max_pages_per_business
    Content,       \* what the website may be like
    Site,          \* Site[c][u]: its answers to the first and to further requests
    Signal         \* key of the signal that is collected

Word == {"contact", "quote", "book", "about", "service", "other"}
Field == {"email", "phone", "message", "name", "date", "service", "address"}
Action == {"primary_cta", "click_to_call", "online_payment_or_financing", "service_area_pages"}
Failure == {"not_found", "blocked", "server_error", "http_error",
            "connection", "timeout", "unsupported", "other"}
Marker == {"booking", "form", "script"}

Form == [says : SUBSET (Word \cup {"excluded"}), fields : SUBSET Field]
Frame == [provider : {"booking", "form"}, says : SUBSET Word]
Document == [title : SUBSET Word, links : SUBSET Url, forms : SUBSET Form,
             frames : SUBSET Frame, actions : SUBSET Action, markers : SUBSET Marker,
             scripts : Nat, app : BOOLEAN, short : BOOLEAN, empty : BOOLEAN,
             viewport : BOOLEAN, parked : BOOLEAN]
NotRendered == "not rendered"

BooleanSignal == {"contact_form_present", "quote_or_booking_form_present",
                  "primary_cta_present", "click_to_call_present",
                  "online_payment_or_financing_present", "service_area_pages_present",
                  "mobile_viewport_present"}

ASSUME WebsiteAssumption ==
    /\ MaxPages \in Nat \ {0}
    /\ Signal \in BooleanSignal \cup {"website_status"}
    /\ Entry \in Seq(Url) /\ Alphabetical \in Seq(Url)
    /\ DOMAIN Site = Content

(***************************************************************************)
(* One page                                                                *)
(***************************************************************************)

\* _needs_browser_render.
NeedsRender(d) ==
    /\ ~d.empty
    /\ \/ d.markers # {}
       \/ d.app /\ d.scripts >= 1
       \/ d.short /\ d.scripts >= 3

\* What _fetch_page makes of an answer that is not a failure.
Page(answer) ==
    LET rendered == NeedsRender(answer.static) /\ answer.rendered # NotRendered
    IN  [url |-> answer.url,
         doc |-> IF rendered THEN answer.rendered ELSE answer.static,
         whole |-> rendered \/ ~NeedsRender(answer.static)]

\* The context of a form or a frame has the words of the page's path.
Context(page, element) == element.says \cup Address[page.url].words

Substantive(form) == "message" \in form.fields \/ Cardinality(form.fields) >= 3
Reachable(form) == form.fields \cap {"email", "phone"} # {}

QuoteForm(page, form) ==
    /\ "quote" \in Context(page, form)
    /\ Substantive(form) \/ (Reachable(form) /\ "name" \in form.fields)

BookingForm(page, form) ==
    /\ "book" \in Context(page, form)
    /\ \/ Substantive(form)
       \/ form.fields \cap {"date", "service"} # {}
       \/ Reachable(form) /\ "name" \in form.fields

ContactForm(page, form) ==
    /\ "contact" \in Context(page, form) /\ "excluded" \notin Context(page, form)
    /\ Reachable(form)
    /\ form.fields \cap {"message", "name"} # {}

\* The embedded forms of a page, of which a provider of bookings is told first.
Embeds(page, kind) ==
    \E frame \in page.doc.frames :
        CASE frame.provider = "booking" -> kind = "booking_form"
          [] "quote" \in Context(page, frame) -> kind = "quote_form"
          [] "contact" \in Context(page, frame) -> kind = "contact_form"
          [] OTHER -> FALSE

\* signal_evidence of a page (_classify_forms, _classify_action_elements).
Shows(page, kind) ==
    \/ Embeds(page, kind)
    \/ kind \in page.doc.actions
    \/ kind = "contact_form" /\ \E f \in page.doc.forms : ContactForm(page, f)
    \/ kind = "quote_form" /\ \E f \in page.doc.forms : QuoteForm(page, f)
    \/ kind = "booking_form" /\ \/ "booking" \in page.doc.markers
                                \/ \E f \in page.doc.forms : BookingForm(page, f)

\* _inspection_intents: the homepage is the root of the host of the website_url.
Intents(page) ==
    LET words == Address[page.url].words \cup page.doc.title
        root == Address[page.url].base
    IN  {i \in {"homepage", "contact", "quote_or_booking"} :
            CASE i = "homepage" -> page.url = root /\ root \in {Address[u].base : u \in ToSet(Entry)}
              [] i = "contact" -> "contact" \in words
              [] OTHER -> words \cap {"quote", "book"} # {}}

(***************************************************************************)
(* The crawl                                                               *)
(***************************************************************************)

\* A protocol is tried twice, unless the answer is a page or that there is none.
Check(c, u) ==
    IF Site[c][u][1].failure \in {"none", "not_found"} THEN Site[c][u][1] ELSE Site[c][u][2]

Checks(c) == [i \in DOMAIN Entry |-> Check(c, Entry[i])]
Loaded(c) == SelectSeq(Checks(c), LAMBDA check : check.failure = "none")

\* _link_priority.
LinkPriority(u) ==
    CASE "contact" \in Address[u].words -> 0
      [] Address[u].words \cap {"quote", "book"} # {} -> 1
      [] "about" \in Address[u].words -> 2
      [] "service" \in Address[u].words -> 3
      [] OTHER -> 4

\* _ranked_evidence_links: links of one domain that promise evidence.
RankedLinks(home) ==
    LET ranked(k) ==
            SelectSeq(Alphabetical, LAMBDA u :
                /\ u \in home.doc.links /\ Address[u].words # {}
                /\ Address[u].domain = Address[home.url].domain
                /\ LinkPriority(u) = k)
    IN  ranked(0) \o ranked(1) \o ranked(2) \o ranked(3) \o ranked(4)

\* _candidate_urls(homepage.url)[1:4].
Guesses(home) ==
    LET root == Address[home.url].base
    IN  SubSeq((IF home.url = root THEN <<>> ELSE <<root>>) \o Common[root], 1, 3)

\* One address of the queue: a page that fails counts as an attempt.
Visit(c, crawl, u) ==
    LET answer == Site[c][u][1]
    IN  IF \/ Len(crawl.pages) >= MaxPages
           \/ crawl.attempts >= MaxPages + 3
           \/ \E i \in DOMAIN crawl.pages : crawl.pages[i].url = u
        THEN crawl
        ELSE [pages |-> IF answer.failure = "none" THEN Append(crawl.pages, Page(answer))
                        ELSE crawl.pages,
              attempts |-> crawl.attempts + 1]

\* The queue of addresses behind the homepage, and what becomes of it.
Crawl(c, home) ==
    LET linked == RankedLinks(home)
        guessed == SelectSeq(Guesses(home), LAMBDA u : u \notin ToSet(linked))
    IN  FoldLeft(LAMBDA crawl, u : Visit(c, crawl, u),
                 [pages |-> <<home>>, attempts |-> 0], linked \o guessed).pages

\* inspect: the pages that were read, the homepage first; none if no protocol answers.
Inspected(c) == IF Loaded(c) = <<>> THEN <<>> ELSE Crawl(c, Page(Loaded(c)[1]))

(***************************************************************************)
(* The value and its evidence                                              *)
(***************************************************************************)

Whole(pages) == \A i \in DOMAIN pages : pages[i].whole
Shown(pages, kind) == \E i \in DOMAIN pages : Shows(pages[i], kind)

\* _known_boolean: what is not found on pages that are not whole is not known.
Known(found, whole) == IF found THEN "true" ELSE IF whole THEN "false" ELSE "none"

\* The kinds of elements a signal is about.
Sought ==
    CASE Signal = "contact_form_present" -> {"contact_form"}
      [] Signal = "quote_or_booking_form_present" -> {"quote_form", "booking_form"}
      [] Signal = "primary_cta_present" -> {"primary_cta"}
      [] Signal = "click_to_call_present" -> {"click_to_call"}
      [] Signal = "online_payment_or_financing_present" -> {"online_payment_or_financing"}
      [] Signal = "service_area_pages_present" -> {"service_area_pages"}
      [] OTHER -> {}

\* _combined_boolean of _aggregate_boolean (forms) or evidence_boolean (actions).
Combined(pages) ==
    LET values == {Known(Shown(pages, kind), Whole(pages)) : kind \in Sought}
    IN  IF "true" \in values THEN "true" ELSE IF "false" \in values THEN "false" ELSE "none"

\* _failed_availability.
Unavailable(c) ==
    LET failures == {Checks(c)[i].failure : i \in DOMAIN Entry}
    IN  "not_found" \in failures \/ failures = {"connection"}

\* _website_status of the availability that inspect has found.
Status(c, pages) ==
    CASE pages # <<>> /\ (\E i \in DOMAIN pages : pages[i].doc.parked) -> "parked"
      [] pages # <<>> /\ ~(\E i \in DOMAIN pages : pages[i].doc.parked) -> "present"
      [] pages = <<>> /\ Unavailable(c) -> "unavailable"
      [] OTHER -> "unknown"

\* extract_signal_value of the payload of a website.
Extracted(pages, c) ==
    CASE Signal = "website_status" -> Status(c, pages)
      [] Signal # "website_status" /\ pages = <<>> -> "none"
      [] Signal = "mobile_viewport_present" /\ pages # <<>> ->
             IF pages[1].doc.viewport THEN "true" ELSE "false"
      [] OTHER -> Combined(pages)

\* The signal has an entry in signal_evidence that is not empty.
Evidence(pages) ==
    IF Signal = "mobile_viewport_present" THEN pages[1].doc.viewport
    ELSE \E kind \in Sought : Shown(pages, kind)

\* A whole page of the intent was read.
Scoped(pages, intent) == \E i \in DOMAIN pages : intent \in Intents(pages[i]) /\ pages[i].whole

\* (mutant) A crawl without a gap is enough to say that something is missing.
MutPitchScope(pages) == Whole(pages)

\* pitch_scope_decision of a negative. Renderings for mobiles are not recorded.
PitchScope(pages) ==
    CASE Signal = "contact_form_present" -> Scoped(pages, "contact")
      [] Signal = "quote_or_booking_form_present" -> Scoped(pages, "quote_or_booking")
      [] Signal = "primary_cta_present" -> Scoped(pages, "homepage")
      [] Signal = "click_to_call_present" -> FALSE
      [] OTHER -> Whole(pages)

\* _website_evidence_check and _valid_value.
Evident(pages, value) ==
    IF Signal = "website_status" THEN value # "unknown"
    ELSE /\ pages # <<>>
         /\ value = "true" => Evidence(pages)
         /\ value = "false" => PitchScope(pages)

(***************************************************************************)
(* What a run uses of it: tables over the contents                         *)
(***************************************************************************)

\* The contents from which a value can be extracted.
Telling == {c \in Content : Extracted(Inspected(c), c) # "none"}
Value == [c \in Telling |-> Extracted(Inspected(c), c)]

\* Those whose value passes the checks.
Sound == {c \in Telling : Evident(Inspected(c), Value[c])}

\* What the payload of an observation tells of a website, which is what the recording of
\* observations compares.
Payload(c, pages) ==
    LET kinds == {"contact_form", "quote_form", "booking_form"} \cup Action
    IN  [checks |-> [i \in DOMAIN Entry |-> Checks(c)[i].failure],
         pages |-> [i \in DOMAIN pages |->
                      <<pages[i].url, pages[i].whole, Intents(pages[i]),
                        {kind \in kinds : Shows(pages[i], kind)}>>]]

ASSUME ContentAssumption ==
    \A c, d \in Content : Payload(c, Inspected(c)) = Payload(d, Inspected(d)) => c = d
=============================================================================
