--------------------------- MODULE MCFactPublication ---------------------------
EXTENDS FactPublication

CONSTANTS c0, c1, c2

MCUrl == {"https:/", "http:/", "/contact", "/quote", "/estimate", "/prices"}

\* The links of the homepage and the guesses below its root are the same pages.
MCAddress ==
    [u \in MCUrl |->
        [base |-> IF u = "http:/" THEN u ELSE "https:/",
         domain |-> "site",
         words |-> CASE u = "/contact" -> {"contact"}
                     [] u \in {"/quote", "/estimate"} -> {"quote"}
                     [] u = "/prices" -> {"other"}
                     [] OTHER -> {}]]
MCCommon == [b \in {"https:/", "http:/"} |-> <<"/contact", "/quote", "/estimate">>]
MCAlphabetical == <<"/contact", "/estimate", "/prices", "/quote", "http:/", "https:/">>
MCEntry == <<"https:/", "http:/">>

Blank == [title |-> {}, links |-> {}, forms |-> {}, frames |-> {}, actions |-> {},
          markers |-> {}, scripts |-> 1, app |-> FALSE, short |-> FALSE, empty |-> FALSE,
          viewport |-> TRUE, parked |-> FALSE]
Reached(u, d) == [failure |-> "none", url |-> u, static |-> d, rendered |-> NotRendered]
Missed(u, kind) == [failure |-> kind, url |-> u, static |-> Blank, rendered |-> NotRendered]
Always(answer) == <<answer, answer>>

Home == [Blank EXCEPT !.links = {"/prices", "/quote", "https:/"}]
QuoteRequest == [says |-> {"quote"}, fields |-> {"name", "email"}]
Newsletter == [says |-> {"excluded"}, fields |-> {"email"}]

\* The website has the form, on a page whose path names it.
WithForm ==
    [u \in MCUrl |->
        CASE u = "https:/" -> <<Missed(u, "timeout"), Reached(u, Home)>>
          [] u = "http:/" -> Always(Reached("https:/", Home))
          [] u = "/quote" -> Always(Reached(u, [Blank EXCEPT !.forms = {QuoteRequest, Newsletter}]))
          [] u = "/prices" -> Always(Reached(u, Blank))
          [] OTHER -> Always(Missed(u, "not_found"))]

\* It is served without TLS, and the pages of the form fail: all that is read is whole,
\* and has none.
FormFails ==
    [u \in MCUrl |->
        CASE u = "https:/" -> Always(Missed(u, "connection"))
          [] u = "http:/" -> Always(Reached(u, [Home EXCEPT !.forms = {Newsletter}]))
          [] u \in {"/quote", "/estimate"} -> Always(Missed(u, "server_error"))
          [] OTHER -> Always(Reached(u, Blank))]

\* It is an application that nothing renders.
Unrendered ==
    [u \in MCUrl |-> Always(Reached(u, [Blank EXCEPT !.app = TRUE]))]

MCSite == (c0 :> Unrendered) @@ (c1 :> WithForm) @@ (c2 :> FormFails)

\* It does not change.
MCSiteOne == c1 :> WithForm
=============================================================================
