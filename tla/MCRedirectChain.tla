-------------------------- MODULE MCRedirectChain --------------------------
(***************************************************************************)
(* RedirectChain on two hosts of one site, one of them over http too, from *)
(* a document at https://a.                                                *)
(***************************************************************************)
EXTENDS RedirectChain

U(s, h) == [scheme |-> s, host |-> h, site |-> "example"]
Home  == U("https", "a")
Plain == U("http", "a")
Away  == U("https", "b")
MCUrls == {Home, Plain, Away}

Ask(u, m, mode, o, c, x, d, secret, cookie) ==
    [url |-> u, method |-> m, mode |-> mode, origin |-> o, credentials |-> c, mixed |-> x,
     destination |-> d, secret |-> secret, cookie |-> cookie,
     referrer |-> IF o = None THEN 0 ELSE 2,
     policy |-> "strict-origin-when-cross-origin"]

\* Scripts, markup, links, and requests of the host's own.
MCRequests ==
    {Ask(Away, "PUT", "cors", Home, "include", "upgrade", "script", FALSE, "none"),
     Ask(Home, "PUT", "cors", Home, "same-origin", "upgrade", "script", TRUE, "none"),
     Ask(Home, "POST", "no-cors", Home, "same-origin", "block", "script", FALSE, "none"),
     Ask(Home, "POST", "same-origin", Home, "same-origin", "block", "script", FALSE, "none"),
     Ask(Plain, "GET", "cors", Home, "same-origin", "allow", "script", FALSE, "none"),
     Ask(Plain, "GET", "navigate", Home, "include", "allow", "document", FALSE, "none"),
     Ask(Home, "POST", "navigate", None, "same-origin", "allow", "document", TRUE, "caller")}

Fields(o, c, s, k, p) == [acao |-> o, acac |-> c, sts |-> s, cookies |-> k, policy |-> p]
MCHeads == {Fields("*", FALSE, "set", TRUE, "unsafe-url"),
            Fields("origin", TRUE, "clear", FALSE, "no-referrer"),
            Fields("null", TRUE, "none", FALSE, None)}

MCKnown == [s \in MCUrls \cup {Proxy} |-> IF s = Home THEN "p" ELSE None]

\* A grant with credentials, whose wildcard is a literal.
MCGranted == {[origin |-> "origin", url |-> Away, include |-> TRUE,
               allows |-> [methods |-> "*", auth |-> TRUE]]}
MCOffers == {[methods |-> "listed", auth |-> FALSE], [methods |-> "*", auth |-> TRUE]}
=============================================================================
