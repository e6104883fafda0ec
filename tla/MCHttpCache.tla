---------------------------- MODULE MCHttpCache -----------------------------
(* HttpCache on a small instance.                                          *)
EXTENDS HttpCache, TLC

CONSTANTS f1, f2

MCFetches == {f1, f2}
Alike == Permutations(MCFetches)
MCUrls == {"u", "v"}
MCOrigin == [u \in {"u", "v"} |-> "o"]
Plain == [method |-> "GET", url |-> "u", jar |-> "", cc |-> <<>>, pragma |-> FALSE, asks |-> None,
          vals |-> [n \in {} |-> None], decode |-> TRUE, mode |-> "Default", background |-> FALSE]
D(name, value) == [name |-> name, value |-> value]

MCRequests ==
    {Plain,
     [Plain EXCEPT !.jar = "jar", !.background = TRUE],
     [Plain EXCEPT !.method = "POST"],
     [Plain EXCEPT !.method = "HEAD"],
     [Plain EXCEPT !.url = "v", !.decode = FALSE]}

\* The directives of a request, alone and against each other, and the modes.
Lists ==
    {<<>>, <<D("no-cache", None)>>, <<D("only-if-cached", None)>>, <<D("max-age", 5), D("max-age", 1)>>,
     <<D("max-stale", None)>>, <<D("max-stale", 1), D("max-age", 2)>>, <<D("min-fresh", 1)>>}
MCProbes ==
    {[Plain EXCEPT !.cc = cc, !.background = TRUE] : cc \in Lists}
      \cup {[Plain EXCEPT !.jar = "jar", !.mode = m, !.background = TRUE] :
                m \in {"Default", "ForceCache", "OnlyIfCached"}}

ASSUME ModesAssumption == \A q \in MCRequests \cup MCProbes : q.mode \in CacheModes

\* u is a resource that is written, fresh for a second and then revalidated, of which the
\* answers name the selecting header not at all, once and twice; v one without a Date that
\* moves about.
Ok == [status |-> 200, to |-> {<<"GET", "u">>, <<"HEAD", "u">>}, cc |-> <<D("max-age", 1)>>, told |-> 0,
       dated |-> TRUE, skew |-> 0, expires |-> None, modified |-> None, tag |-> "strong", vary |-> None,
       sized |-> TRUE, length |-> 1, location |-> None]
Dull == [Ok EXCEPT !.to = {<<"GET", "v">>}, !.cc = <<D("max-age", 1), D("must-revalidate", None)>>,
                   !.dated = FALSE, !.tag = None, !.modified = -20]
MCReplies ==
    {Ok,
     [Ok EXCEPT !.to = {<<"GET", "u">>}, !.cc = <<D("stale-while-revalidate", 1)>>, !.expires = 1,
                !.skew = 1, !.told = 2, !.tag = "weak", !.vary = <<"lang">>],
     [Ok EXCEPT !.to = {<<"GET", "u">>}, !.status = 304, !.vary = <<"lang", "lang">>, !.cc = <<>>],
     [Dull EXCEPT !.vary = <<"lang">>, !.length = 2],
     [Dull EXCEPT !.status = 304],
     [Dull EXCEPT !.status = 301, !.dated = TRUE, !.skew = -1,
                  !.cc = <<D("no-cache", None), D("max-age", None)>>],
     [Ok EXCEPT !.status = 303, !.to = {<<"POST", "u">>}, !.location = "v"]}
=============================================================================
