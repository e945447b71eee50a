----------------------------- MODULE MCDiscovery -----------------------------
(* Instances of Discovery for TLC. *)
EXTENDS Discovery

\* home, post and deep are pages, paper and draft are PDFs, paper2 is paper with a
\* tracking parameter; port and scan, a PDF, have a port that is no number, bracket cannot
\* be parsed, control has a character httpx refuses; main, more and list are sitemaps of
\* the site, far is one of another host
MCUrls ==
    {"home", "post", "deep", "paper", "paper2", "draft", "port", "scan", "bracket", "control",
     "main", "more", "list", "far"}
MCOdd == {"port", "scan", "bracket"}
MCCanonical == [u \in MCUrls \ MCOdd |-> IF u = "paper2" THEN "paper" ELSE u]
MCDomainOf == [u \in MCUrls |-> IF u \in {"far", "bracket"} THEN "b" ELSE "a"]
MCUrlRank ==
    [bracket |-> 1, control |-> 2, deep |-> 3, draft |-> 4, far |-> 5, home |-> 6, list |-> 7,
     main |-> 8, more |-> 9, paper |-> 10, paper2 |-> 11, port |-> 12, post |-> 13,
     scan |-> 14]

Site(first, second, indexed, listing, home, post) ==
    [robots |-> <<first, second>>, indexes |-> indexed, urlsets |-> listing,
     pages |-> ("home" :> home @@ "post" :> post @@ "deep" :> <<"post", "draft">>)]

\* a site within the limits, with a circle of pages; indexes that name each other and
\* come to the limit of files; entries beyond their limit and a page with more links than
\* candidates; what cannot be read or requested among the entries, as a sitemap, in a
\* robots.txt, in an index, in a urlset, and as the links of pages
MCWebs ==
    {Site(<<"main", "far">>, <<"list">>, "main" :> <<"list">>,
          "list" :> <<"home", "none", "paper", "far">>,
          <<"paper2", "post", "far", "home">>, <<"home", "deep">>),
     Site(<<"main", "more">>, <<"list">>,
          ("main" :> <<"more", "main", "far">> @@ "more" :> <<"main", "list">>),
          "list" :> <<"post">>,
          <<>>, <<"paper2", "paper", "home">>),
     Site(<<"list", "more">>, <<>>, <<>>,
          ("list" :> <<"home", "paper", "paper2">> @@ "more" :> <<"none", "draft", "post">>),
          <<"post", "deep", "draft">>, <<"post", "draft", "home">>),
     Site(<<"list">>, <<"port">>, <<>>, "list" :> <<"home">>,
          <<"post">>, <<"port">>),
     Site(<<"list">>, <<>>, <<>>, "list" :> <<"paper", "scan">>, <<"control">>,
          <<"deep", "bracket">>),
     Site(<<"main">>, <<"bracket">>, "main" :> <<"list">>, <<>>, <<>>, <<"port">>),
     Site(<<"main">>, <<>>, "main" :> <<"bracket">>, <<>>, <<>>, <<>>),
     Site(<<"list">>, <<>>, <<>>, "list" :> <<"bracket">>, <<>>, <<>>)}

MCAnswers ==
    [arxiv |-> {<<>>, <<[url |-> "paper", source |-> "arxiv", score |-> 9],
                        [url |-> "post", source |-> "arxiv", score |-> 7]>>,
                <<[url |-> "post", source |-> "arxiv", score |-> 7]>>,
                <<[url |-> "paper2", source |-> "arxiv", score |-> 7]>>,
                <<[url |-> "control", source |-> "arxiv", score |-> 7]>>, Malformed}]
MCSourceRank == [arxiv |-> 1, link_expansion |-> 2, sitemap |-> 3]
MCSources == <<"arxiv", "sitemap">>
MCRoots == <<"home", "post">>
=============================================================================
