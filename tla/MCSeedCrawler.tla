---------------------------- MODULE MCSeedCrawler ----------------------------
(* Instances of SeedCrawler for TLC. *)
EXTENDS SeedCrawler

\* one domain under two schemes and with a port that is no number, an allowed domain,
\* another one, and an address of the first whose scheme is not HTTP; control has a
\* character httpx refuses, bracket cannot be parsed
MCSites == {"https:a", "http:a", "a:port", "https:b", "https:c"}
MCSiteOf ==
    [home |-> "https:a", about |-> "https:a", book |-> "https:a", old |-> "http:a",
     press |-> "https:b", shop |-> "https:c", ftp |-> "none",
     control |-> "http:a", port |-> "a:port", bracket |-> "none"]
MCUrls == DOMAIN MCSiteOf
MCDomainOf ==
    [home |-> "a", about |-> "a", book |-> "a", old |-> "a", press |-> "b", shop |-> "c",
     ftp |-> "a", control |-> "a", port |-> "a", bracket |-> "a"]
MCNetlocOf ==
    ("https:a" :> "a" @@ "http:a" :> "a" @@ "a:port" :> "a" @@ "https:b" :> "b"
     @@ "https:c" :> "c")

Web(home, about, old, press) ==
    [home |-> home, about |-> about, old |-> old, press |-> press,
     book |-> <<>>, shop |-> <<"home">>, ftp |-> <<>>, control |-> <<>>, port |-> <<>>,
     bracket |-> <<>>]

\* a page at two distances, a circle, links to the seed; a chain longer than the limit of
\* depth; more pages than the limit allows; links that nobody can follow
MCWebs ==
    {Web(<<"about", "old">>, <<"old", "press", "home", "book">>, <<"book", "press">>, <<>>),
     Web(<<"about", "shop", "ftp">>, <<"old", "about">>, <<"press", "book">>, <<"home">>),
     Web(<<"about", "old", "press", "book">>, <<>>, <<"home">>, <<"about", "book">>),
     Web(<<"control", "about">>, <<"bracket">>, <<>>, <<"port">>)}
MCSeeds == <<"home", "press">>
=============================================================================
