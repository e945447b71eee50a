-------------------------- MODULE SeedCrawlerProofs --------------------------
(***************************************************************************)
(* The crawler respects robots.txt and the rate limit on every web, and      *)
(* finds what is there to find, for any seeds, limits, intervals and retries *)
(***************************************************************************)
EXTENDS SeedCrawler, GeneralLemmas

(***************************************************************************)
(* Requests                                                                 *)
(***************************************************************************)
\* Outside of a page request, a request under way is for the robots.txt of the URL at
\* hand, whose policy is not known.
CallInv ==
    /\ pc \in {"idle", "next"} => Idle
    /\ Waiting => \E u \in Urls: AtHand(u) /\ ~Decided(u)

\* The client's time since the last request is never more than the true one, and after
\* the rate limit the true one is an interval.
RateInv ==
    /\ \A k \in RateKeys: elapsed[k] <= silence[k]
    /\ ~Idle /\ phase = "send" => elapsed[key] = 0 /\ silence[key] = Interval

\* There is one URL at hand.
LEMMA AtHandUnique ==
    ASSUME NEW u, NEW v, AtHand(u), AtHand(v)
    PROVE  u = v
BY DEF AtHand, AtLink

\* What decides about a URL happens with no request under way.
LEMMA DecidingIsIdle ==
    ASSUME CallInv, SkipPage \/ SkipLink \/ FollowLink \/ LinksDone
    PROVE  Idle
BY DEF CallInv, SkipPage, SkipLink, FollowLink, LinksDone, Waiting, AtHand, AtLink, Idle

\* The clock and its abstraction.
LEMMA LaterTypes ==
    ASSUME NEW times \in Times, NEW t \in Nat
    PROVE  /\ Later(times, t) \in Times
           /\ \A k \in RateKeys: Later(times, t)[k] >= times[k]
BY HttpClientAssumption DEF Later, Times

LEMMA LaterMonotone ==
    ASSUME NEW a \in Times, NEW b \in Times, NEW t \in Nat, \A k \in RateKeys: a[k] <= b[k]
    PROVE  \A k \in RateKeys: Later(a, t)[k] <= Later(b, t)[k]
BY HttpClientAssumption DEF Later, Times

LEMMA PassTypes ==
    ASSUME HttpTypeOK, NEW t \in Nat, Pass(t)
    PROVE  elapsed' \in Times /\ silence' \in Times
BY LaterTypes DEF HttpTypeOK, Pass

\* The steps of the client keep its types.
LEMMA HttpStepTypes == HttpTypeOK /\ HttpStep => HttpTypeOK'
<1> SUFFICES ASSUME HttpTypeOK, HttpStep PROVE HttpTypeOK'
  OBVIOUS
<1> USE HttpClientAssumption
<1>1. CASE ApplyRateLimit
  <2>1. Interval - elapsed[key] \in Nat
    BY DEF HttpTypeOK, Times
  <2> QED
    <3>1. PICK t \in Nat: Stamp(t)
      BY <1>1, <2>1 DEF ApplyRateLimit
    <3>2. Later(elapsed, t) \in Times /\ Later(silence, t) \in Times
      BY LaterTypes DEF HttpTypeOK
    <3>3. elapsed' \in Times /\ silence' \in Times
      <4>1. 0 \in 0 .. Interval
        OBVIOUS
      <4>2. elapsed' = [Later(elapsed, t) EXCEPT ![key] = 0]
            /\ silence' = Later(silence, t)
        BY <3>1 DEF Stamp
      <4> QED BY <3>2, <4>1, <4>2 DEF Times
    <3> QED
      BY <1>1, <3>3 DEF ApplyRateLimit, HttpTypeOK
<1>2. CASE Send
  BY <1>2 DEF Send, HttpTypeOK, Times
<1>3. CASE Retry
  <2>1. PICK latency \in 0 .. MaxLatency: Pass(latency + Backoff)
    BY <1>3 DEF Retry
  <2> QED
    BY <1>3, <2>1, PassTypes DEF Retry, HttpTypeOK
<1> QED BY <1>1, <1>2, <1>3 DEF HttpStep

LEMMA ReturnTypes == HttpTypeOK /\ Return => HttpTypeOK' /\ Idle'
<1> SUFFICES ASSUME HttpTypeOK, Return PROVE HttpTypeOK' /\ Idle'
  OBVIOUS
<1>1. PICK latency \in 0 .. MaxLatency: Pass(latency)
  BY DEF Return
<1> QED
  BY <1>1, PassTypes, HttpClientAssumption DEF Return, HttpTypeOK, Idle

LEMMA GetTypes ==
    ASSUME HttpTypeOK, NEW k \in RateKeys, Get(k)
    PROVE  HttpTypeOK' /\ Idle /\ ~Idle'
BY HttpClientAssumption DEF Get, HttpTypeOK, Idle

LEMMA QuietTypes == HttpTypeOK /\ UNCHANGED httpVars => HttpTypeOK'
BY DEF HttpTypeOK, httpVars

(***************************************************************************)
(* Types                                                                    *)
(***************************************************************************)
RobotsType ==
    /\ policies \subseteq Sites /\ permitted \subseteq Urls
    /\ read \subseteq Sites /\ asked \in [Sites -> Nat]
PageType ==
    /\ queue \in Seq([url: Urls, depth: 0 .. MaxDepth])
    /\ visited \subseteq Urls
    /\ page \in Urls /\ depth \in 0 .. MaxDepth
    /\ links \in Seq(Urls)
    /\ found \subseteq Candidates
SearchType ==
    /\ web \in Webs
    /\ search \in 0 .. MaxSearches
    /\ seed \in 1 .. Len(Seeds)
    /\ requested \subseteq Urls
    /\ candidates \subseteq Candidates
    /\ skips \subseteq Urls
    /\ failed \in BOOLEAN
    /\ pc \in {"idle", "next", "check", "page", "links", "raised"}

Typed == HttpTypeOK /\ RobotsType /\ PageType /\ SearchType

LEMMA TypedIsTypeOK == Typed => TypeOK
BY DEF Typed, TypeOK, RobotsType, PageType, SearchType

TypeInv == Typed /\ CallInv

LEMMA TypeInit == Init => TypeInv
<1> SUFFICES ASSUME Init PROVE TypeInv
  OBVIOUS
<1>1. Seeds[1] \in Urls /\ 1 \in 1 .. Len(Seeds)
  BY SeedCrawlerAssumption
<1>2. <<>> \in Seq([url: Urls, depth: 0 .. MaxDepth]) /\ <<>> \in Seq(Urls)
  OBVIOUS
<1>3. HttpTypeOK /\ Idle
  BY HttpClientAssumption DEF Init, HttpInit, HttpTypeOK, Times, Idle
<1>4. RobotsType
  BY DEF Init, RobotsType
<1>5. PageType
  BY <1>1, <1>2, SeedCrawlerAssumption DEF Init, PageType
<1>6. SearchType
  <2>1. 0 \in 0 .. MaxSearches
    BY SeedCrawlerAssumption
  <2> QED BY <1>1, <2>1 DEF Init, SearchType
<1> QED
  BY <1>3, <1>4, <1>5, <1>6 DEF Init, Typed, TypeInv, CallInv, Waiting

\* A seed begins with itself in the queue.
LEMMA BeginTypes ==
    ASSUME NEW n \in 1 .. Len(Seeds), BeginSeed(n)
    PROVE  PageType'
<1>1. Seeds[n] \in Urls
  BY SeedCrawlerAssumption
<1>2. [url |-> Seeds[n], depth |-> 0] \in [url: Urls, depth: 0 .. MaxDepth]
  BY <1>1, SeedCrawlerAssumption
<1>3. queue' \in Seq([url: Urls, depth: 0 .. MaxDepth])
  BY <1>2 DEF BeginSeed
<1>4. links' \in Seq(Urls)
  BY DEF BeginSeed
<1> QED
  BY <1>1, <1>3, <1>4, SeedCrawlerAssumption DEF BeginSeed, PageType

\* The URL that waits for a policy has a site.
LEMMA SiteAtHand ==
    ASSUME NEW u \in Urls, ~Decided(u)
    PROVE  SiteOf[u] \in Sites
BY SeedCrawlerAssumption DEF Decided

LEMMA TypeNext == TypeInv /\ [Next]_vars => Typed'
<1> SUFFICES ASSUME TypeInv, [Next]_vars PROVE Typed'
  OBVIOUS
<1> USE DEF Typed
<1>0. HttpTypeOK /\ RobotsType /\ PageType /\ SearchType /\ CallInv
  BY DEF TypeInv
<1>s. 1 \in 1 .. Len(Seeds)
  BY SeedCrawlerAssumption
<1>1. CASE StartSearch
  <2>1. HttpTypeOK' /\ RobotsType'
    BY <1>0, <1>1, QuietTypes DEF StartSearch, RobotsType, robotsVars
  <2>2. PageType'
    BY <1>1, <1>s, BeginTypes DEF StartSearch
  <2>3. SearchType'
    <3>1. search' \in 0 .. MaxSearches
      BY <1>0, <1>1, SeedCrawlerAssumption DEF StartSearch, SearchType
    <3> QED
      BY <1>0, <1>1, <1>s, <3>1 DEF StartSearch, SearchType, BeginSeed
  <2> QED BY <2>1, <2>2, <2>3
<1>2. CASE EndSeed
  <2>1. HttpTypeOK' /\ RobotsType'
    BY <1>0, <1>2, QuietTypes DEF EndSeed, RobotsType, robotsVars
  <2>2. candidates' \subseteq Candidates
    BY <1>0, <1>2 DEF EndSeed, PageType, SearchType
  <2>3. CASE seed < Len(Seeds)
    <3>1. seed + 1 \in 1 .. Len(Seeds)
      BY <1>0, <2>3, SeedCrawlerAssumption DEF SearchType
    <3>2. BeginSeed(seed + 1)
      BY <1>2, <2>3 DEF EndSeed
    <3> QED
      BY <1>0, <1>2, <2>1, <2>2, <3>1, <3>2, BeginTypes
      DEF EndSeed, SearchType, BeginSeed
  <2>4. CASE ~(seed < Len(Seeds))
    <3>1. PageType'
      BY <1>0, <1>2, <2>4 DEF EndSeed, PageType, pageVars
    <3>2. SearchType'
      BY <1>0, <1>2, <2>2, <2>4 DEF EndSeed, SearchType
    <3> QED BY <2>1, <3>1, <3>2
  <2> QED BY <2>3, <2>4
<1>3. CASE TakePage
  <2>1. Head(queue) \in [url: Urls, depth: 0 .. MaxDepth]
        /\ queue' \in Seq([url: Urls, depth: 0 .. MaxDepth])
    BY <1>0, <1>3, HeadTailProperties DEF TakePage, PageType
  <2> QED
    BY <1>0, <1>3, <2>1, QuietTypes
    DEF TakePage, RobotsType, robotsVars, PageType, SearchType
<1>4. CASE SkipPage
  BY <1>0, <1>4, QuietTypes
  DEF SkipPage, RecordSkip, RobotsType, robotsVars, PageType, pageVars, SearchType
<1>5. CASE RequestPage
  <2>1. HttpTypeOK'
    BY <1>0, <1>5, GetTypes, SeedCrawlerAssumption DEF RequestPage
  <2> QED
    BY <1>0, <1>5, <2>1
    DEF RequestPage, RobotsType, robotsVars, PageType, pageVars, SearchType
<1>6. CASE PageArrives
  <2>1. HttpTypeOK'
    BY <1>0, <1>6, ReturnTypes DEF PageArrives
  <2>2. web[page] \in Seq(Urls)
    BY <1>0, SeedCrawlerAssumption DEF SearchType, PageType
  <2> QED
    BY <1>0, <1>6, <2>1, <2>2 DEF PageArrives, RobotsType, robotsVars, PageType, SearchType
<1>7. CASE PageFails
  <2>1. HttpTypeOK'
    BY <1>0, <1>7, ReturnTypes DEF PageFails
  <2> QED
    BY <1>0, <1>7, <2>1
    DEF PageFails, FailSearch, RobotsType, robotsVars, PageType, SearchType
<1>8. CASE SkipLink
  <2>1. Head(links) \in Urls /\ links' \in Seq(Urls)
    BY <1>0, <1>8, HeadTailProperties DEF SkipLink, AtLink, PageType
  <2> QED
    BY <1>0, <1>8, <2>1, QuietTypes
    DEF SkipLink, RecordSkip, RobotsType, robotsVars, PageType, SearchType
<1>9. CASE FollowLink
  <2>1. Head(links) \in Urls /\ links' \in Seq(Urls)
    BY <1>0, <1>9, HeadTailProperties DEF FollowLink, AtLink, PageType
  <2>2. queue' \in Seq([url: Urls, depth: 0 .. MaxDepth])
    <3>1. CASE Followed(Head(links), depth) /\ Enqueue(Head(links))
      <4>1. [url |-> Head(links), depth |-> depth + 1] \in [url: Urls, depth: 0 .. MaxDepth]
        BY <1>0, <2>1, <3>1, SeedCrawlerAssumption DEF PageType, Followed
      <4> QED
        BY <1>0, <3>1, <4>1, AppendProperties DEF PageType, Enqueue
    <3>2. CASE UNCHANGED queue
      BY <1>0, <3>2 DEF PageType
    <3> QED BY <1>9, <3>1, <3>2 DEF FollowLink
  <2>3. found' \subseteq Candidates
    <3>1. [url |-> Head(links), page |-> page] \in Candidates
      BY <1>0, <2>1 DEF PageType, Candidates
    <3> QED BY <1>0, <1>9, <3>1 DEF FollowLink, PageType
  <2> QED
    BY <1>0, <1>9, <2>1, <2>2, <2>3, QuietTypes
    DEF FollowLink, RobotsType, robotsVars, PageType, SearchType
<1>10. CASE LinksDone
  BY <1>0, <1>10, QuietTypes
  DEF LinksDone, RobotsType, robotsVars, PageType, pageVars, SearchType
<1>11. CASE AskRobots
  <2>1. PICK u \in Urls: ~Decided(u) /\ Get(NetlocOf[SiteOf[u]])
                         /\ asked' = [asked EXCEPT ![SiteOf[u]] = @ + 1]
    BY <1>11 DEF AskRobots
  <2>2. SiteOf[u] \in Sites
    BY <2>1, SiteAtHand
  <2>3. HttpTypeOK'
    BY <1>0, <2>1, <2>2, GetTypes, SeedCrawlerAssumption
  <2>4. RobotsType'
    BY <1>0, <1>11, <2>1, <2>2 DEF AskRobots, RobotsType
  <2> QED
    BY <1>0, <1>11, <2>3, <2>4 DEF AskRobots, PageType, pageVars, SearchType
<1>12. CASE RobotsArrives
  <2>1. PICK u \in Urls:
            /\ Waiting /\ AtHand(u) /\ Return
            /\ policies' = policies \cup {SiteOf[u]}
            /\ permitted' \subseteq permitted \cup Urls
            /\ read' = read \cup {SiteOf[u]}
    BY <1>12 DEF RobotsArrives, SiteUrls
  <2>2. SiteOf[u] \in Sites
    BY <1>0, <2>1, AtHandUnique, SiteAtHand DEF CallInv
  <2>3. HttpTypeOK' /\ RobotsType'
    BY <1>0, <1>12, <2>1, <2>2, ReturnTypes DEF RobotsArrives, RobotsType
  <2> QED
    BY <1>0, <1>12, <2>3 DEF RobotsArrives, PageType, pageVars, SearchType
<1>13. CASE RobotsUnavailable
  <2>1. PICK u \in Urls: Waiting /\ AtHand(u) /\ Return /\ DenyAll(SiteOf[u])
    BY <1>13 DEF RobotsUnavailable
  <2>2. SiteOf[u] \in Sites
    BY <1>0, <2>1, AtHandUnique, SiteAtHand DEF CallInv
  <2>3. HttpTypeOK' /\ RobotsType'
    BY <1>0, <1>13, <2>1, <2>2, ReturnTypes DEF RobotsUnavailable, DenyAll, RobotsType
  <2> QED
    BY <1>0, <1>13, <2>3 DEF RobotsUnavailable, PageType, pageVars, SearchType
<1>14. CASE Request
  BY <1>0, <1>14, HttpStepTypes
  DEF Request, RobotsType, robotsVars, PageType, pageVars, SearchType
<1>15. CASE UNCHANGED vars
  BY <1>0, <1>15, QuietTypes
  DEF vars, RobotsType, robotsVars, PageType, pageVars, SearchType
<1>16. CASE Raise
  BY <1>0, <1>16, QuietTypes
  DEF Raise, RobotsType, robotsVars, PageType, pageVars, SearchType
<1> QED
  BY <1>1, <1>2, <1>3, <1>4, <1>5, <1>6, <1>7, <1>8, <1>9, <1>10, <1>11, <1>12, <1>13,
     <1>14, <1>15, <1>16 DEF Next, Crawl, Finished

(***************************************************************************)
(* The request under way                                                    *)
(***************************************************************************)
\* Nothing the URL at hand depends on has changed.
LEMMA SameUrlAtHand ==
    ASSUME UNCHANGED <<pc, page, links, seed, policies>>, NEW u
    PROVE  (AtHand(u) <=> AtHand(u)') /\ (Decided(u) <=> Decided(u)')
BY DEF AtHand, AtLink, Decided, DomainAllowed

LEMMA CallNext == TypeInv /\ [Next]_vars => CallInv'
<1> SUFFICES ASSUME TypeInv, [Next]_vars PROVE CallInv'
  OBVIOUS
<1>0. CallInv /\ HttpTypeOK
  BY DEF TypeInv, Typed
<1> USE DEF CallInv
<1>1. CASE StartSearch \/ EndSeed \/ TakePage
  <2>1. Idle /\ Idle'
    BY <1>0, <1>1 DEF StartSearch, EndSeed, TakePage, httpVars, Idle
  <2> QED BY <2>1 DEF Waiting
<1>2. CASE SkipPage \/ SkipLink \/ FollowLink \/ LinksDone
  <2>1. Idle
    BY <1>0, <1>2, DecidingIsIdle
  <2>2. Idle'
    BY <1>2, <2>1 DEF SkipPage, SkipLink, FollowLink, LinksDone, httpVars, Idle
  <2> QED BY <2>2 DEF Waiting
<1>3. CASE RequestPage
  BY <1>3 DEF RequestPage, Waiting
<1>4. CASE PageArrives \/ PageFails \/ RobotsArrives \/ RobotsUnavailable
  <2>1. Return
    BY <1>4 DEF PageArrives, PageFails, RobotsArrives, RobotsUnavailable
  <2> QED BY <1>0, <2>1, ReturnTypes DEF Waiting
<1>5. CASE AskRobots
  <2>1. PICK u \in Urls: AtHand(u) /\ ~Decided(u)
    BY <1>5 DEF AskRobots
  <2>2. UNCHANGED <<pc, page, links, seed, policies>>
    BY <1>5 DEF AskRobots, pageVars
  <2>3. AtHand(u)' /\ ~Decided(u)'
    BY <2>1, <2>2, SameUrlAtHand
  <2>4. pc' \in {"check", "links"}
    BY <2>1, <2>2 DEF AtHand, AtLink
  <2> QED BY <2>3, <2>4
<1>6. CASE Request
  <2>1. UNCHANGED <<pc, page, links, seed, policies>>
    BY <1>6 DEF Request, robotsVars, pageVars
  <2>2. ~Idle /\ ~Idle'
    BY <1>0, <1>6, HttpClientAssumption
    DEF Request, HttpStep, ApplyRateLimit, Send, Retry, Idle, HttpTypeOK
  <2>3. Waiting' => Waiting
    BY <2>1, <2>2 DEF Waiting
  <2> QED BY <1>0, <2>1, <2>2, <2>3, SameUrlAtHand
<1>7. CASE UNCHANGED vars
  <2>1. UNCHANGED <<pc, page, links, seed, policies>> /\ (Idle <=> Idle')
    BY <1>7 DEF vars, httpVars, robotsVars, pageVars, Idle
  <2> QED BY <1>0, <2>1, SameUrlAtHand DEF Waiting
<1>8. CASE Raise
  BY <1>8 DEF Raise, Waiting
<1> QED
  BY <1>1, <1>2, <1>3, <1>4, <1>5, <1>6, <1>7, <1>8 DEF Next, Crawl, Finished

LEMMA TypeInvariance == Spec => []TypeInv
<1>1. TypeInv /\ [Next]_vars => TypeInv'
  BY TypeNext, CallNext DEF TypeInv
<1> QED BY <1>1, TypeInit, PTL DEF Spec

\* The variables keep their types: a policy is stored for a site only, a page is queued
\* within the limit of depth, and attempts are counted to MaxRetries + 1.
THEOREM TypeCorrect == Spec => []TypeOK
<1>1. TypeInv => TypeOK
  BY TypedIsTypeOK DEF TypeInv
<1> QED BY <1>1, TypeInvariance, PTL

(***************************************************************************)
(* The rate limit                                                           *)
(***************************************************************************)
LEMMA RateInit == Init => RateInv
BY HttpClientAssumption DEF Init, HttpInit, RateInv, Idle

\* Time that passes is seen by both.
LEMMA PassRate ==
    ASSUME HttpTypeOK, RateInv, NEW t \in Nat, Pass(t)
    PROVE  \A k \in RateKeys: elapsed'[k] <= silence'[k]
BY LaterMonotone DEF HttpTypeOK, RateInv, Pass

LEMMA RateNext == TypeInv /\ RateInv /\ [Next]_vars => RateInv'
<1> SUFFICES ASSUME TypeInv, RateInv, [Next]_vars PROVE RateInv'
  OBVIOUS
<1>0. HttpTypeOK
  BY DEF TypeInv, Typed
<1>1. CASE ApplyRateLimit
  <2> DEFINE wait == Interval - elapsed[key]
  <2>1. wait \in Nat /\ key \in RateKeys
    BY <1>0, HttpClientAssumption DEF HttpTypeOK, Times
  <2>2. /\ silence' = Later(silence, wait)
        /\ elapsed' = [Later(elapsed, wait) EXCEPT ![key] = 0]
        /\ key' = key
    BY <1>1 DEF ApplyRateLimit, Stamp
  <2>3. /\ Later(elapsed, wait) \in Times /\ Later(silence, wait) \in Times
        /\ \A k \in RateKeys: Later(elapsed, wait)[k] <= Later(silence, wait)[k]
    BY <1>0, <2>1, LaterTypes, LaterMonotone DEF HttpTypeOK, RateInv
  <2>4. silence[key] + wait >= Interval
    BY <1>0, <2>1, HttpClientAssumption DEF HttpTypeOK, Times, RateInv
  <2>5. silence'[key] = Interval
    <3>1. silence[key] \in Nat
      BY <1>0, <2>1, HttpClientAssumption DEF HttpTypeOK, Times
    <3>2. Later(silence, wait)[key] = Interval
      BY <2>1, <2>4, <3>1, HttpClientAssumption DEF Later
    <3> QED BY <2>2, <3>2
  <2>6. elapsed'[key] = 0 /\ \A k \in RateKeys: elapsed'[k] <= silence'[k]
    BY <2>1, <2>2, <2>3, <2>5, HttpClientAssumption DEF Times
  <2> QED BY <2>2, <2>5, <2>6 DEF RateInv
<1>2. CASE Send
  <2>1. elapsed[key] = 0 /\ key \in RateKeys
    BY <1>0, <1>2 DEF Send, RateInv, HttpTypeOK
  <2>2. \A k \in RateKeys: elapsed'[k] <= silence'[k]
    BY <1>0, <1>2, <2>1 DEF Send, RateInv, HttpTypeOK, Times
  <2> QED BY <1>2, <2>2 DEF Send, RateInv
<1>3. CASE Retry
  <2>1. PICK latency \in 0 .. MaxLatency: Pass(latency + Backoff)
    BY <1>3 DEF Retry
  <2>2. latency + Backoff \in Nat
    BY HttpClientAssumption
  <2> QED BY <1>0, <1>3, <2>1, <2>2, PassRate DEF Retry, RateInv
<1>4. CASE Return
  <2>1. PICK latency \in 0 .. MaxLatency: Pass(latency)
    BY <1>4 DEF Return
  <2>2. latency \in Nat
    BY HttpClientAssumption
  <2> QED BY <1>0, <1>4, <2>1, <2>2, PassRate DEF Return, RateInv
<1>5. ASSUME NEW k \in RateKeys, Get(k) PROVE RateInv'
  BY <1>5 DEF Get, RateInv
<1>6. CASE UNCHANGED httpVars
  BY <1>6 DEF httpVars, RateInv, Idle
<1>7. \/ HttpStep \/ Return \/ UNCHANGED httpVars
      \/ \E k \in RateKeys: Get(k)
  <2>1. CASE AskRobots
    BY <2>1, SiteAtHand, SeedCrawlerAssumption DEF AskRobots
  <2> QED
    BY <2>1, SeedCrawlerAssumption
    DEF Next, Crawl, Finished, StartSearch, EndSeed, TakePage, SkipPage, RequestPage,
        PageArrives, PageFails, SkipLink, FollowLink, LinksDone, RobotsArrives,
        RobotsUnavailable, Raise, Request, vars
<1> QED
  BY <1>1, <1>2, <1>3, <1>4, <1>5, <1>6, <1>7 DEF HttpStep

\* Requests of one key reach the transport an interval apart: the stamp is taken after
\* the sleep, and every attempt passes _apply_rate_limit.
THEOREM RateKept == Spec => RequestsSpaced
<1>1. TypeInv /\ RateInv /\ [Next]_vars =>
          [\A k \in RateKeys:
              (phase = "send" /\ phase' = "wait" /\ key = k) => silence[k] = Interval]_httpVars
  <2> SUFFICES ASSUME TypeInv, RateInv, [Next]_vars,
                      NEW k \in RateKeys, phase = "send", phase' = "wait", key = k
               PROVE  silence[k] = Interval
    OBVIOUS
  <2>1. CASE Idle
    <3>1. phase' # "wait"
      BY <2>1
      DEF Next, Crawl, Finished, StartSearch, EndSeed, TakePage, SkipPage, RequestPage,
          PageArrives, PageFails, SkipLink, FollowLink, LinksDone, AskRobots,
          RobotsArrives, RobotsUnavailable, Raise, Request, HttpStep, ApplyRateLimit,
          Send, Retry, Get, Return, vars, httpVars
    <3> QED BY <3>1
  <2>2. CASE ~Idle
    BY <2>2 DEF RateInv
  <2> QED BY <2>1, <2>2
<1>2. RateInv /\ TypeInv /\ [Next]_vars => RateInv'
  BY RateNext
<1> QED
  BY <1>1, <1>2, RateInit, TypeInvariance, PTL DEF Spec, RequestsSpaced

(***************************************************************************)
(* robots.txt                                                               *)
(***************************************************************************)
\* What is permitted is permitted by a file that was read, everything taken up was
\* permitted, and what was skipped was looked up and not permitted: so no later file
\* can permit it, for the file of its site is there already.
RobotsInv ==
    /\ read \subseteq policies
    /\ \A u \in permitted: SiteOf[u] \in read
    /\ requested \subseteq permitted
    /\ \A c \in found \cup candidates: c.url \in permitted
    /\ \A u \in skips: Decided(u) /\ u \notin permitted

\* A site that was asked has its policy or is about to get it.
AskedInv ==
    \A s \in Sites:
        \/ asked[s] = 0
        \/ asked[s] = 1 /\ s \in policies
        \/ asked[s] = 1 /\ Waiting /\ \E u \in Urls: AtHand(u) /\ SiteOf[u] = s

LEMMA RobotsInit == Init => RobotsInv /\ AskedInv
BY DEF Init, RobotsInv, AskedInv

\* The file that arrives is the first of its site.
LEMMA ArrivesUndecided ==
    ASSUME CallInv, NEW u, Waiting, AtHand(u)
    PROVE  u \in Urls /\ ~Decided(u)
BY AtHandUnique DEF CallInv

LEMMA RobotsNext == TypeInv /\ RobotsInv /\ [Next]_vars => RobotsInv'
<1> SUFFICES ASSUME TypeInv, RobotsInv, [Next]_vars PROVE RobotsInv'
  OBVIOUS
<1>0. CallInv /\ RobotsType
  BY DEF TypeInv, Typed
<1> USE DEF RobotsInv, Decided
<1>1. CASE StartSearch \/ EndSeed
  BY <1>1 DEF StartSearch, EndSeed, BeginSeed, robotsVars, pageVars
<1>2. CASE TakePage \/ LinksDone \/ Request \/ PageArrives \/ PageFails \/ Raise
  BY <1>2
  DEF TakePage, LinksDone, Request, PageArrives, PageFails, FailSearch, Raise, robotsVars,
      pageVars
<1>3. CASE SkipPage
  BY <1>3 DEF SkipPage, RecordSkip, CanFetch, robotsVars, pageVars
<1>4. CASE RequestPage
  BY <1>4 DEF RequestPage, CanFetch, robotsVars, pageVars
<1>5. CASE SkipLink
  BY <1>5 DEF SkipLink, RecordSkip, CanFetch, robotsVars
<1>6. CASE FollowLink
  BY <1>6 DEF FollowLink, CanFetch, robotsVars
<1>7. CASE AskRobots
  BY <1>7 DEF AskRobots, pageVars
<1>8. CASE RobotsArrives
  <2>1. PICK u \in Urls, allowed \in SUBSET Urls:
            /\ Waiting /\ AtHand(u)
            /\ allowed \subseteq SiteUrls(SiteOf[u])
            /\ policies' = policies \cup {SiteOf[u]}
            /\ permitted' = permitted \cup allowed
            /\ read' = read \cup {SiteOf[u]}
            /\ UNCHANGED <<pageVars, requested, candidates, skips>>
    BY <1>8 DEF RobotsArrives, SiteUrls
  <2>2. SiteOf[u] # NoSite /\ SiteOf[u] \notin policies
    BY <1>0, <2>1, ArrivesUndecided
  <2>3. \A v \in allowed: SiteOf[v] = SiteOf[u]
    BY <2>1 DEF SiteUrls
  <2>4. \A v \in skips: v \notin allowed
    BY <2>2, <2>3
  <2> QED BY <2>1, <2>3, <2>4 DEF pageVars
<1>9. CASE RobotsUnavailable
  BY <1>9 DEF RobotsUnavailable, DenyAll, pageVars
<1>10. CASE UNCHANGED vars
  BY <1>10 DEF vars, robotsVars, pageVars
<1> QED
  BY <1>1, <1>2, <1>3, <1>4, <1>5, <1>6, <1>7, <1>8, <1>9, <1>10
  DEF Next, Crawl, Finished

LEMMA AskedNext == TypeInv /\ AskedInv /\ [Next]_vars => AskedInv'
<1> SUFFICES ASSUME TypeInv, AskedInv, [Next]_vars PROVE AskedInv'
  OBVIOUS
<1>0. CallInv /\ RobotsType /\ HttpTypeOK
  BY DEF TypeInv, Typed
\* with no request under way, and no policy or question added, nothing is about to come
<1>1. ASSUME Idle, UNCHANGED <<policies, asked>> PROVE AskedInv'
  BY <1>1 DEF AskedInv, Waiting
<1>2. CASE StartSearch \/ EndSeed \/ TakePage
  BY <1>0, <1>1, <1>2 DEF CallInv, StartSearch, EndSeed, TakePage, robotsVars
<1>3. CASE SkipPage \/ SkipLink \/ FollowLink \/ LinksDone
  BY <1>0, <1>1, <1>3, DecidingIsIdle DEF SkipPage, SkipLink, FollowLink, LinksDone, robotsVars
<1>9. CASE Raise
  BY <1>1, <1>9 DEF Raise, robotsVars
<1>4. CASE RequestPage
  BY <1>1, <1>4 DEF RequestPage, Get, robotsVars
<1>5. CASE PageArrives \/ PageFails
  BY <1>5 DEF PageArrives, PageFails, AskedInv, Waiting, robotsVars
<1>6. CASE AskRobots
  <2>1. PICK u \in Urls: /\ AtHand(u) /\ ~Decided(u)
                         /\ Get(NetlocOf[SiteOf[u]])
                         /\ asked' = [asked EXCEPT ![SiteOf[u]] = @ + 1]
    BY <1>6 DEF AskRobots
  <2>2. SiteOf[u] \in Sites /\ SiteOf[u] \notin policies /\ Idle /\ ~Idle'
    BY <2>1, SiteAtHand DEF Decided, Get, Idle
  <2>3. \A s \in Sites: asked[s] = 0 \/ (asked[s] = 1 /\ s \in policies)
    BY <2>2 DEF AskedInv, Waiting
  <2>4. UNCHANGED <<pc, page, links, seed, policies>>
    BY <1>6 DEF AskRobots, pageVars
  <2>5. AtHand(u)' /\ Waiting'
    BY <2>1, <2>2, <2>4, SameUrlAtHand DEF Waiting, AtHand, AtLink
  <2>6. asked'[SiteOf[u]] = 1 /\ \A s \in Sites \ {SiteOf[u]}: asked'[s] = asked[s]
    BY <1>0, <2>1, <2>2, <2>3 DEF RobotsType
  <2> QED BY <2>3, <2>4, <2>5, <2>6 DEF AskedInv
<1>7. CASE RobotsArrives \/ RobotsUnavailable
  <2>1. PICK u \in Urls: /\ AtHand(u) /\ policies' = policies \cup {SiteOf[u]}
                         /\ UNCHANGED asked
    BY <1>7 DEF RobotsArrives, RobotsUnavailable, DenyAll
  <2>2. \A v \in Urls: AtHand(v) => v = u
    BY <2>1, AtHandUnique
  <2> QED BY <2>1, <2>2 DEF AskedInv
<1>8. CASE Request \/ UNCHANGED vars
  <2>1. UNCHANGED <<pc, page, links, seed, policies, asked>>
    BY <1>8 DEF Request, vars, robotsVars, pageVars
  <2>2. ~Idle => ~Idle'
    BY <1>0, <1>8, HttpClientAssumption
    DEF Request, HttpStep, ApplyRateLimit, Send, Retry, Idle, HttpTypeOK, vars, httpVars
  <2>3. Waiting => Waiting'
    BY <2>1, <2>2 DEF Waiting
  <2>4. \A u \in Urls: AtHand(u) => AtHand(u)'
    BY <2>1, SameUrlAtHand
  <2> QED BY <2>1, <2>3, <2>4 DEF AskedInv
<1> QED
  BY <1>2, <1>3, <1>4, <1>5, <1>6, <1>7, <1>8, <1>9 DEF Next, Crawl, Finished

\* No page is requested, and no link offered, that the robots.txt of its site was not
\* read for and does not permit, whether the URL is a seed or a link, in whichever order
\* sites come up, and whatever fails.
THEOREM RobotsObeyed == Spec => []RobotsRespected
<1>1. RobotsInv => RobotsRespected
  BY DEF RobotsInv, RobotsRespected
<1>2. TypeInv /\ RobotsInv /\ [Next]_vars => RobotsInv'
  BY RobotsNext
<1> QED BY <1>1, <1>2, RobotsInit, TypeInvariance, PTL DEF Spec

\* A process asks a site for its robots.txt once, also if it did not get it.
THEOREM RobotsCached == Spec => []RobotsAskedOnce
<1>1. AskedInv => RobotsAskedOnce
  BY DEF AskedInv, RobotsAskedOnce
<1>2. TypeInv /\ AskedInv /\ [Next]_vars => AskedInv'
  BY AskedNext
<1> QED BY <1>1, <1>2, RobotsInit, TypeInvariance, PTL DEF Spec

(***************************************************************************)
(* The search is exact.  Reach[n] is what a search by breadth finds in n    *)
(* links; the invariant compares the queue, the pages visited and the links *)
(* taken with it, layer by layer.                                           *)
(***************************************************************************)
\* The next circle around the pages R.
Around(R) ==
    R \cup {u \in permitted \ Pdfs: DomainAllowed(u) /\ \E p \in R: u \in ToSet(web[p])}

ReachFacts ==
    /\ Reach[0] = {Seeds[seed]} \cap permitted
    /\ \A n \in 0 .. MaxDepth - 1: Reach[n + 1] = Around(Reach[n])
    /\ \A n \in 0 .. MaxDepth:
          /\ Reach[n] \subseteq permitted
          /\ Reach[n] # {} => Seeds[seed] \in permitted
    /\ \A m, n \in 0 .. MaxDepth: m <= n => Reach[m] \subseteq Reach[n]

\* The page that is neither queued nor visited.
InHand == IF pc \in {"check", "page"} THEN {page} ELSE {}
Queued == {queue[i].url: i \in DOMAIN queue}
QueuedAt(d) == {queue[i].url: i \in {j \in DOMAIN queue: queue[j].depth = d}}
\* The links of a visited page that have been looked at.
Taken(p) ==
    IF pc = "links" /\ p = page
    THEN {web[p][i]: i \in 1 .. Len(web[p]) - Len(links)}
    ELSE ToSet(web[p])

\* The queue has the pages of the current depth before those of the next.
QueueInv ==
    /\ \A i \in DOMAIN queue: queue[i].depth \in {depth, depth + 1}
    /\ \A i, j \in DOMAIN queue: i < j => queue[i].depth <= queue[j].depth

\* What is queued or at hand is the seed or within reach at its depth.
SoundInv ==
    /\ \A i \in DOMAIN queue:
          \/ queue[i].depth = 0 /\ queue[i].url = Seeds[seed]
          \/ queue[i].url \in Reach[queue[i].depth]
    /\ pc \in {"check", "page"} =>
          (depth = 0 /\ page = Seeds[seed]) \/ page \in Reach[depth]
    /\ visited \subseteq Reach[depth]

\* What is nearer than the current depth has been visited, and at the current depth
\* nothing is forgotten.
LayerInv ==
    /\ \A n \in 0 .. depth - 1: Reach[n] \subseteq visited
    /\ Reach[depth] \subseteq visited \cup QueuedAt(depth) \cup InHand

\* A link that was looked at has been decided, and is followed where it is to be.
TakenInv ==
    /\ \A p \in visited: \A u \in Taken(p): DomainAllowed(u) => Decided(u)
    /\ \A k \in 0 .. depth: k < MaxDepth =>
          \A p \in visited \cap Reach[k]: \A u \in Taken(p):
              DomainAllowed(u) /\ u \in permitted \ Pdfs => u \in visited \cup Queued \cup InHand

HandInv ==
    /\ pc \in {"check", "page"} => page \notin visited /\ Cardinality(visited) < MaxPagesPerSeed
    /\ pc = "page" => page \in permitted
    /\ pc = "links" => page \in visited /\ \A n \in 0 .. depth - 1: page \notin Reach[n]
    /\ IsFiniteSet(visited) /\ Cardinality(visited) <= MaxPagesPerSeed

LinksInv ==
    pc = "links" =>
        /\ Len(links) <= Len(web[page])
        /\ \A i \in 1 .. Len(links): links[i] = web[page][Len(web[page]) - Len(links) + i]

Offered(c) ==
    /\ c.page \in visited
    /\ c.url \in Taken(c.page) \cap permitted
    /\ DomainAllowed(c.url)
    /\ \/ c.url \in Pdfs \/ c.page = Seeds[seed]
       \/ MaxDepth > 0 /\ c.page \in Reach[MaxDepth - 1]
FoundInv == found = {c \in Candidates: Offered(c)}

Crawling ==
    /\ QueueInv /\ SoundInv /\ LayerInv /\ TakenInv /\ HandInv /\ LinksInv /\ FoundInv
CrawlInv == pc \notin {"idle", "raised"} => Crawling

\* The definition of Reach by recursion has a solution, and is it.
LEMMA ReachSolved ==
    ASSUME permitted \subseteq Urls
    PROVE  Reach = [n \in 0 .. MaxDepth |->
                       IF n = 0 THEN {Seeds[seed]} \cap permitted ELSE Around(Reach[n - 1])]
<1> DEFINE first == {Seeds[seed]} \cap permitted
           F == [R \in SUBSET permitted |-> Around(R)]
           Solves(W) == W = [n \in 0 .. MaxDepth |-> IF n = 0 THEN first ELSE Around(W[n - 1])]
<1>1. first \in SUBSET permitted /\ F \in [SUBSET permitted -> SUBSET permitted]
  BY DEF Around
<1>2. PICK f \in [0 .. MaxDepth -> SUBSET permitted]:
              Iterates(f, F, first, MaxDepth)
  <2>1. MaxDepth \in Nat
    BY SeedCrawlerAssumption
  <2> HIDE DEF first, F
  <2> QED
    BY <1>1, <2>1, Iteration
<1>3. Solves(f)
  <2>1. ASSUME NEW n \in 0 .. MaxDepth, n # 0 PROVE f[n] = Around(f[n - 1])
    <3>1. n \in 1 .. MaxDepth /\ n - 1 \in 0 .. MaxDepth
      BY <2>1, SeedCrawlerAssumption
    <3> QED
      BY <1>2, <3>1 DEF Iterates
  <2> QED
    BY <1>2, <2>1 DEF Iterates
<1>4. Reach = CHOOSE W: Solves(W)
  BY DEF Reach, Around
<1> HIDE DEF Solves
<1>5. Solves(Reach)
  BY <1>3, <1>4
<1> QED
  BY <1>5 DEF Solves

\* The pages within reach of a greater depth include those of a smaller one, and there
\* are none if the seed is not permitted.
LEMMA ReachHolds == Typed => ReachFacts
<1> SUFFICES ASSUME Typed PROVE ReachFacts
  OBVIOUS
<1> USE SeedCrawlerAssumption
<1>1. permitted \subseteq Urls
  BY DEF Typed, RobotsType
<1>2. Reach[0] = {Seeds[seed]} \cap permitted
  BY <1>1, ReachSolved
<1>3. ASSUME NEW n \in 0 .. MaxDepth - 1 PROVE Reach[n + 1] = Around(Reach[n])
  <2>1. n + 1 \in 0 .. MaxDepth /\ n + 1 # 0 /\ (n + 1) - 1 = n
    OBVIOUS
  <2> QED
    BY <1>1, <2>1, ReachSolved
<1>4. ASSUME NEW n \in 0 .. MaxDepth
      PROVE  Reach[n] \subseteq permitted /\ (Reach[n] # {} => Seeds[seed] \in permitted)
  <2> DEFINE S == {i \in Nat: i <= MaxDepth =>
                      Reach[i] \subseteq permitted /\ (Reach[i] # {} => Seeds[seed] \in permitted)}
  <2>1. 0 \in S
    BY <1>2
  <2>2. ASSUME NEW i \in Nat, i \in S PROVE i + 1 \in S
    <3>1. CASE i + 1 <= MaxDepth
      <4>1. i \in 0 .. MaxDepth - 1 /\ i <= MaxDepth
        BY <3>1
      <4>2. Reach[i + 1] = Around(Reach[i])
        BY <1>3, <4>1
      <4>3. Reach[i] \subseteq permitted /\ (Reach[i] # {} => Seeds[seed] \in permitted)
        BY <2>2, <4>1
      <4>4. Around(Reach[i]) \subseteq permitted
        BY <4>3 DEF Around
      <4>5. Around(Reach[i]) # {} => Reach[i] # {}
        BY DEF Around
      <4> QED
        BY ONLY <4>2, <4>3, <4>4, <4>5, i \in Nat
    <3> QED
      BY <3>1
  <2> HIDE DEF S
  <2>3. \A i \in Nat: i \in S
    BY ONLY <2>1, <2>2, NaturalInduction
  <2> QED
    BY <2>3 DEF S
<1>5. ASSUME NEW m \in 0 .. MaxDepth, NEW n \in 0 .. MaxDepth, m <= n
      PROVE  Reach[m] \subseteq Reach[n]
  <2> DEFINE S == {i \in Nat: m <= i /\ i <= MaxDepth => Reach[m] \subseteq Reach[i]}
  <2>1. 0 \in S
    OBVIOUS
  <2>2. ASSUME NEW i \in Nat, i \in S PROVE i + 1 \in S
    <3> SUFFICES ASSUME m <= i + 1, i + 1 <= MaxDepth PROVE Reach[m] \subseteq Reach[i + 1]
      OBVIOUS
    <3>1. CASE m = i + 1
      BY <3>1
    <3>2. CASE m # i + 1
      <4>1. i \in 0 .. MaxDepth - 1 /\ m <= i /\ i <= MaxDepth
        BY <3>2
      <4>2. Reach[m] \subseteq Reach[i]
        BY <2>2, <4>1
      <4>3. Reach[i] \subseteq Around(Reach[i])
        BY DEF Around
      <4>4. Reach[i + 1] = Around(Reach[i])
        BY <1>3, <4>1
      <4> QED
        BY <4>2, <4>3, <4>4
    <3> QED
      BY <3>1, <3>2
  <2> HIDE DEF S
  <2>3. \A i \in Nat: i \in S
    BY ONLY <2>1, <2>2, NaturalInduction
  <2> QED
    BY <1>5, <2>3 DEF S
<1> QED
  BY <1>2, <1>3, <1>4, <1>5 DEF ReachFacts

\* The same of a step.
LEMMA ReachHoldsNext == Typed' => ReachFacts'
BY ReachHolds, PTL

\* While no robots.txt arrives, the reach is what it was.
LEMMA ReachKept == UNCHANGED <<permitted, seed, web>> => Reach' = Reach
BY DEF Reach, DomainAllowed

\* A seed begins with itself in the queue.
LEMMA CrawlBegins ==
    ASSUME Typed', NEW n \in 1 .. Len(Seeds), BeginSeed(n)
    PROVE  Crawling'
<1>1. /\ seed' = n /\ depth' = 0 /\ visited' = {} /\ found' = {} /\ pc' = "next"
      /\ DOMAIN queue' = {1} /\ queue'[1] = [url |-> Seeds[n], depth |-> 0]
  BY DEF BeginSeed
<1>2. Reach'[0] = {Seeds[n]} \cap permitted'
  BY <1>1, ReachHoldsNext DEF ReachFacts
<1>3. QueueInv' /\ LinksInv' /\ TakenInv'
  BY <1>1 DEF QueueInv, LinksInv, TakenInv
<1>4. SoundInv'
  BY <1>1 DEF SoundInv
<1>5. LayerInv'
  <2>1. Seeds[n] \in QueuedAt(0)'
    BY <1>1 DEF QueuedAt
  <2> QED
    BY <1>1, <1>2, <2>1 DEF LayerInv
<1>6. HandInv'
  BY <1>1, FS_EmptySet, SeedCrawlerAssumption DEF HandInv
<1>7. FoundInv'
  BY <1>1 DEF FoundInv, Offered
<1> QED
  BY <1>3, <1>4, <1>5, <1>6, <1>7 DEF Crawling

\* What a request for a robots.txt, or an answer that permits nothing, leaves alone.
LEMMA CrawlWaits ==
    ASSUME Crawling, UNCHANGED <<pageVars, pc, web, seed, permitted>>, policies \subseteq policies'
    PROVE  Crawling'
<1>1. Reach' = Reach
  BY ReachKept
<1>2. QueueInv' /\ SoundInv'
  BY <1>1 DEF Crawling, QueueInv, SoundInv, pageVars
<1>3. LayerInv' /\ HandInv' /\ LinksInv'
  BY <1>1 DEF Crawling, LayerInv, HandInv, LinksInv, pageVars, QueuedAt, InHand
<1>4. TakenInv'
  BY <1>1 DEF Crawling, TakenInv, pageVars, Taken, Queued, InHand, DomainAllowed, Decided
<1>5. FoundInv'
  BY <1>1 DEF Crawling, FoundInv, Offered, pageVars, Taken, DomainAllowed
<1> QED
  BY <1>2, <1>3, <1>4, <1>5 DEF Crawling

\* Outside of the loop over links, all links of a visited page have been looked at.
LEMMA TakenAll == pc # "links" => \A p: Taken(p) = ToSet(web[p])
BY DEF Taken
\* The same of a step.
LEMMA TakenAllNext == pc' # "links" => \A p: Taken(p)' = ToSet(web'[p])
BY DEF Taken

\* The next page, of this depth or, once there are no more of them, of the next.
LEMMA CrawlTakes ==
    ASSUME Typed, Crawling, TakePage
    PROVE  Crawling'
<1> USE SeedCrawlerAssumption
<1> DEFINE h == Head(queue)
<1>r. Reach' = Reach /\ ReachFacts
  BY ReachKept, ReachHolds DEF TakePage, robotsVars
<1>t. /\ queue \in Seq([url: Urls, depth: 0 .. MaxDepth]) /\ queue # <<>>
      /\ depth \in 0 .. MaxDepth
  BY DEF Typed, PageType, TakePage
<1>q. /\ h = queue[1] /\ 1 \in DOMAIN queue /\ h \in [url: Urls, depth: 0 .. MaxDepth]
      /\ \A i \in DOMAIN Tail(queue):
            i \in Nat \ {0} /\ i + 1 \in DOMAIN queue /\ Tail(queue)[i] = queue[i + 1]
      /\ \A i \in DOMAIN queue:
            i = 1 \/ (i - 1 \in DOMAIN Tail(queue) /\ Tail(queue)[i - 1] = queue[i])
      /\ \A i \in DOMAIN queue:
            i \in Nat \ {0} /\ queue[i] \in [url: Urls, depth: 0 .. MaxDepth]
  <2> DEFINE T == [url: Urls, depth: 0 .. MaxDepth]
  <2>1. queue \in Seq(T) /\ queue # <<>>
    BY <1>t
  <2> HIDE DEF T
  <2>2. /\ h = queue[1] /\ 1 \in DOMAIN queue /\ h \in T
        /\ \A i \in DOMAIN Tail(queue):
              i \in Nat \ {0} /\ i + 1 \in DOMAIN queue /\ Tail(queue)[i] = queue[i + 1]
        /\ \A i \in DOMAIN queue:
              i = 1 \/ (i - 1 \in DOMAIN Tail(queue) /\ Tail(queue)[i - 1] = queue[i])
        /\ \A i \in DOMAIN queue: i \in Nat \ {0} /\ queue[i] \in T
    BY <2>1, TailFacts
  <2> QED
    BY <2>2 DEF T
<1>1. /\ pc = "next" /\ ~LimitReached /\ page' = h.url /\ depth' = h.depth /\ queue' = Tail(queue)
      /\ h = queue[1] /\ 1 \in DOMAIN queue /\ h \in [url: Urls, depth: 0 .. MaxDepth]
      /\ UNCHANGED <<visited, found, permitted, policies, seed, web>>
      /\ pc' = IF h.url \in visited THEN "next" ELSE "check"
  BY <1>q DEF TakePage, robotsVars
<1>2. /\ \A i \in DOMAIN queue': i \in Nat \ {0} /\ i + 1 \in DOMAIN queue /\ queue'[i] = queue[i + 1]
      /\ \A i \in DOMAIN queue: i = 1 \/ (i - 1 \in DOMAIN queue' /\ queue'[i - 1] = queue[i])
      /\ \A i \in DOMAIN queue: i \in Nat \ {0} /\ queue[i].depth \in 0 .. MaxDepth
  BY <1>q, <1>1
<1>3. h.depth \in {depth, depth + 1}
  BY <1>1 DEF Crawling, QueueInv
<1>4. \A i \in DOMAIN queue: h.depth <= queue[i].depth
  BY <1>1, <1>2 DEF Crawling, QueueInv
<1>u. \A i \in DOMAIN queue: queue[i].url = h.url \/ queue[i].url \in Queued'
  BY <1>1, <1>2 DEF Queued
<1>h. h.url \in visited \cup InHand'
  BY <1>1 DEF InHand
<1> HIDE DEF h
<1>5. QueueInv'
  <2>1. ASSUME NEW i \in DOMAIN queue' PROVE queue'[i].depth \in {depth', depth' + 1}
    <3>1. i + 1 \in DOMAIN queue /\ queue'[i] = queue[i + 1]
      BY <1>2
    <3>2. queue[i + 1].depth \in {depth, depth + 1} /\ h.depth <= queue[i + 1].depth
      BY <1>4, <3>1 DEF Crawling, QueueInv
    <3> QED
      BY <1>t, <1>1, <1>3, <3>1, <3>2
  <2>2. ASSUME NEW i \in DOMAIN queue', NEW j \in DOMAIN queue', i < j
        PROVE  queue'[i].depth <= queue'[j].depth
    <3>1. /\ i + 1 \in DOMAIN queue /\ queue'[i] = queue[i + 1] /\ i + 1 \in Nat
          /\ j + 1 \in DOMAIN queue /\ queue'[j] = queue[j + 1] /\ j + 1 \in Nat
      BY <1>2
    <3>3. i + 1 < j + 1
      BY <1>2, <2>2
    <3> QED
      BY <3>1, <3>3 DEF Crawling, QueueInv
  <2> QED
    BY <2>1, <2>2 DEF QueueInv
<1>6. SoundInv'
  <2>1. visited' \subseteq Reach'[depth']
    BY <1>t, <1>r, <1>1, <1>3 DEF Crawling, SoundInv, ReachFacts
  <2>2. ASSUME NEW i \in DOMAIN queue'
        PROVE  \/ queue'[i].depth = 0 /\ queue'[i].url = Seeds[seed']
               \/ queue'[i].url \in Reach'[queue'[i].depth]
    BY <1>r, <1>1, <1>2 DEF Crawling, SoundInv
  <2>3. (depth' = 0 /\ page' = Seeds[seed']) \/ page' \in Reach'[depth']
    BY <1>r, <1>1 DEF Crawling, SoundInv
  <2> QED
    BY <2>1, <2>2, <2>3 DEF SoundInv
<1>7. LayerInv'
  <2>0. /\ \A n \in 0 .. depth - 1: Reach[n] \subseteq visited
        /\ Reach[depth] \subseteq visited \cup QueuedAt(depth)
    BY <1>1 DEF Crawling, LayerInv, InHand
  <2>1. CASE h.depth = depth
    <3>1. QueuedAt(depth) \subseteq {h.url} \cup QueuedAt(depth)'
      <4> SUFFICES ASSUME NEW i \in DOMAIN queue, queue[i].depth = depth, i # 1
                   PROVE  queue[i].url \in QueuedAt(depth)'
        BY <1>1 DEF QueuedAt
      <4>1. i - 1 \in DOMAIN queue' /\ queue'[i - 1] = queue[i] /\ depth' = depth
        BY <1>1, <1>2, <2>1
      <4> QED
        BY <4>1 DEF QueuedAt
    <3> QED
      BY <1>r, <1>1, <1>h, <2>0, <2>1, <3>1 DEF LayerInv
  <2>2. CASE h.depth = depth + 1
    <3>1. QueuedAt(depth) = {}
      BY <1>t, <1>2, <1>4, <2>2 DEF QueuedAt
    <3>2. \A n \in 0 .. depth: Reach[n] \subseteq visited
      BY <1>t, <2>0, <3>1
    <3>3. depth < MaxDepth /\ depth \in 0 .. MaxDepth - 1
      BY <1>t, <1>1, <2>2
    <3>4. ASSUME NEW u \in Reach[depth + 1], u \notin visited
          PROVE  u \in QueuedAt(depth)' \cup InHand'
      <4>1. u \in Around(Reach[depth]) /\ u \notin Reach[depth]
        BY <1>t, <1>r, <3>2, <3>3, <3>4 DEF ReachFacts
      <4>2. PICK p \in Reach[depth]: u \in ToSet(web[p])
        BY <4>1 DEF Around
      <4>3. u \in permitted \ Pdfs /\ DomainAllowed(u) /\ p \in visited
        <5>1. depth \in 0 .. depth
          BY <1>t
        <5>2. p \in visited
          BY <3>2, <5>1
        <5> QED
          BY <4>1, <5>2 DEF Around
      <4>4. u \in Taken(p)
        BY <1>1, <4>2, TakenAll
      <4>5. u \in Queued
        BY <1>t, <1>1, <3>3, <3>4, <4>2, <4>3, <4>4 DEF Crawling, TakenInv, InHand
      <4>6. PICK i \in DOMAIN queue: queue[i].url = u
        BY <4>5 DEF Queued
      <4>7. queue[i].depth = depth + 1
        BY <1>t, <1>2, <1>4, <2>2, <4>6 DEF Crawling, QueueInv
      <4>8. CASE i = 1
        BY <1>1, <1>h, <3>4, <4>6, <4>8
      <4>9. CASE i # 1
        <5>1. i - 1 \in DOMAIN queue' /\ queue'[i - 1] = queue[i] /\ depth' = depth + 1
          BY <1>1, <1>2, <2>2, <4>9
        <5> QED
          BY <4>6, <4>7, <5>1 DEF QueuedAt
      <4> QED
        BY <4>8, <4>9
    <3>5. depth' = depth + 1 /\ 0 .. depth' - 1 = 0 .. depth
      BY <1>t, <1>1, <2>2
    <3> QED
      BY <1>r, <1>1, <3>2, <3>4, <3>5 DEF LayerInv
  <2> QED
    BY <1>3, <2>1, <2>2
<1>8. TakenInv'
  <2>1. \A p: Taken(p)' = Taken(p)
    BY <1>1, TakenAll, TakenAllNext
  <2>2. \A p \in visited': \A u \in Taken(p)': DomainAllowed(u)' => Decided(u)'
    BY <1>1, <2>1 DEF Crawling, TakenInv, DomainAllowed, Decided
  <2>3. ASSUME NEW k \in 0 .. depth', k < MaxDepth, NEW p \in visited, p \in Reach[k],
               NEW u \in Taken(p), DomainAllowed(u), u \in permitted \ Pdfs
        PROVE  u \in visited \cup Queued' \cup InHand'
    <3>1. PICK n \in 0 .. depth: n < MaxDepth /\ p \in Reach[n]
      <4>1. CASE k \in 0 .. depth
        BY <2>3, <4>1
      <4>2. CASE k \notin 0 .. depth
        BY <1>t, <1>1, <1>3, <2>3, <4>2 DEF Crawling, SoundInv
      <4> QED
        BY <4>1, <4>2
    <3>2. u \in visited \cup Queued
      BY <1>1, <2>3, <3>1 DEF Crawling, TakenInv, InHand
    <3> QED
      BY <1>u, <1>h, <3>2 DEF Queued
  <2> QED
    BY <1>r, <1>1, <2>1, <2>2, <2>3 DEF TakenInv, DomainAllowed
<1>9. HandInv' /\ LinksInv'
  <2>1. IsFiniteSet(visited) /\ Cardinality(visited) \in Nat /\ Cardinality(visited) <= MaxPagesPerSeed
    BY FS_CardinalityType DEF Crawling, HandInv
  <2>2. Cardinality(visited) < MaxPagesPerSeed
    BY <1>1, <2>1 DEF LimitReached
  <2> QED
    BY <1>1, <2>1, <2>2 DEF HandInv, LinksInv
<1>10. FoundInv'
  BY <1>r, <1>1, TakenAll, TakenAllNext DEF Crawling, FoundInv, Offered, DomainAllowed
<1> QED
  BY <1>5, <1>6, <1>7, <1>8, <1>9, <1>10 DEF Crawling

\* A page that may not be fetched is nowhere within reach.
LEMMA CrawlSkips ==
    ASSUME Typed, Crawling, SkipPage
    PROVE  Crawling'
<1>r. Reach' = Reach /\ ReachFacts
  BY ReachKept, ReachHolds DEF SkipPage, robotsVars
<1>1. /\ pc = "check" /\ pc' = "next" /\ page \notin permitted
      /\ UNCHANGED <<queue, visited, page, depth, links, found, permitted, policies, seed, web>>
  BY DEF SkipPage, CanFetch, robotsVars, pageVars
<1>2. InHand = {page} /\ InHand' = {} /\ QueuedAt(depth)' = QueuedAt(depth) /\ Queued' = Queued
  BY <1>1 DEF InHand, QueuedAt, Queued
<1>3. \A p: Taken(p)' = Taken(p)
  BY <1>1, TakenAll, TakenAllNext
<1>4. QueueInv' /\ SoundInv' /\ LinksInv'
  BY <1>r, <1>1 DEF Crawling, QueueInv, SoundInv, LinksInv
<1>5. LayerInv'
  <2>1. Reach[depth] \subseteq permitted
    BY <1>r DEF ReachFacts, Typed, PageType
  <2> QED
    BY <1>r, <1>1, <1>2, <2>1 DEF Crawling, LayerInv
<1>6. TakenInv'
  BY <1>r, <1>1, <1>2, <1>3 DEF Crawling, TakenInv, DomainAllowed, Decided
<1>7. HandInv'
  BY <1>1 DEF Crawling, HandInv
<1>8. FoundInv'
  BY <1>r, <1>1, <1>3 DEF Crawling, FoundInv, Offered, DomainAllowed
<1> QED
  BY <1>4, <1>5, <1>6, <1>7, <1>8 DEF Crawling

\* The page is asked for.
LEMMA CrawlRequests ==
    ASSUME Typed, Crawling, RequestPage
    PROVE  Crawling'
<1>r. Reach' = Reach
  BY ReachKept DEF RequestPage, robotsVars
<1>1. /\ pc = "check" /\ pc' = "page" /\ page \in permitted
      /\ UNCHANGED <<queue, visited, page, depth, links, found, permitted, policies, seed, web>>
  BY DEF RequestPage, CanFetch, robotsVars, pageVars
<1>2. InHand' = InHand /\ QueuedAt(depth)' = QueuedAt(depth) /\ Queued' = Queued
  BY <1>1 DEF InHand, QueuedAt, Queued
<1>3. \A p: Taken(p)' = Taken(p)
  BY <1>1, TakenAll, TakenAllNext
<1>4. QueueInv' /\ SoundInv' /\ LinksInv' /\ LayerInv'
  BY <1>r, <1>1, <1>2 DEF Crawling, QueueInv, SoundInv, LinksInv, LayerInv
<1>6. TakenInv'
  BY <1>r, <1>1, <1>2, <1>3 DEF Crawling, TakenInv, DomainAllowed, Decided
<1>7. HandInv'
  BY <1>1 DEF Crawling, HandInv
<1>8. FoundInv'
  BY <1>r, <1>1, <1>3 DEF Crawling, FoundInv, Offered, DomainAllowed
<1> QED
  BY <1>4, <1>6, <1>7, <1>8 DEF Crawling

\* A page that arrives is at its least distance: everything nearer was visited before.
LEMMA CrawlArrives ==
    ASSUME Typed, Crawling, PageArrives
    PROVE  Crawling'
<1> USE SeedCrawlerAssumption
<1>r. Reach' = Reach /\ ReachFacts
  BY ReachKept, ReachHolds DEF PageArrives, robotsVars
<1>t. /\ web[page] \in Seq(Urls) /\ depth \in 0 .. MaxDepth
  BY DEF Typed, PageType, SearchType
<1>1. /\ pc = "page" /\ pc' = "links" /\ visited' = visited \cup {page} /\ links' = web[page]
      /\ UNCHANGED <<queue, page, depth, found, permitted, policies, seed, web>>
  BY DEF PageArrives, robotsVars
<1>2. InHand = {page} /\ InHand' = {} /\ QueuedAt(depth)' = QueuedAt(depth) /\ Queued' = Queued
  BY <1>1 DEF InHand, QueuedAt, Queued
<1>3. page \in permitted /\ page \notin visited /\ Cardinality(visited) < MaxPagesPerSeed
  BY <1>1 DEF Crawling, HandInv
<1>4. page \in Reach[depth]
  BY <1>r, <1>1, <1>3 DEF Crawling, SoundInv, ReachFacts
<1>5. /\ Taken(page)' = {}
      /\ \A p: p # page => Taken(p)' = Taken(p)
  <2>1. Len(web[page]) - Len(links') = 0
    BY <1>t, <1>1
  <2>2. 1 .. 0 = {}
    OBVIOUS
  <2> QED
    BY <1>1, <2>1, <2>2 DEF Taken
<1>6. QueueInv' /\ SoundInv' /\ LayerInv'
  BY <1>r, <1>1, <1>2, <1>4 DEF Crawling, QueueInv, SoundInv, LayerInv
<1>7. LinksInv'
  <2>1. /\ links' = web'[page'] /\ Len(web'[page']) \in Nat
    BY <1>t, <1>1
  <2> QED
    BY <2>1 DEF LinksInv
<1>8. TakenInv'
  BY <1>r, <1>1, <1>2, <1>3, <1>5 DEF Crawling, TakenInv, DomainAllowed, Decided
<1>9. HandInv'
  <2>1. IsFiniteSet(visited) /\ Cardinality(visited) \in Nat
    BY FS_CardinalityType DEF Crawling, HandInv
  <2>2. IsFiniteSet(visited') /\ Cardinality(visited') = Cardinality(visited) + 1
    BY <1>1, <1>3, <2>1, FS_AddElement
  <2>3. \A n \in 0 .. depth - 1: page \notin Reach[n]
    BY <1>3 DEF Crawling, LayerInv
  <2> QED
    BY <1>r, <1>1, <1>3, <2>1, <2>2, <2>3 DEF HandInv
<1>10. FoundInv'
  <2>1. \A c: Offered(c)' <=> Offered(c)
    BY <1>r, <1>1, <1>3, <1>5 DEF Offered, DomainAllowed
  <2> QED
    BY <1>1, <2>1 DEF Crawling, FoundInv
<1> QED
  BY <1>6, <1>7, <1>8, <1>9, <1>10 DEF Crawling

\* No link of the page is left: its links have all been looked at.
LEMMA CrawlLeaves ==
    ASSUME Typed, Crawling, LinksDone
    PROVE  Crawling'
<1> USE SeedCrawlerAssumption
<1>r. Reach' = Reach
  BY ReachKept DEF LinksDone, robotsVars
<1>t. web[page] \in Seq(Urls)
  BY DEF Typed, PageType, SearchType
<1>1. /\ pc = "links" /\ pc' = "next" /\ links = <<>>
      /\ UNCHANGED <<queue, visited, page, depth, links, found, permitted, policies, seed, web>>
  BY DEF LinksDone, robotsVars, pageVars
<1>2. InHand' = InHand /\ QueuedAt(depth)' = QueuedAt(depth) /\ Queued' = Queued
  BY <1>1 DEF InHand, QueuedAt, Queued
<1>3. \A p: Taken(p)' = Taken(p)
  <2>1. Len(web[page]) - Len(links) = Len(web[page]) /\ DOMAIN web[page] = 1 .. Len(web[page])
    BY <1>t, <1>1
  <2> QED
    BY <1>1, <2>1, TakenAllNext DEF Taken, ToSet
<1>4. QueueInv' /\ SoundInv' /\ LinksInv' /\ LayerInv'
  BY <1>r, <1>1, <1>2 DEF Crawling, QueueInv, SoundInv, LinksInv, LayerInv
<1>6. TakenInv'
  BY <1>r, <1>1, <1>2, <1>3 DEF Crawling, TakenInv, DomainAllowed, Decided
<1>7. HandInv'
  BY <1>1 DEF Crawling, HandInv
<1>8. FoundInv'
  BY <1>r, <1>1, <1>3 DEF Crawling, FoundInv, Offered, DomainAllowed
<1> QED
  BY <1>4, <1>6, <1>7, <1>8 DEF Crawling

\* One more link of the page has been looked at.
LEMMA LinkTaken ==
    ASSUME Typed, Crawling, pc = "links", links # <<>>, links' = Tail(links),
           UNCHANGED <<pc, page, web>>
    PROVE  /\ LinksInv' /\ Head(links) \in ToSet(web[page]) /\ Head(links) \in Urls
           /\ Taken(page)' = Taken(page) \cup {Head(links)}
           /\ \A p: p # page => Taken(p)' = Taken(p)
<1> USE SeedCrawlerAssumption
<1>t. links \in Seq(Urls) /\ web[page] \in Seq(Urls)
  BY DEF Typed, PageType, SearchType
<1> DEFINE N == Len(web[page])
           L == Len(links)
<1>1. /\ N \in Nat /\ L \in Nat \ {0} /\ L <= N /\ Len(links') = L - 1
      /\ \A i \in 1 .. L: links[i] = web[page][N - L + i]
      /\ Head(links) = links[1] /\ Head(links) \in Urls
      /\ \A i \in 1 .. L - 1: links'[i] = links[i + 1]
  BY <1>t DEF Crawling, LinksInv
<1> HIDE DEF N, L
<1>2. ASSUME NEW i \in 1 .. L - 1 PROVE links'[i] = web[page][N - (L - 1) + i]
  <2>1. i + 1 \in 1 .. L /\ N - L + (i + 1) = N - (L - 1) + i
    BY <1>1
  <2> QED
    BY <1>1, <2>1
<1>3. LinksInv'
  <2>1. Len(links') = L - 1 /\ Len(web'[page']) = N /\ web'[page'] = web[page] /\ L - 1 <= N
    BY <1>1 DEF N
  <2> QED
    BY <1>2, <2>1 DEF LinksInv
<1>4. Head(links) = web[page][N - L + 1]
  BY <1>1
<1>5. 1 .. N - (L - 1) = (1 .. N - L) \cup {N - L + 1}
  BY <1>1
<1>6. Taken(page) = {web[page][i]: i \in 1 .. N - L}
  BY DEF Taken, N, L
<1>7. Taken(page)' = {web[page][i]: i \in 1 .. N - (L - 1)}
  BY <1>1 DEF Taken, N
<1>8. Taken(page)' = Taken(page) \cup {Head(links)}
  BY <1>4, <1>5, <1>6, <1>7
<1>9. \A p: p # page => Taken(p)' = Taken(p)
  BY DEF Taken
<1>10. Head(links) \in ToSet(web[page])
  <2>1. N - L + 1 \in DOMAIN web[page]
    BY <1>t, <1>1 DEF N
  <2> QED
    BY <1>4, <2>1 DEF ToSet
<1> QED
  BY <1>1, <1>3, <1>8, <1>9, <1>10

\* A link that is not followed is not permitted, or of another site.
LEMMA CrawlSkipsLink ==
    ASSUME Typed, Crawling, SkipLink
    PROVE  Crawling'
<1> DEFINE u == Head(links)
<1>r. Reach' = Reach
  BY ReachKept DEF SkipLink, robotsVars
<1>1. /\ pc = "links" /\ pc' = pc /\ links # <<>> /\ links' = Tail(links)
      /\ UNCHANGED <<queue, visited, page, depth, found, permitted, policies, seed, web>>
      /\ ~DomainAllowed(u) \/ (Decided(u) /\ u \notin permitted)
  BY DEF SkipLink, AtLink, CanFetch, robotsVars
<1>2. InHand' = InHand /\ QueuedAt(depth)' = QueuedAt(depth) /\ Queued' = Queued
  BY <1>1 DEF InHand, QueuedAt, Queued
<1>3. /\ LinksInv' /\ Taken(page)' = Taken(page) \cup {u}
      /\ \A p: p # page => Taken(p)' = Taken(p)
  BY <1>1, LinkTaken
<1> HIDE DEF u
<1>4. QueueInv' /\ SoundInv' /\ LayerInv' /\ HandInv'
  BY <1>r, <1>1, <1>2 DEF Crawling, QueueInv, SoundInv, LayerInv, HandInv
<1>5. TakenInv'
  <2>1. \A p \in visited: \A v \in Taken(p)': v \in Taken(p) \/ v = u
    BY <1>1, <1>3
  <2>2. \A p \in visited': \A v \in Taken(p)': DomainAllowed(v)' => Decided(v)'
    BY <1>1, <2>1 DEF Crawling, TakenInv, DomainAllowed, Decided
  <2>3. \A k \in 0 .. depth': k < MaxDepth =>
          \A p \in visited' \cap Reach'[k]: \A v \in Taken(p)':
              DomainAllowed(v)' /\ v \in permitted' \ Pdfs => v \in visited' \cup Queued' \cup InHand'
    BY <1>r, <1>1, <1>2, <2>1 DEF Crawling, TakenInv, DomainAllowed
  <2> QED
    BY <2>2, <2>3 DEF TakenInv
<1>6. FoundInv'
  <2>1. \A c: Offered(c)' <=> Offered(c)
    BY <1>r, <1>1, <1>3 DEF Offered, DomainAllowed
  <2> QED
    BY <1>1, <2>1 DEF Crawling, FoundInv
<1> QED
  BY <1>3, <1>4, <1>5, <1>6 DEF Crawling

\* Where a page is on the way, by its depth and by the reference.
LEMMA PageDistance ==
    ASSUME Typed, Crawling, pc = "links"
    PROVE  /\ page \in visited /\ page \in Reach[depth]
           /\ \A n \in 0 .. depth - 1: page \notin Reach[n]
           /\ depth = 0 <=> page = Seeds[seed]
           /\ depth < MaxDepth <=> MaxDepth > 0 /\ page \in Reach[MaxDepth - 1]
<1> USE SeedCrawlerAssumption
<1>r. ReachFacts
  BY ReachHolds
<1>t. depth \in 0 .. MaxDepth /\ MaxDepth \in Nat
  BY DEF Typed, PageType
<1>1. /\ page \in visited /\ page \in Reach[depth]
      /\ \A n \in 0 .. depth - 1: page \notin Reach[n]
  BY DEF Crawling, HandInv, SoundInv
<1>2. ASSUME depth = 0 PROVE page = Seeds[seed]
  BY <1>r, <1>1, <1>2 DEF ReachFacts
<1>3. ASSUME page = Seeds[seed] PROVE depth = 0
  <2>1. page \in Reach[0]
    BY <1>r, <1>t, <1>1, <1>3 DEF ReachFacts
  <2> QED
    BY <1>t, <1>1, <2>1
<1>4. ASSUME depth < MaxDepth PROVE MaxDepth > 0 /\ page \in Reach[MaxDepth - 1]
  BY <1>r, <1>t, <1>1, <1>4 DEF ReachFacts
<1>5. ASSUME MaxDepth > 0, page \in Reach[MaxDepth - 1] PROVE depth < MaxDepth
  BY <1>t, <1>1, <1>5
<1> QED
  BY <1>1, <1>2, <1>3, <1>4, <1>5

\* A link is followed: offered as a candidate where it is a document or the page a
\* seed or near the limit of depth, and queued unless it is known or too far.
LEMMA CrawlFollows ==
    ASSUME Typed, Crawling, FollowLink
    PROVE  Crawling'
<1> USE SeedCrawlerAssumption
<1> DEFINE u == Head(links)
           collected == ShouldCollect(u, depth)
           entry == [url |-> u, depth |-> depth + 1]
<1>r. Reach' = Reach /\ ReachFacts
  BY ReachKept, ReachHolds DEF FollowLink, robotsVars
<1>1. /\ pc = "links" /\ pc' = pc /\ links # <<>> /\ links' = Tail(links)
      /\ UNCHANGED <<visited, page, depth, permitted, policies, seed, web>>
      /\ DomainAllowed(u) /\ Decided(u) /\ u \in permitted
      /\ found' = IF collected THEN found \cup {[url |-> u, page |-> page]} ELSE found
      /\ \/ collected /\ Followed(u, depth) /\ queue' = Append(queue, entry)
         \/ ~(collected /\ Followed(u, depth)) /\ queue' = queue
  BY DEF FollowLink, AtLink, CanFetch, Enqueue, robotsVars
<1>3. /\ LinksInv' /\ Taken(page)' = Taken(page) \cup {u}
      /\ u \in ToSet(web[page]) /\ u \in Urls
      /\ \A p: p # page => Taken(p)' = Taken(p)
  BY <1>1, LinkTaken
<1>4. /\ page \in visited /\ page \in Reach[depth]
      /\ \A n \in 0 .. depth - 1: page \notin Reach[n]
      /\ depth = 0 <=> page = Seeds[seed]
      /\ depth < MaxDepth <=> MaxDepth > 0 /\ page \in Reach[MaxDepth - 1]
  BY <1>1, PageDistance
<1>t. queue \in Seq([url: Urls, depth: 0 .. MaxDepth]) /\ depth \in 0 .. MaxDepth /\ page \in Urls
  BY DEF Typed, PageType
<1>5. collected <=> u \in Pdfs \/ page = Seeds[seed] \/ (MaxDepth > 0 /\ page \in Reach[MaxDepth - 1])
  BY <1>4 DEF ShouldCollect
<1>6. depth < MaxDepth /\ u \notin Pdfs => queue' = Append(queue, entry)
  BY <1>1 DEF ShouldCollect, Followed
<1>7. queue' = queue \/ (queue' = Append(queue, entry) /\ depth < MaxDepth /\ u \notin Pdfs)
  BY <1>1 DEF Followed
<1>8. /\ DOMAIN queue \subseteq Nat
      /\ queue' = Append(queue, entry) =>
            /\ DOMAIN queue' = DOMAIN queue \cup {Len(queue) + 1}
            /\ queue'[Len(queue) + 1] = entry /\ Len(queue) \in Nat
            /\ \A i \in DOMAIN queue: i <= Len(queue)
      /\ \A i \in DOMAIN queue: i \in DOMAIN queue' /\ queue'[i] = queue[i]
  <2> DEFINE T == [url: Urls, depth: 0 .. MaxDepth]
  <2>1. queue \in Seq(T)
    BY <1>t
  <2> HIDE DEF entry, T
  <2>2. /\ Len(queue) \in Nat /\ DOMAIN queue = 1 .. Len(queue)
        /\ DOMAIN Append(queue, entry) = DOMAIN queue \cup {Len(queue) + 1}
        /\ Append(queue, entry)[Len(queue) + 1] = entry
        /\ \A i \in DOMAIN queue: Append(queue, entry)[i] = queue[i]
    BY <2>1, AppendFacts
  <2>3. CASE queue' = Append(queue, entry)
    BY <2>2, <2>3
  <2>4. CASE queue' = queue /\ queue' # Append(queue, entry)
    <3>1. DOMAIN queue \subseteq Nat
      BY <2>2
    <3>2. \A i \in DOMAIN queue: i \in DOMAIN queue' /\ queue'[i] = queue[i]
      BY <2>4
    <3> QED
      BY <2>4, <3>1, <3>2
  <2> QED
    BY <1>7, <2>3, <2>4
<1>9. entry.url = u /\ entry.depth = depth + 1
  OBVIOUS
<1> HIDE DEF u, collected, entry
<1>10. QueueInv'
  <2>1. /\ \A i \in DOMAIN queue: queue[i].depth \in {depth, depth + 1}
        /\ \A i, j \in DOMAIN queue: i < j => queue[i].depth <= queue[j].depth
    BY DEF Crawling, QueueInv
  <2>2. CASE queue' = queue
    BY <1>1, <2>1, <2>2 DEF QueueInv
  <2>3. CASE queue' = Append(queue, entry)
    <3>1. ASSUME NEW i \in DOMAIN queue' PROVE queue'[i].depth \in {depth, depth + 1}
      BY <1>8, <1>9, <2>1, <2>3
    <3>2. ASSUME NEW i \in DOMAIN queue', NEW j \in DOMAIN queue', i < j
          PROVE  queue'[i].depth <= queue'[j].depth
      <4>1. CASE j \in DOMAIN queue
        <5>1. i \in DOMAIN queue
          BY <1>8, <2>3, <3>2, <4>1
        <5> QED
          BY <1>8, <2>1, <3>2, <4>1, <5>1
      <4>2. CASE j = Len(queue) + 1
        <5>1. queue'[j].depth = depth + 1
          BY <1>8, <1>9, <2>3, <4>2
        <5>2. queue'[i].depth \in {depth, depth + 1}
          BY <3>1
        <5> QED
          BY <1>t, <5>1, <5>2
      <4> QED
        BY <1>8, <2>3, <4>1, <4>2
    <3> QED
      BY <1>1, <3>1, <3>2 DEF QueueInv
  <2> QED
    BY <1>7, <2>2, <2>3
<1>11. SoundInv'
  <2>1. ASSUME depth < MaxDepth, u \notin Pdfs PROVE u \in Reach[depth + 1]
    <3>1. depth \in 0 .. MaxDepth - 1
      BY <1>t, <2>1
    <3>2. Reach[depth + 1] = Around(Reach[depth])
      BY <1>r, <3>1 DEF ReachFacts
    <3>3. /\ u \in permitted \ Pdfs /\ DomainAllowed(u)
          /\ page \in Reach[depth] /\ u \in ToSet(web[page])
      BY <1>1, <1>3, <1>4, <2>1
    <3> HIDE DEF u
    <3>4. u \in Around(Reach[depth])
      BY <3>3 DEF Around
    <3> QED
      BY <3>2, <3>4
  <2>2. ASSUME NEW i \in DOMAIN queue'
        PROVE  \/ queue'[i].depth = 0 /\ queue'[i].url = Seeds[seed']
               \/ queue'[i].url \in Reach'[queue'[i].depth]
    <3>1. CASE i \in DOMAIN queue
      BY <1>r, <1>1, <1>8, <3>1 DEF Crawling, SoundInv
    <3>2. CASE i \notin DOMAIN queue
      BY <1>r, <1>7, <1>8, <1>9, <2>1, <2>2, <3>2
    <3> QED
      BY <3>1, <3>2
  <2> QED
    BY <1>r, <1>1, <2>2 DEF Crawling, SoundInv
<1>12. LayerInv'
  <2>1. QueuedAt(depth) \subseteq QueuedAt(depth)'
    BY <1>1, <1>8 DEF QueuedAt
  <2> QED
    BY <1>r, <1>1, <2>1 DEF Crawling, LayerInv, InHand
<1>13. TakenInv'
  <2>1. \A p \in visited: \A v \in Taken(p)': v \in Taken(p) \/ (v = u /\ p = page)
    BY <1>1, <1>3
  <2>2. \A p \in visited': \A v \in Taken(p)': DomainAllowed(v)' => Decided(v)'
    BY <1>1, <2>1 DEF Crawling, TakenInv, DomainAllowed, Decided
  <2>3. Queued \subseteq Queued' /\ InHand = {}
    BY <1>1, <1>8 DEF Queued, InHand
  <2>4. ASSUME NEW k \in 0 .. depth, k < MaxDepth, NEW p \in visited, p \in Reach[k],
               NEW v \in Taken(p)', DomainAllowed(v), v \in permitted \ Pdfs
        PROVE  v \in visited \cup Queued'
    <3>1. CASE v \in Taken(p)
      BY <2>3, <2>4, <3>1 DEF Crawling, TakenInv
    <3>2. CASE v = u /\ p = page
      <4>1. k = depth
        BY <1>t, <1>4, <2>4, <3>2
      <4>2. queue' = Append(queue, entry)
        BY <1>6, <2>4, <3>2, <4>1
      <4> QED
        BY <1>8, <1>9, <3>2, <4>2 DEF Queued
    <3> QED
      BY <2>1, <3>1, <3>2
  <2>5. \A k \in 0 .. depth': k < MaxDepth =>
          \A p \in visited' \cap Reach'[k]: \A v \in Taken(p)':
              DomainAllowed(v)' /\ v \in permitted' \ Pdfs => v \in visited' \cup Queued' \cup InHand'
    BY <1>r, <1>1, <2>4 DEF DomainAllowed
  <2> QED
    BY <2>2, <2>5 DEF TakenInv
<1>14. HandInv'
  BY <1>r, <1>1 DEF Crawling, HandInv
<1>15. FoundInv'
  <2> DEFINE new == [url |-> u, page |-> page]
  <2>1. new \in Candidates /\ new.url = u /\ new.page = page
    BY <1>t, <1>3 DEF Candidates
  <2>2. \A c \in Candidates: c.url = u /\ c.page = page => c = new
    BY DEF Candidates
  <2> HIDE DEF new
  <2>3. \A c \in Candidates: Offered(c)' <=> Offered(c) \/ (collected /\ c = new)
    BY <1>r, <1>1, <1>3, <1>4, <1>5, <2>1, <2>2 DEF Offered, DomainAllowed
  <2>4. found' = IF collected THEN found \cup {new} ELSE found
    BY <1>1 DEF new
  <2> QED
    BY <2>1, <2>3, <2>4 DEF Crawling, FoundInv
<1> QED
  BY <1>3, <1>10, <1>11, <1>12, <1>13, <1>14, <1>15 DEF Crawling

\* A file that permits more brings nothing further away.
LEMMA ReachGrows ==
    ASSUME Typed, Typed', UNCHANGED <<seed, web>>, permitted \subseteq permitted'
    PROVE  \A n \in 0 .. MaxDepth: Reach[n] \subseteq Reach'[n]
<1> USE SeedCrawlerAssumption
<1>r. ReachFacts /\ ReachFacts'
  BY ReachHolds, ReachHoldsNext
<1> DEFINE S == {n \in Nat: n <= MaxDepth => Reach[n] \subseteq Reach'[n]}
<1>1. 0 \in S
  BY <1>r DEF ReachFacts
<1>2. ASSUME NEW n \in Nat, n \in S PROVE n + 1 \in S
  <2>1. CASE n + 1 <= MaxDepth
    <3>1. n \in 0 .. MaxDepth - 1 /\ Reach[n] \subseteq Reach'[n]
      BY <1>2, <2>1
    <3>2. Reach[n + 1] = Around(Reach[n]) /\ Reach'[n + 1] = Around(Reach[n])'
      BY <1>r, <3>1 DEF ReachFacts
    <3>3. Around(Reach[n]) \subseteq Around(Reach[n])'
      BY <3>1 DEF Around, DomainAllowed
    <3> QED
      BY <3>2, <3>3
  <2> QED
    BY <2>1
<1> HIDE DEF S
<1>3. \A n \in Nat: n \in S
  BY ONLY <1>1, <1>2, NaturalInduction
<1> QED
  BY <1>3 DEF S

\* Nor nearer, as far as the links of the pages before were decided already.
LEMMA ReachStable ==
    ASSUME Typed, Typed', UNCHANGED <<seed, web>>, permitted \subseteq permitted',
           NEW N \in 0 .. MaxDepth, Reach'[0] = Reach[0],
           \A n \in 0 .. N - 1: \A p \in Reach[n]: \A u \in ToSet(web[p]):
               DomainAllowed(u) /\ u \in permitted' => u \in permitted
    PROVE  \A n \in 0 .. N: Reach'[n] = Reach[n]
<1> USE SeedCrawlerAssumption
<1>r. ReachFacts /\ ReachFacts'
  BY ReachHolds, ReachHoldsNext
<1> DEFINE S == {n \in Nat: n <= N => Reach'[n] = Reach[n]}
<1>1. 0 \in S
  OBVIOUS
<1>2. ASSUME NEW n \in Nat, n \in S PROVE n + 1 \in S
  <2>1. CASE n + 1 <= N
    <3>1. n \in 0 .. N - 1 /\ n \in 0 .. MaxDepth - 1 /\ Reach'[n] = Reach[n]
      BY <1>2, <2>1
    <3>2. Reach[n + 1] = Around(Reach[n]) /\ Reach'[n + 1] = Around(Reach[n])'
      BY <1>r, <3>1 DEF ReachFacts
    <3>3. Around(Reach[n])' \subseteq Around(Reach[n])
      BY <3>1 DEF Around, DomainAllowed
    <3>4. Around(Reach[n]) \subseteq Around(Reach[n])'
      BY <3>1 DEF Around, DomainAllowed
    <3>5. Around(Reach[n])' = Around(Reach[n])
      BY <3>3, <3>4
    <3>6. Reach'[n + 1] = Around(Reach[n])
      BY ONLY <3>2, <3>5
    <3>7. Reach'[n + 1] = Reach[n + 1]
      BY ONLY <3>2, <3>6
    <3> QED
      BY <3>7
  <2> QED
    BY <2>1
<1> HIDE DEF S
<1>3. \A n \in Nat: n \in S
  BY ONLY <1>1, <1>2, NaturalInduction
<1> QED
  BY <1>3 DEF S

\* A file arrives for a site that nothing looked at before belongs to: what has been
\* visited, and how near it is, stays as it was.
LEMMA CrawlLearns ==
    ASSUME Typed, Typed', CallInv, RobotsInv, Crawling, RobotsArrives
    PROVE  Crawling'
<1> USE SeedCrawlerAssumption
<1>1. PICK u \in Urls, allowed \in SUBSET Urls:
          /\ Waiting /\ AtHand(u)
          /\ allowed \subseteq SiteUrls(SiteOf[u])
          /\ policies' = policies \cup {SiteOf[u]}
          /\ permitted' = permitted \cup allowed
          /\ UNCHANGED <<web, seed, queue, visited, page, depth, links, found, pc>>
  BY DEF RobotsArrives, SiteUrls, pageVars
<1>2. ~Decided(u)
  BY <1>1, ArrivesUndecided
<1>3. \A v: Decided(v) /\ v \in permitted' => v \in permitted
  BY <1>1, <1>2 DEF SiteUrls, Decided
<1>4. /\ \A v: Decided(v) => Decided(v)'
      /\ permitted \subseteq permitted' /\ u \notin permitted
  BY <1>1, <1>2 DEF Decided, RobotsInv
<1>r. ReachFacts /\ ReachFacts' /\ (\A n \in 0 .. MaxDepth: Reach[n] \subseteq Reach'[n])
  BY <1>1, <1>4, ReachHolds, ReachHoldsNext, ReachGrows
<1>t. /\ queue \in Seq([url: Urls, depth: 0 .. MaxDepth]) /\ depth \in 0 .. MaxDepth
      /\ \A i \in DOMAIN queue: queue[i].depth \in 0 .. MaxDepth
  <2>1. queue \in Seq([url: Urls, depth: 0 .. MaxDepth]) /\ depth \in 0 .. MaxDepth
    BY DEF Typed, PageType
  <2> DEFINE T == [url: Urls, depth: 0 .. MaxDepth]
  <2>2. queue \in Seq(T)
    BY <2>1
  <2>3. \A e \in T: e.depth \in 0 .. MaxDepth
    OBVIOUS
  <2> HIDE DEF T
  <2>4. \A i \in DOMAIN queue: queue[i] \in T
    BY <2>2, SequenceElements
  <2> QED
    BY <2>1, <2>3, <2>4
<1>5. /\ InHand' = InHand /\ QueuedAt(depth)' = QueuedAt(depth) /\ Queued' = Queued
      /\ \A p: Taken(p)' = Taken(p)
  BY <1>1 DEF InHand, QueuedAt, Queued, Taken
<1>6. \A v: DomainAllowed(v)' <=> DomainAllowed(v)
  BY <1>1 DEF DomainAllowed
<1>7. QueueInv' /\ LinksInv'
  BY <1>1 DEF Crawling, QueueInv, LinksInv
<1>8. SoundInv'
  <2>1. visited' \subseteq Reach'[depth']
    BY <1>r, <1>t, <1>1 DEF Crawling, SoundInv
  <2>2. \A i \in DOMAIN queue':
            \/ queue'[i].depth = 0 /\ queue'[i].url = Seeds[seed']
            \/ queue'[i].url \in Reach'[queue'[i].depth]
    BY <1>r, <1>t, <1>1 DEF Crawling, SoundInv
  <2>3. pc' \in {"check", "page"} => (depth' = 0 /\ page' = Seeds[seed']) \/ page' \in Reach'[depth']
    BY <1>r, <1>t, <1>1 DEF Crawling, SoundInv
  <2> QED
    BY <2>1, <2>2, <2>3 DEF SoundInv
<1>9. CASE pc = "check"
  <2>1. page = u
    BY <1>1, <1>9 DEF AtHand, AtLink
  <2>2. depth = 0 /\ page = Seeds[seed]
    BY <1>r, <1>t, <1>4, <1>9, <2>1 DEF Crawling, SoundInv, ReachFacts
  <2>3. visited = {}
    BY <1>r, <1>4, <2>1, <2>2 DEF Crawling, SoundInv, ReachFacts
  <2>4. LayerInv'
    BY <1>r, <1>1, <1>9, <2>2 DEF LayerInv, ReachFacts, InHand
  <2>5. TakenInv'
    BY <1>1, <2>3 DEF TakenInv
  <2>6. HandInv'
    BY <1>1, <1>9 DEF Crawling, HandInv
  <2>7. FoundInv'
    <3>1. found = {} /\ \A c: ~Offered(c)'
      BY <1>1, <2>3 DEF Crawling, FoundInv, Offered
    <3> QED
      BY <1>1, <3>1 DEF FoundInv
  <2> QED
    BY <1>7, <1>8, <2>4, <2>5, <2>6, <2>7 DEF Crawling
<1>10. CASE pc = "links"
  <2>1. /\ page \in visited /\ page \in Reach[depth]
        /\ \A n \in 0 .. depth - 1: page \notin Reach[n]
    BY <1>10, PageDistance
  <2>2. Reach'[0] = Reach[0]
    BY <1>r, <1>t, <1>1, <1>4, <2>1 DEF ReachFacts
  <2>3. \A p \in visited: \A v \in Taken(p): DomainAllowed(v) => Decided(v)
    BY DEF Crawling, TakenInv
  <2>4. ASSUME NEW n \in 0 .. depth - 1, NEW p \in Reach[n], NEW v \in ToSet(web[p]),
               DomainAllowed(v), v \in permitted'
        PROVE  v \in permitted
    <3>1. p \in visited /\ p # page
      BY <2>1 DEF Crawling, LayerInv
    <3>2. v \in Taken(p)
      BY <3>1 DEF Taken
    <3> QED
      BY <1>3, <2>3, <2>4, <3>1, <3>2
  <2>5. \A n \in 0 .. depth: Reach'[n] = Reach[n]
    BY <1>t, <1>1, <1>4, <2>2, <2>4, ReachStable
  <2>6. LayerInv'
    BY <1>t, <1>1, <1>5, <2>5 DEF Crawling, LayerInv
  <2>7. TakenInv'
    <3>1. \A p \in visited': \A v \in Taken(p)': DomainAllowed(v)' => Decided(v)'
      BY <1>1, <1>4, <1>5, <1>6, <2>3
    <3>2. ASSUME NEW k \in 0 .. depth, k < MaxDepth, NEW p \in visited, p \in Reach'[k],
                 NEW v \in Taken(p), DomainAllowed(v), v \in permitted' \ Pdfs
          PROVE  v \in visited \cup Queued \cup InHand
      BY <1>3, <2>3, <2>5, <3>2 DEF Crawling, TakenInv
    <3> QED
      BY <1>1, <1>5, <1>6, <3>1, <3>2 DEF TakenInv
  <2>8. HandInv'
    <3>1. HandInv
      BY DEF Crawling
    <3>2. depth - 1 \in Int /\ 0 .. depth - 1 \subseteq 0 .. depth
      BY <1>t
    <3> QED
      BY ONLY <1>1, <1>10, <2>5, <3>1, <3>2 DEF HandInv
  <2>9. FoundInv'
    <3>1. MaxDepth > 0 => \A p \in visited: p \in Reach'[MaxDepth - 1] <=> p \in Reach[MaxDepth - 1]
      <4>1. CASE MaxDepth > 0 /\ depth <= MaxDepth - 1
        <5>1. Reach[depth] \subseteq Reach[MaxDepth - 1] /\ Reach[MaxDepth - 1] \subseteq Reach'[MaxDepth - 1]
          BY <1>r, <1>t, <4>1 DEF ReachFacts
        <5> QED
          BY <5>1 DEF Crawling, SoundInv
      <4>2. CASE depth = MaxDepth
        BY <1>t, <2>5, <4>2
      <4> QED
        BY <1>t, <4>1, <4>2
    <3>2. \A p \in visited: \A v \in Taken(p): DomainAllowed(v) => (v \in permitted' <=> v \in permitted)
      BY <1>3, <1>4, <2>3
    <3>3. \A c: Offered(c)' <=> Offered(c)
      BY <1>1, <1>5, <1>6, <3>1, <3>2 DEF Offered
    <3> QED
      BY <1>1, <3>3 DEF Crawling, FoundInv
  <2> QED
    BY <1>7, <1>8, <2>6, <2>7, <2>8, <2>9 DEF Crawling
<1> QED
  BY <1>1, <1>9, <1>10 DEF Waiting

\* Each step of the crawler.
LEMMA CrawlNext == TypeInv /\ RobotsInv /\ CrawlInv /\ [Next]_vars => CrawlInv'
<1> SUFFICES ASSUME TypeInv, RobotsInv, CrawlInv, [Next]_vars,
                    pc' \notin {"idle", "raised"}
             PROVE  Crawling'
  BY DEF CrawlInv
<1>0. Typed /\ CallInv /\ Typed'
  BY TypeNext DEF TypeInv
<1>1. pc \notin {"idle", "raised"} => Crawling
  BY DEF CrawlInv
<1>2. CASE StartSearch
  BY <1>0, <1>2, SeedCrawlerAssumption, CrawlBegins DEF StartSearch
<1>3. CASE EndSeed
  <2>1. seed < Len(Seeds) /\ BeginSeed(seed + 1)
    BY <1>3 DEF EndSeed
  <2>2. seed + 1 \in 1 .. Len(Seeds)
    BY <1>0, <2>1, SeedCrawlerAssumption DEF Typed, SearchType
  <2> QED
    BY <1>0, <2>1, <2>2, CrawlBegins
<1>4. CASE TakePage \/ SkipPage \/ RequestPage \/ PageArrives
  BY <1>0, <1>1, <1>4, CrawlTakes, CrawlSkips, CrawlRequests, CrawlArrives
  DEF TakePage, SkipPage, RequestPage, PageArrives
<1>5. CASE PageFails
  BY <1>5 DEF PageFails, FailSearch
<1>6. CASE SkipLink \/ FollowLink \/ LinksDone
  BY <1>0, <1>1, <1>6, CrawlSkipsLink, CrawlFollows, CrawlLeaves
  DEF SkipLink, FollowLink, LinksDone, AtLink
<1>7. CASE AskRobots \/ Request \/ UNCHANGED vars
  BY <1>1, <1>7, CrawlWaits DEF AskRobots, Request, vars, robotsVars, pageVars
<1>8. CASE RobotsUnavailable
  BY <1>1, <1>8, CrawlWaits DEF RobotsUnavailable, DenyAll, Waiting
<1>9. CASE RobotsArrives
  BY <1>0, <1>1, <1>9, CrawlLearns DEF RobotsArrives, Waiting
<1>10. CASE Raise
  BY <1>10 DEF Raise
<1> QED
  BY <1>2, <1>3, <1>4, <1>5, <1>6, <1>7, <1>8, <1>9, <1>10 DEF Next, Crawl, Finished

\* With nothing queued, everything within reach has been visited.
LEMMA NothingLeft ==
    ASSUME Typed, Crawling, pc = "next", queue = <<>>
    PROVE  Reach[MaxDepth] \subseteq visited
<1> USE SeedCrawlerAssumption
<1>r. ReachFacts
  BY ReachHolds
<1>t. depth \in 0 .. MaxDepth
  BY DEF Typed, PageType
<1>1. InHand = {} /\ Queued = {} /\ QueuedAt(depth) = {}
  BY DEF InHand, Queued, QueuedAt
<1> DEFINE S == {n \in Nat: n <= MaxDepth => Reach[n] \subseteq visited}
<1>2. 0 \in S
  BY <1>r, <1>t, <1>1 DEF Crawling, LayerInv, ReachFacts
<1>3. ASSUME NEW n \in Nat, n \in S PROVE n + 1 \in S
  <2> SUFFICES ASSUME n + 1 <= MaxDepth, NEW u \in Reach[n + 1], u \notin visited PROVE FALSE
    OBVIOUS
  <2>1. n \in 0 .. MaxDepth - 1 /\ Reach[n] \subseteq visited
    BY <1>3
  <2>2. u \in Around(Reach[n])
    BY <1>r, <2>1 DEF ReachFacts
  <2>3. PICK p \in Reach[n]: u \in ToSet(web[p])
    BY <2>1, <2>2 DEF Around
  <2>4. u \in permitted \ Pdfs /\ DomainAllowed(u) /\ p \in visited /\ u \in Taken(p)
    BY <2>1, <2>2, <2>3, TakenAll DEF Around
  <2>5. CASE n <= depth
    BY <1>t, <1>1, <2>1, <2>3, <2>4, <2>5 DEF Crawling, TakenInv
  <2>6. CASE n > depth
    <3>1. p \in Reach[depth] /\ depth < MaxDepth
      BY <1>t, <2>1, <2>4, <2>6 DEF Crawling, SoundInv
    <3> QED
      BY <1>t, <1>1, <2>4, <3>1 DEF Crawling, TakenInv
  <2> QED
    BY <1>t, <2>5, <2>6
<1> HIDE DEF S
<1>4. \A n \in Nat: n \in S
  BY ONLY <1>2, <1>3, NaturalInduction
<1>5. MaxDepth \in Nat
  OBVIOUS
<1> QED
  BY ONLY <1>4, <1>5 DEF S

\* Where the crawl of a seed ends, nothing within reach is left over.
LEMMA CrawlImplies == TypeInv /\ CrawlInv => CrawlIsExact
<1> SUFFICES ASSUME Typed, CrawlInv PROVE CrawlIsExact
  BY DEF TypeInv
<1> USE SeedCrawlerAssumption
<1>r. ReachFacts
  BY ReachHolds
<1>t. depth \in 0 .. MaxDepth
  BY DEF Typed, PageType
<1>1. LeastDepth
  <2> SUFFICES ASSUME pc \in {"page", "links"}
               PROVE  page \in Reach[depth] /\ \A n \in 0 .. depth - 1: page \notin Reach[n]
    BY DEF LeastDepth
  <2>1. CASE pc = "links"
    BY <2>1, PageDistance DEF CrawlInv
  <2>2. CASE pc = "page"
    <3>1. Crawling /\ page \in permitted /\ page \notin visited
      BY <2>2 DEF CrawlInv, Crawling, HandInv
    <3> QED
      BY <1>r, <2>2, <3>1 DEF Crawling, SoundInv, LayerInv, ReachFacts
  <2> QED
    BY <2>1, <2>2
<1>2. SeedIsExact
  <2> SUFFICES ASSUME Crawling, pc = "next", queue = <<>> \/ LimitReached PROVE SeedIsExact
    BY DEF SeedIsExact, CrawlInv
  <2>1. visited \subseteq Reach[MaxDepth]
    BY <1>r, <1>t DEF Crawling, SoundInv, ReachFacts
  <2>2. Cardinality(visited) \in Nat /\ Cardinality(visited) <= MaxPagesPerSeed
    BY FS_CardinalityType DEF Crawling, HandInv
  <2>3. \/ visited = Reach[MaxDepth] /\ Cardinality(visited) <= MaxPagesPerSeed
        \/ visited \subseteq Reach[MaxDepth] /\ Cardinality(visited) = MaxPagesPerSeed
    <3>1. CASE queue = <<>>
      BY <2>1, <2>2, <3>1, NothingLeft
    <3>2. CASE LimitReached
      BY <2>1, <2>2, <3>2 DEF LimitReached
    <3> QED
      BY <3>1, <3>2
  <2>4. found = {c \in Candidates:
                   /\ c.page \in visited
                   /\ c.url \in ToSet(web[c.page]) \cap permitted
                   /\ DomainAllowed(c.url)
                   /\ \/ c.url \in Pdfs \/ c.page = Seeds[seed]
                      \/ MaxDepth > 0 /\ c.page \in Reach[MaxDepth - 1]}
    BY TakenAll DEF Crawling, FoundInv, Offered
  <2> QED
    BY <2>3, <2>4 DEF SeedIsExact
<1> QED
  BY <1>1, <1>2 DEF CrawlIsExact

\* The crawl of a seed that ends by itself has visited exactly what is within reach of
\* the seed in MaxDepth links over permitted pages, and offered exactly the permitted
\* links to documents, and those of the pages that are not at the limit of depth; one
\* that MaxPagesPerSeed ended has visited that many pages and nothing out of reach. So
\* the queue without a second pass loses no page to the order in which links come up,
\* and reaches no page at a greater depth than its shortest distance.
THEOREM CrawlExact == Spec => []CrawlIsExact
<1>1. Init => CrawlInv
  BY DEF Init, CrawlInv
<1>2. TypeInv /\ RobotsInv /\ [Next]_vars => RobotsInv'
  BY RobotsNext
<1> QED
  BY <1>1, <1>2, CrawlNext, CrawlImplies, RobotsInit, TypeInvariance, PTL DEF Spec
=============================================================================
