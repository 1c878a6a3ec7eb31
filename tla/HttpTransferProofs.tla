------------------------- MODULE HttpTransferProofs -------------------------
(***************************************************************************)
(* What an http request delivers, for any URLs, redirects, bodies, chunks  *)
(* and environments.  The argument: before the body nothing has been       *)
(* opened, collected or printed; while it is read, what has come and what  *)
(* is left add up to its size, unless only the close of the connection     *)
(* ends it; and the loop counter bounds the requests, each of which was    *)
(* routed as its URL demands.                                              *)
(***************************************************************************)
EXTENDS HttpTransfer, SequenceTheorems, TLAPS

Answers == Responses \cup {Synthetic}

\* The response that is being looked at or read, and the counter's place.
InHand ==
    /\ pc \in {"received", "download", "collect"} => res \in Answers
    /\ pc \in {"resolve", "connect", "await", "received"} => i < MaxRedirects

Typed == TypeOK /\ InHand

\* Nothing is opened, collected or printed before the body.
NothingYet == file = OldFile /\ got = 0 /\ printed = 0 /\ result = "none"

Early ==
    /\ pc \in {"hop", "resolve", "connect", "await", "received"} => NothingYet
    /\ pc = "received" => left = res.size

Downloading ==
    pc = "download" =>
      /\ opts.output /\ ~opts.headerOnly /\ ~res.redirect
      /\ file.hop = i + 1 /\ (res.framing # "close" => file.len + left = res.size)
      /\ got = 0 /\ printed = 0 /\ result = "none"

Collecting ==
    pc = "collect" =>
      /\ ~opts.output /\ ~res.redirect
      /\ file = OldFile /\ (res.framing # "close" => got + left = res.size)
      /\ printed = 0 /\ result = "none"

Delivery ==
    /\ Early /\ Downloading /\ Collecting
    /\ OutputBelongsToFinal /\ WholeBodyOnSuccess
    /\ ProgressExact /\ TerminalAllOrNothing

\* The requests that may be sent under these options, with their routes.
Routed ==
    {[url |-> u, via |-> Route(env, opts.noproxy, SchemeOf[u], HostOf[u])] : u \in Urls}

Counted ==
    /\ sent \in Seq(Routed)
    /\ Len(sent) <= i + 1 /\ Len(sent) <= MaxRedirects
    /\ pc \in {"hop", "resolve", "connect"} => Len(sent) <= i

-----------------------------------------------------------------------------
(* Types *)

\* What any response has.
LEMMA AnswerFields ==
    ASSUME NEW r \in Answers
    PROVE  /\ r # NoResponse
           /\ r.size \in Nat
           /\ r.redirect /\ r.location.kind = "url" => r.location.url \in Urls
<1>1. r # NoResponse
  BY NoResponseAssumption DEF Answers
<1>2. CASE r = Synthetic
  BY <1>1, <1>2 DEF Synthetic
<1>3. CASE r \in [redirect : {TRUE}, location : Locations, ascii : BOOLEAN,
                   framing : {"length"}, size : {0}]
  <2>1. r.location \in Locations /\ r.size = 0
    BY <1>3
  <2>2. r.location.kind = "url" => r.location.url \in Urls
    BY <2>1 DEF Locations
  <2> QED
    BY <1>1, <2>1, <2>2
<1>4. CASE r \in [redirect : {FALSE}, location : {NoLocation}, ascii : BOOLEAN,
                   framing : Framings, size : Sizes]
  <2>1. ~r.redirect /\ r.size \in Sizes
    BY <1>4
  <2> QED
    BY <1>1, <2>1, HttpAssumption
<1> QED
  BY <1>2, <1>3, <1>4 DEF Answers, Responses

LEMMA TypedStep ==
    ASSUME Typed, [Next]_vars
    PROVE  Typed'
<1> USE HttpAssumption
<1> HIDE DEF Responses, Synthetic
<1>1. CASE StartHop
  BY <1>1 DEF StartHop, Typed, TypeOK, InHand, Running, Results, Answers
<1>2. CASE BuildFails
  BY <1>2 DEF BuildFails, EndWith, Typed, TypeOK, InHand, Running, Results, Answers
<1>3. CASE GiveUp
  BY <1>3 DEF GiveUp, EndWith, Typed, TypeOK, InHand, Running, Results, Answers
<1>4. CASE ResolverReturns
  BY <1>4 DEF ResolverReturns, Typed, TypeOK, InHand, Running, Results, Answers
<1>5. CASE RequestSent
  BY <1>5 DEF RequestSent, Typed, TypeOK, InHand, Running, Results, Answers
<1>6. CASE TlsShown
  BY <1>6 DEF TlsShown, Typed, TypeOK, InHand, Running, Results, Answers
<1>7. ASSUME NEW r \in Responses, Respond(r) PROVE Typed'
  <2>1. r.size \in Nat /\ r \in Answers
    BY AnswerFields DEF Answers
  <2> QED
    BY <1>7, <2>1 DEF Respond, EndWith, Typed, TypeOK, InHand, Running, Results, Answers
<1>8. CASE SendFails
  BY <1>8 DEF SendFails, EndWith, Typed, TypeOK, InHand, Running, Results, Answers
<1>9. CASE TimesOut
  BY <1>9 DEF TimesOut, EndWith, Typed, TypeOK, InHand, Running, Results, Answers
<1>10. CASE Follow
  <2>1. res \in Answers /\ res.redirect /\ res.location.kind = "url"
    BY <1>10 DEF Follow, Typed, InHand
  <2>2. res.location.url \in Urls
    BY <2>1, AnswerFields
  <2>3. i \in Nat /\ i < MaxRedirects
    BY <1>10 DEF Follow, Typed, TypeOK, InHand
  <2>4. url' \in Urls /\ i' \in 0..MaxRedirects
    BY <1>10, <2>2, <2>3 DEF Follow
  <2>5. /\ pc' = "hop" /\ res' = NoResponse /\ left' = 0 /\ open' = FALSE
        /\ UNCHANGED <<opts, env, file, got, downloaded, resolver, printed, result>>
    BY <1>10 DEF Follow
  <2> QED
    BY <2>4, <2>5 DEF Typed, TypeOK, InHand, Running, Results
<1>11. CASE RedirectFails
  BY <1>11 DEF RedirectFails, EndWith, Typed, TypeOK, InHand, Running, Results, Answers
<1>12. CASE ShowHeaders
  BY <1>12 DEF ShowHeaders, EndWith, Typed, TypeOK, InHand, Running, Results, Answers
<1>13. CASE OpenOutput
  BY <1>13 DEF OpenOutput, Typed, TypeOK, InHand, Running, Results, Answers
<1>14. CASE OpenFails
  BY <1>14 DEF OpenFails, EndWith, Typed, TypeOK, InHand, Running, Results, Answers
<1>15. CASE StartCollect
  BY <1>15 DEF StartCollect, Typed, TypeOK, InHand, Running, Results, Answers
<1>16. ASSUME NEW n \in 1..left, Chunk(n) PROVE Typed'
  <2>1. n \in Nat /\ left - n \in Nat
    BY <1>16 DEF Chunk, Typed, TypeOK
  <2>2. file.hop \in Nat /\ file.len + n \in Nat
    BY <2>1 DEF Typed, TypeOK
  <2>3. file' = [hop |-> file.hop, len |-> file.len + n]
    BY <1>16 DEF Chunk, Typed, TypeOK
  <2>4. file' \in [hop : Nat, len : Nat]
    BY <2>2, <2>3
  <2>5. downloaded + n \in Nat /\ TotalSize \in Nat
    BY <1>16, <2>1, AnswerFields DEF Chunk, Typed, TypeOK, InHand, TotalSize
  <2>6. downloaded' \in Nat
    BY <1>16, <2>5 DEF Chunk, Smaller
  <2> QED
    BY <1>16, <2>1, <2>4, <2>6 DEF Chunk, Typed, TypeOK, InHand, Running, Results, Answers
<1>17. ASSUME NEW n \in 1..left, Collect(n) PROVE Typed'
  BY <1>17 DEF Collect, Typed, TypeOK, InHand, Running, Results, Answers
<1>18. CASE DownloadEnds
  BY <1>18 DEF DownloadEnds, EndWith, Typed, TypeOK, InHand, Running, Results, Answers
<1>19. CASE CollectEnds
  BY <1>19 DEF CollectEnds, EndWith, Typed, TypeOK, InHand, Running, Results, Answers
<1>20. CASE BodyFails
  BY <1>20 DEF BodyFails, EndWith, Typed, TypeOK, InHand, Running, Results, Answers
<1>21. CASE Exit
  BY <1>21 DEF Exit, Typed, TypeOK, InHand, Running, Results, Answers
<1>22. CASE EndMark
  BY <1>22 DEF EndMark, Typed, TypeOK, InHand, Running, Results, Answers
<1>23. CASE UNCHANGED vars
  BY <1>23 DEF vars, Typed, TypeOK, InHand, Running, Results, Answers
<1> QED
  BY <1>1, <1>2, <1>3, <1>4, <1>5, <1>6, <1>7, <1>8, <1>9, <1>10, <1>11, <1>12, <1>13, <1>14, <1>15, <1>16, <1>17, <1>18, <1>19, <1>20, <1>21, <1>22, <1>23 DEF Next, Step

LEMMA TypedAlways == Spec => []Typed
<1>1. Init => Typed
  <2> SUFFICES ASSUME Init PROVE Typed
    OBVIOUS
  <2>1. url \in Urls /\ sent = << >>
    BY DEF Init
  <2>2. file \in [hop : Nat, len : Nat]
    BY DEF Init, OldFile
  <2>3. 0 \in 0..MaxRedirects
    BY HttpAssumption
  <2> QED
    BY <2>1, <2>2, <2>3, NoResponseAssumption DEF Init, Typed, TypeOK, InHand, Running, Results, OldFile
<1>2. Typed /\ [Next]_vars => Typed'
  BY TypedStep
<1> QED
  BY <1>1, <1>2, PTL DEF Spec

\* The state of a request keeps its types.
THEOREM TypeCorrect == Spec => []TypeOK
<1>1. Typed => TypeOK
  BY DEF Typed
<1> QED
  BY <1>1, TypedAlways, PTL

-----------------------------------------------------------------------------
(* Delivery *)

LEMMA DeliveryStep ==
    ASSUME Typed, Delivery, [Next]_vars
    PROVE  Delivery'
<1> USE DEF Delivery, Early, NothingYet, Downloading, Collecting, OutputBelongsToFinal,
            WholeBodyOnSuccess, ProgressExact, TerminalAllOrNothing, OldFile
<1>0. pc \in {"received", "download", "collect"} => res.size \in Nat /\ res # NoResponse
  BY AnswerFields DEF Typed, InHand
<1>1. CASE StartHop
  BY <1>1, <1>0 DEF StartHop, Typed, TypeOK, TotalSize, Smaller
<1>2. CASE BuildFails
  BY <1>2, <1>0 DEF BuildFails, EndWith, Typed, TypeOK, TotalSize, Smaller
<1>3. CASE GiveUp
  BY <1>3, <1>0 DEF GiveUp, EndWith, Typed, TypeOK, TotalSize, Smaller
<1>4. CASE ResolverReturns
  BY <1>4, <1>0 DEF ResolverReturns, Typed, TypeOK, TotalSize, Smaller
<1>5. CASE RequestSent
  BY <1>5, <1>0 DEF RequestSent, Typed, TypeOK, TotalSize, Smaller
<1>6. CASE TlsShown
  <2>1. Synthetic.size = 0 /\ ~Synthetic.redirect /\ Synthetic \in Answers
    BY DEF Synthetic, Answers
  <2> QED
    BY <1>6, <2>1 DEF TlsShown, Typed, TypeOK, TotalSize, Smaller
<1>7. ASSUME NEW r \in Responses, Respond(r) PROVE Delivery'
  BY <1>7, <1>0 DEF Respond, EndWith, Typed, TypeOK, TotalSize, Smaller
<1>8. CASE SendFails
  BY <1>8, <1>0 DEF SendFails, EndWith, Typed, TypeOK, TotalSize, Smaller
<1>9. CASE TimesOut
  BY <1>9, <1>0 DEF TimesOut, EndWith, Typed, TypeOK, TotalSize, Smaller
<1>10. CASE Follow
  BY <1>10, <1>0 DEF Follow, Typed, TypeOK, TotalSize, Smaller
<1>11. CASE RedirectFails
  BY <1>11, <1>0 DEF RedirectFails, EndWith, Typed, TypeOK, TotalSize, Smaller
<1>12. CASE ShowHeaders
  BY <1>12, <1>0 DEF ShowHeaders, EndWith, Typed, TypeOK, TotalSize, Smaller
<1>13. CASE OpenOutput
  BY <1>13, <1>0 DEF OpenOutput, Typed, TypeOK, TotalSize, Smaller
<1>14. CASE OpenFails
  BY <1>14, <1>0 DEF OpenFails, EndWith, Typed, TypeOK, TotalSize, Smaller
<1>15. CASE StartCollect
  BY <1>15, <1>0 DEF StartCollect, Typed, TypeOK, TotalSize, Smaller
<1>16. ASSUME NEW n \in 1..left, Chunk(n) PROVE Delivery'
  BY <1>16, <1>0 DEF Chunk, Typed, TypeOK, TotalSize, Smaller
<1>17. ASSUME NEW n \in 1..left, Collect(n) PROVE Delivery'
  BY <1>17, <1>0 DEF Collect, Typed, TypeOK, TotalSize, Smaller
<1>18. CASE DownloadEnds
  <2>1. file = [hop |-> file.hop, len |-> file.len] /\ file.len \in Nat
    BY DEF Typed, TypeOK
  <2>2. file.hop = i + 1 /\ left = 0 /\ res.size \in Nat
    BY <1>18, <1>0 DEF DownloadEnds, AtEnd
  <2>3. res.framing # "close" => file = [hop |-> i + 1, len |-> res.size]
    BY <1>18, <2>1, <2>2 DEF DownloadEnds
  <2>4. result' \in {"ok", "failed"}
    BY <1>18 DEF DownloadEnds, EndWith
  <2>5. UNCHANGED <<opts, i, res, file, printed>> /\ pc' = "done"
    BY <1>18 DEF DownloadEnds, EndWith
  <2>6. OutputBelongsToFinal'
    BY <1>18, <1>0, <2>2, <2>4, <2>5 DEF DownloadEnds
  <2>7. WholeBodyOnSuccess'
    BY <2>3, <2>4, <2>5
  <2> QED
    BY <1>18, <2>5, <2>6, <2>7 DEF DownloadEnds
<1>19. CASE CollectEnds
  <2>1. left = 0 /\ ~open /\ got \in Nat
    BY <1>19 DEF CollectEnds, AtEnd, Typed, TypeOK
  <2>2. res.framing # "close" => got = res.size
    BY <1>19, <1>0, <2>1 DEF CollectEnds
  <2>3. res.framing = "length" => TotalSize = res.size
    BY DEF TotalSize
  <2>4. /\ UNCHANGED <<opts, i, res, left, open, file, got>>
        /\ pc' = "done" /\ result' \in {"ok", "failed", "panicked"}
    BY <1>19 DEF CollectEnds, EndWith
  <2>5. printed' # 0 => /\ TotalSize <= PrintLimit
                        /\ printed' # got => result' \in {"failed", "panicked"}
    BY <1>19 DEF CollectEnds, EndWith
  <2>6. TerminalAllOrNothing'
    BY <2>1, <2>2, <2>3, <2>4, <2>5
  <2> QED
    BY <1>19, <2>4, <2>6 DEF CollectEnds
<1>20. CASE BodyFails
  BY <1>20, <1>0 DEF BodyFails, EndWith, Typed, TypeOK, TotalSize, Smaller
<1>21. CASE Exit
  BY <1>21, <1>0 DEF Exit, Typed, TypeOK, TotalSize, Smaller
<1>22. CASE EndMark
  BY <1>22, <1>0 DEF EndMark, Typed, TypeOK, TotalSize, Smaller
<1>23. CASE UNCHANGED vars
  BY <1>23, <1>0 DEF vars, Typed, TypeOK, TotalSize, Smaller
<1> QED
  BY <1>1, <1>2, <1>3, <1>4, <1>5, <1>6, <1>7, <1>8, <1>9, <1>10, <1>11, <1>12, <1>13, <1>14, <1>15, <1>16, <1>17, <1>18, <1>19, <1>20, <1>21, <1>22, <1>23 DEF Next, Step

LEMMA DeliveryAlways == Spec => []Delivery
<1>1. Init => Delivery
  <2> SUFFICES ASSUME Init PROVE Delivery
    OBVIOUS
  <2>1. NothingYet /\ pc = "hop"
    BY DEF Init, NothingYet
  <2> QED
    BY <2>1 DEF Delivery, Early, NothingYet, Downloading, Collecting, OutputBelongsToFinal,
                WholeBodyOnSuccess, ProgressExact, TerminalAllOrNothing
<1>2. Typed /\ Delivery /\ [Next]_vars => Delivery'
  BY DeliveryStep
<1> QED
  BY <1>1, <1>2, TypedAlways, PTL DEF Spec

\* The -o file keeps its old content until the response that it will hold.
THEOREM OutputOfFinalOnly == Spec => []OutputBelongsToFinal
<1>1. Delivery => OutputBelongsToFinal
  BY DEF Delivery
<1> QED
  BY <1>1, DeliveryAlways, PTL

\* A download that is reported as complete is complete, however it was cut
\* into chunks.
THEOREM SuccessMeansWholeBody == Spec => []WholeBodyOnSuccess
<1>1. Delivery => WholeBodyOnSuccess
  BY DEF Delivery
<1> QED
  BY <1>1, DeliveryAlways, PTL

\* The progress bar loses nothing and never passes its total.
THEOREM ProgressNeverDrifts == Spec => []ProgressExact
<1>1. Delivery => ProgressExact
  BY DEF Delivery
<1> QED
  BY <1>1, DeliveryAlways, PTL

\* The terminal is shown nothing before the whole body is in hand, nothing
\* beyond the limit, and a part only where standard output fails.
THEOREM TerminalSparedOfParts == Spec => []TerminalAllOrNothing
<1>1. Delivery => TerminalAllOrNothing
  BY DEF Delivery
<1> QED
  BY <1>1, DeliveryAlways, PTL

-----------------------------------------------------------------------------
(* Requests and their routes *)

LEMMA CountedStep ==
    ASSUME Typed, Counted, [Next]_vars
    PROVE  Counted'
<1> USE DEF Counted
<1>0. i \in Nat /\ MaxRedirects \in Nat /\ Len(sent) \in Nat
  BY HttpAssumption DEF Typed, TypeOK
<1>a. ASSUME UNCHANGED <<env, opts, sent>> PROVE sent' \in Seq(Routed') /\ Len(sent') = Len(sent)
  BY <1>a DEF Routed
<1>1. CASE StartHop
  BY <1>1, <1>0, <1>a DEF StartHop, Typed, InHand
<1>2. CASE BuildFails
  BY <1>2, <1>0, <1>a DEF BuildFails, EndWith, Typed, InHand
<1>3. CASE GiveUp
  BY <1>3, <1>0, <1>a DEF GiveUp, EndWith, Typed, InHand
<1>4. CASE ResolverReturns
  BY <1>4, <1>0, <1>a DEF ResolverReturns, Typed, InHand
<1>5. CASE RequestSent
  <2>1. [url |-> url, via |-> CurrentRoute] \in Routed
    BY DEF Routed, CurrentRoute, Typed, TypeOK
  <2>2. Routed' = Routed
    BY <1>5 DEF RequestSent, Routed
  <2>3. Len(sent') = Len(sent) + 1 /\ sent' \in Seq(Routed)
    BY <1>5, <2>1 DEF RequestSent
  <2> QED
    BY <1>5, <1>0, <2>2, <2>3 DEF RequestSent, Typed, InHand
<1>6. CASE TlsShown
  BY <1>6, <1>0, <1>a DEF TlsShown, Typed, InHand
<1>7. ASSUME NEW r \in Responses, Respond(r) PROVE Counted'
  BY <1>7, <1>0, <1>a DEF Respond, EndWith, Typed, InHand
<1>8. CASE SendFails
  BY <1>8, <1>0, <1>a DEF SendFails, EndWith, Typed, InHand
<1>9. CASE TimesOut
  BY <1>9, <1>0, <1>a DEF TimesOut, EndWith, Typed, InHand
<1>10. CASE Follow
  BY <1>10, <1>0, <1>a DEF Follow, Typed, InHand
<1>11. CASE RedirectFails
  BY <1>11, <1>0, <1>a DEF RedirectFails, EndWith, Typed, InHand
<1>12. CASE ShowHeaders
  BY <1>12, <1>0, <1>a DEF ShowHeaders, EndWith, Typed, InHand
<1>13. CASE OpenOutput
  BY <1>13, <1>0, <1>a DEF OpenOutput, Typed, InHand
<1>14. CASE OpenFails
  BY <1>14, <1>0, <1>a DEF OpenFails, EndWith, Typed, InHand
<1>15. CASE StartCollect
  BY <1>15, <1>0, <1>a DEF StartCollect, Typed, InHand
<1>16. ASSUME NEW n \in 1..left, Chunk(n) PROVE Counted'
  BY <1>16, <1>0, <1>a DEF Chunk, Typed, InHand
<1>17. ASSUME NEW n \in 1..left, Collect(n) PROVE Counted'
  BY <1>17, <1>0, <1>a DEF Collect, Typed, InHand
<1>18. CASE DownloadEnds
  BY <1>18, <1>0, <1>a DEF DownloadEnds, EndWith, Typed, InHand
<1>19. CASE CollectEnds
  BY <1>19, <1>0, <1>a DEF CollectEnds, EndWith, Typed, InHand
<1>20. CASE BodyFails
  BY <1>20, <1>0, <1>a DEF BodyFails, EndWith, Typed, InHand
<1>21. CASE Exit
  BY <1>21, <1>0, <1>a DEF Exit, Typed, InHand
<1>22. CASE EndMark
  BY <1>22, <1>0, <1>a DEF EndMark, Typed, InHand
<1>23. CASE UNCHANGED vars
  BY <1>23, <1>0, <1>a DEF vars, Typed, InHand
<1> QED
  BY <1>1, <1>2, <1>3, <1>4, <1>5, <1>6, <1>7, <1>8, <1>9, <1>10, <1>11, <1>12, <1>13, <1>14, <1>15, <1>16, <1>17, <1>18, <1>19, <1>20, <1>21, <1>22, <1>23 DEF Next, Step

LEMMA CountedAlways == Spec => []Counted
<1>1. Init => Counted
  BY HttpAssumption DEF Init, Counted
<1>2. Typed /\ Counted /\ [Next]_vars => Counted'
  BY CountedStep
<1> QED
  BY <1>1, <1>2, TypedAlways, PTL DEF Spec

\* However the server redirects, the number of requests is bounded.
THEOREM RequestsAlwaysBounded == Spec => []RequestsBounded
<1>1. Counted => RequestsBounded
  BY DEF Counted, RequestsBounded
<1> QED
  BY <1>1, CountedAlways, PTL

-----------------------------------------------------------------------------
(* NO_PROXY *)

\* FirstSet on the two names of the list: the first one that is set.
LEMMA FirstOfTwo ==
    ASSUME NEW e, NEW a, NEW b
    PROVE  /\ e[a] # Unset => FirstSet(e, << a, b >>) = e[a]
           /\ e[a] = Unset => FirstSet(e, << a, b >>) = e[b]
<1> DEFINE names == << a, b >>
           set == {k \in 1..Len(names) : e[names[k]] # Unset}
<1>1. Len(names) = 2 /\ names[1] = a /\ names[2] = b
  OBVIOUS
<1>2. CASE e[a] # Unset
  <2>1. 1 \in set /\ \A k \in set : 1 <= k
    BY <1>1, <1>2
  <2>2. (CHOOSE k \in set : \A j \in set : k <= j) = 1
    BY <2>1
  <2> QED
    BY <1>1, <1>2, <2>1, <2>2 DEF FirstSet
<1>3. CASE e[a] = Unset /\ e[b] # Unset
  <2>1. set = {2}
    BY <1>1, <1>3
  <2>2. (CHOOSE k \in set : \A j \in set : k <= j) = 2
    BY <2>1
  <2> QED
    BY <1>1, <1>3, <2>1, <2>2 DEF FirstSet
<1>4. CASE e[a] = Unset /\ e[b] = Unset
  <2>1. set = {}
    BY <1>1, <1>4
  <2> QED
    BY <1>4, <2>1 DEF FirstSet
<1> QED
  BY <1>2, <1>3, <1>4

\* The code's test of a pattern covers every host that the pattern spares.
LEMMA SparedIsCovered ==
    ASSUME NEW host \in Seq(STRING) \ {<< >>}, NEW pattern, Spared(pattern, host)
    PROVE  Covers(pattern, host)
<1> DEFINE labels == pattern.labels
<1>1. PICK n \in 0..Len(host) : SubSeq(host, n + 1, Len(host)) = labels /\ (n # 0 => pattern.dot)
  BY DEF Spared
<1>2. /\ labels \in Seq(STRING) /\ Len(labels) = Len(host) - n
      /\ \A k \in 1..Len(labels) : labels[k] = host[n + k]
  <2> DEFINE m == n + 1
             l == Len(host)
             rest == SubSeq(host, m, l)
  <2>1. m \in Int /\ l \in Int /\ n \in 0..l /\ m = n + 1 /\ \A k \in m..l : host[k] \in STRING
    OBVIOUS
  <2>2. rest = labels
    BY <1>1
  <2> HIDE DEF m, l, labels
  <2>3. /\ rest \in Seq(STRING)
        /\ Len(rest) = IF m <= l THEN l - m + 1 ELSE 0
        /\ \A k \in 1..(l - m + 1) : rest[k] = host[m + k - 1]
    BY <2>1, SubSeqProperties
  <2> HIDE DEF rest
  <2>4. Len(rest) = l - n
    BY <2>1, <2>3
  <2>5. \A k \in 1..Len(rest) : rest[k] = host[n + k]
    <3> SUFFICES ASSUME NEW k \in 1..Len(rest) PROVE rest[k] = host[n + k]
      OBVIOUS
    <3>1. k \in 1..(l - m + 1) /\ m + k - 1 = n + k
      BY <2>1, <2>4
    <3> QED
      BY <2>3, <3>1
  <2> QED
    BY <2>2, <2>3, <2>4, <2>5 DEF l
<1>3. CASE pattern.dot
  <2>1. Len(Reverse(labels)) = Len(labels) /\ Len(Reverse(host)) = Len(host)
    BY <1>2 DEF Reverse
  <2>2. \A k \in 1..Len(labels) : Reverse(labels)[k] = Reverse(host)[k]
    BY <1>2 DEF Reverse
  <2>3. Reverse(labels) \in Seq(STRING) /\ Reverse(host) \in Seq(STRING)
    BY <1>2 DEF Reverse
  <2>4. SubSeq(Reverse(labels), 1, Len(labels)) = SubSeq(Reverse(host), 1, Len(labels))
    BY <1>2, <2>1, <2>2, <2>3
  <2> QED
    BY <1>2, <1>3, <2>1, <2>4 DEF Covers, IsSuffix, IsPrefix
<1>4. CASE ~pattern.dot
  <2>0. n = 0
    BY <1>1, <1>4
  <2>1. labels = host
    <3>1. host \in Seq(STRING) /\ labels \in Seq(STRING) /\ Len(labels) = Len(host)
      BY <1>2, <2>0
    <3>2. \A k \in 1..Len(labels) : labels[k] = host[k]
      BY <1>2, <2>0
    <3> QED
      BY <3>1, <3>2, SeqEqual
  <2> QED
    BY <1>4, <2>1 DEF Covers
<1> QED
  BY <1>3, <1>4

\* No hop goes through a proxy to a host that NO_PROXY spares, whatever led
\* there, and no hop at all under --noproxy.
THEOREM BypassAlwaysHonoured == Spec => []BypassHonoured
<1>1. Typed /\ Counted => BypassHonoured
  <2> SUFFICES ASSUME Typed, Counted, NEW k \in 1..Len(sent), sent[k].via # NoProxy
               PROVE  /\ ~opts.noproxy
                      /\ \A v \in {"NO_PROXY", "no_proxy"} :
                           env[v] # Unset /\ (v = "no_proxy" => env["NO_PROXY"] = Unset)
                             => \A j \in 1..Len(env[v]) :
                                  ~Spared(env[v][j], HostOf[sent[k].url])
    BY DEF BypassHonoured
  <2>1. sent[k] \in Routed
    BY DEF Counted
  <2>2. PICK u \in Urls : sent[k] = [url |-> u, via |-> Route(env, opts.noproxy, SchemeOf[u], HostOf[u])]
    BY <2>1 DEF Routed
  <2>3. ~opts.noproxy /\ ~should_bypass_proxy(env, HostOf[u])
    BY <2>2 DEF Route
  <2> DEFINE patterns == FirstSet(env, << "NO_PROXY", "no_proxy" >>)
  <2>4. ASSUME NEW v \in {"NO_PROXY", "no_proxy"}, env[v] # Unset,
               v = "no_proxy" => env["NO_PROXY"] = Unset
        PROVE  patterns = env[v]
    <3> HIDE DEF patterns
    <3>1. /\ env["NO_PROXY"] # Unset => patterns = env["NO_PROXY"]
          /\ env["NO_PROXY"] = Unset => patterns = env["no_proxy"]
      BY FirstOfTwo DEF patterns
    <3> QED
      BY <2>4, <3>1
  <2>5. ASSUME NEW v \in {"NO_PROXY", "no_proxy"}, env[v] # Unset,
               v = "no_proxy" => env["NO_PROXY"] = Unset,
               NEW j \in 1..Len(env[v])
        PROVE  ~Spared(env[v][j], HostOf[u])
    <3>1. patterns = env[v]
      BY <2>4, <2>5
    <3>2. ~Covers(env[v][j], HostOf[u])
      BY <2>3, <2>5, <3>1 DEF should_bypass_proxy
    <3>3. HostOf[u] \in Seq(STRING) \ {<< >>}
      BY HttpAssumption
    <3> QED
      BY <3>2, <3>3, SparedIsCovered
  <2> QED
    BY <2>2, <2>3, <2>5
<1> QED
  BY <1>1, TypedAlways, CountedAlways, PTL
=============================================================================
