---------------------------- MODULE HttpTransfer ----------------------------
(***************************************************************************)
(* One HTTP request of rcurl (http/handler.rs): the redirect loop, the     *)
(* connection of every hop and its 30 second timeout, and the delivery of  *)
(* the final response to the -o file or to the terminal.                   *)
(*                                                                         *)
(* The name resolver, the network, the server and the disk are the         *)
(* environment.  A body is a number of bytes; what matters is how many     *)
(* arrive, and which response they belong to.                              *)
(***************************************************************************)
EXTENDS Proxy

CONSTANTS
    Urls,          \* absolute URLs
    SchemeOf,      \* [Urls -> scheme]
    HostOf,        \* [Urls -> labels of the host]
    MaxRedirects,  \* MAX_REDIRECTS
    PrintLimit,    \* 1024 * 1024 * 100 bytes
    Environments,  \* what the process environment may hold
    OptionSets,    \* the command lines of interest
    Sizes,         \* how long a response body may be
    NoResponse

ASSUME HttpAssumption ==
    /\ MaxRedirects \in Nat
    /\ PrintLimit \in Nat
    /\ Sizes \subseteq Nat
    /\ SchemeOf \in [Urls -> {"http", "https", "other"}]
    /\ DOMAIN HostOf = Urls
    /\ \A u \in Urls : HostOf[u] \in Seq(STRING) \ {<< >>}

\* How the end of a body is known: by Content-Length, by the last chunk
\* (with or without trailers), or only by the connection closing.
Framings == {"length", "chunked", "trailers", "close"}

\* The Location header of a redirect: a URL (already joined to current_url),
\* absent, or something that is not ASCII or cannot be joined.
Locations == [kind : {"url"}, url : Urls] \cup [kind : {"missing", "invalid"}]

NoLocation == [kind |-> "missing"]

\* The body of a redirect is never read, so it has no size here; the Location
\* header of any other response is never looked at.
Responses ==
    [redirect : {TRUE}, location : Locations, ascii : BOOLEAN,
     framing : {"length"}, size : {0}]
    \cup
    [redirect : {FALSE}, location : {NoLocation}, ascii : BOOLEAN,
     framing : Framings, size : Sizes]

\* What send_https_request returns in place of a response after --tls-info.
Synthetic ==
    [redirect |-> FALSE, location |-> NoLocation, ascii |-> TRUE,
     framing |-> "chunked", size |-> 0]

ASSUME NoResponseAssumption == NoResponse \notin Responses \cup {Synthetic}

VARIABLES
    opts,       \* the parsed command line (cli)
    env,        \* the environment variables
    pc,         \* where the task is
    url,        \* current_url
    i,          \* the loop counter
    res,        \* the response in hand, or NoResponse
    left,       \* bytes of its body that are still to come
    open,       \* and so is its end mark
    file,       \* the -o file: which hop's body it holds, and how much of it
    got,        \* bytes collected for the terminal
    downloaded, \* the position of the progress bar
    resolver,   \* a getaddrinfo call is running on the blocking pool
    printed,    \* bytes printed on the terminal
    sent,       \* ghost: the requests put on the wire, with their routes
    result      \* "none" while running, then how the request ended

vars == <<opts, env, pc, url, i, res, left, open, file, got, downloaded, resolver,
          printed, sent, result>>

Running == {"hop", "resolve", "connect", "await", "received", "download", "collect"}

Results == {"none", "ok", "exceeded", "timeout", "failed", "panicked"}

OldFile == [hop |-> 0, len |-> 0]

TypeOK ==
    /\ opts \in OptionSets
    /\ env \in Environments
    /\ pc \in Running \cup {"done", "exited"}
    /\ url \in Urls
    /\ i \in 0..MaxRedirects
    /\ res \in Responses \cup {NoResponse, Synthetic}
    /\ left \in Nat
    /\ open \in BOOLEAN
    /\ file \in [hop : Nat, len : Nat]
    /\ got \in Nat
    /\ downloaded \in Nat
    /\ resolver \in BOOLEAN
    /\ printed \in Nat
    /\ result \in Results

Init ==
    /\ opts \in OptionSets
    /\ env \in Environments
    /\ pc = "hop"
    /\ url \in {u \in Urls : SchemeOf[u] # "other"}
    /\ i = 0
    /\ res = NoResponse
    /\ left = 0
    /\ open = FALSE
    /\ file = OldFile
    /\ got = 0
    /\ downloaded = 0
    /\ resolver = FALSE
    /\ printed = 0
    /\ sent = << >>
    /\ result = "none"

\* Every error of the task takes this way out: the ? operator returns it.
EndWith(r) ==
    /\ pc' = "done"
    /\ result' = r

-----------------------------------------------------------------------------
(* The redirect loop *)

\* --tls-info and its relatives replace the request of an https hop.
ShowsTls == opts.tlsInfo /\ SchemeOf[url] = "https"

CurrentRoute == Route(env, opts.noproxy, SchemeOf[url], HostOf[url])

\* Faulty variant: the loop bound is off by one.
StartHopOneMore ==
    /\ pc = "hop"
    /\ i <= MaxRedirects
    /\ pc' = "resolve"
    /\ resolver' = TRUE
    /\ UNCHANGED <<opts, env, url, i, res, left, open, file, got, downloaded, printed, sent, result>>

\* Top of the loop body: the URL becomes a Uri, build_request succeeds and
\* send_request starts by resolving a name (the proxy's or the host's).
StartHop ==
    /\ pc = "hop"
    /\ i < MaxRedirects
    /\ pc' = "resolve"
    /\ resolver' = TRUE
    /\ UNCHANGED <<opts, env, url, i, res, left, open, file, got, downloaded, printed, sent, result>>

\* The Uri does not parse, or build_request rejects a header or form field or
\* cannot read the file to upload, which may disappear between two hops.
BuildFails ==
    /\ pc = "hop"
    /\ i < MaxRedirects
    /\ EndWith("failed")
    /\ UNCHANGED <<opts, env, url, i, res, left, open, file, got, downloaded, resolver, printed, sent>>

\* The for loop is exhausted.
GiveUp ==
    /\ pc = "hop"
    /\ i = MaxRedirects
    /\ EndWith("exceeded")
    /\ UNCHANGED <<opts, env, url, i, res, left, open, file, got, downloaded, resolver, printed, sent>>

-----------------------------------------------------------------------------
(* send_request: everything below runs under timeout(30 s) *)

\* The resolver answers.  A late answer finds the task gone.
ResolverReturns ==
    /\ resolver
    /\ resolver' = FALSE
    /\ pc' = IF pc = "resolve" THEN "connect" ELSE pc
    /\ UNCHANGED <<opts, env, url, i, res, left, open, file, got, downloaded, printed, sent, result>>

\* The connection is up (TCP, CONNECT through a proxy for https, TLS) and the
\* request is written.  HttpConnector refuses other schemes on a direct route.
RequestSent ==
    /\ pc = "connect"
    /\ ~ShowsTls
    /\ SchemeOf[url] = "other" => CurrentRoute # NoProxy
    /\ sent' = Append(sent, [url |-> url, via |-> CurrentRoute])
    /\ pc' = "await"
    /\ UNCHANGED <<opts, env, url, i, res, left, open, file, got, downloaded, resolver, printed, result>>

\* get_tls_info shook hands and its output is printed; no HTTP request.
TlsShown ==
    /\ pc = "connect"
    /\ ShowsTls
    /\ res' = Synthetic
    /\ left' = 0
    /\ open' = FALSE
    /\ pc' = "received"
    /\ UNCHANGED <<opts, env, url, i, file, got, downloaded, resolver, printed, sent, result>>

\* Response headers arrive.  With -v every header value must be ASCII.
Respond(r) ==
    /\ pc = "await"
    /\ \/ /\ opts.verbose => r.ascii
          /\ pc' = "received"
          /\ result' = result
       \/ /\ opts.verbose /\ ~r.ascii
          /\ EndWith("failed")
    /\ res' = r
    /\ left' = r.size
    /\ open' = (r.framing # "length")
    /\ UNCHANGED <<opts, env, url, i, file, got, downloaded, resolver, printed, sent>>

\* Resolution, connection, proxy, certificate or protocol failure.
SendFails ==
    /\ pc \in {"connect", "await"}
    /\ EndWith("failed")
    /\ UNCHANGED <<opts, env, url, i, res, left, open, file, got, downloaded, resolver, printed, sent>>

\* Faulty variant: the timeout covers the connection but not the answer.
TimesOutConnecting ==
    /\ \/ pc = "connect"
       \/ pc = "resolve" /\ ~ShowsTls
    /\ EndWith("timeout")
    /\ UNCHANGED <<opts, env, url, i, res, left, open, file, got, downloaded, resolver, printed, sent>>

\* tokio's timer drops the future.  It cannot run while get_tls_info blocks the
\* task's thread in to_socket_addrs.
TimesOut ==
    /\ \/ pc \in {"connect", "await"}
       \/ pc = "resolve" /\ ~ShowsTls
    /\ EndWith("timeout")
    /\ UNCHANGED <<opts, env, url, i, res, left, open, file, got, downloaded, resolver, printed, sent>>

-----------------------------------------------------------------------------
(* The response *)

\* A redirect with a usable Location header, resolved against current_url.
Follow ==
    /\ pc = "received"
    /\ res.redirect
    /\ res.location.kind = "url"
    /\ url' = res.location.url
    /\ i' = i + 1
    /\ pc' = "hop"
    /\ res' = NoResponse
    /\ left' = 0
    /\ open' = FALSE
    /\ UNCHANGED <<opts, env, file, got, downloaded, resolver, printed, sent, result>>

\* No Location header (304 included), or one that is not ASCII or not a URL.
RedirectFails ==
    /\ pc = "received"
    /\ res.redirect
    /\ res.location.kind # "url"
    /\ EndWith("failed")
    /\ UNCHANGED <<opts, env, url, i, res, left, open, file, got, downloaded, resolver, printed, sent>>

\* handle_response with -I: print the headers, never touch the body.
ShowHeaders ==
    /\ pc = "received"
    /\ ~res.redirect
    /\ opts.headerOnly
    /\ EndWith(IF res.ascii THEN "ok" ELSE "failed")
    /\ UNCHANGED <<opts, env, url, i, res, left, open, file, got, downloaded, resolver, printed, sent>>

\* Faulty variant: the file is opened before the status is looked at.
OpenOutputEarly ==
    /\ pc = "received"
    /\ ~opts.headerOnly
    /\ opts.output
    /\ pc' = "download"
    /\ file' = [hop |-> i + 1, len |-> 0]
    /\ downloaded' = 0
    /\ UNCHANGED <<opts, env, url, i, res, left, open, got, resolver, printed, sent, result>>

\* handle_response with -o: download_file_with_progress opens and truncates.
OpenOutput ==
    /\ pc = "received"
    /\ ~res.redirect
    /\ ~opts.headerOnly
    /\ opts.output
    /\ pc' = "download"
    /\ file' = [hop |-> i + 1, len |-> 0]
    /\ downloaded' = 0
    /\ UNCHANGED <<opts, env, url, i, res, left, open, got, resolver, printed, sent, result>>

OpenFails ==
    /\ pc = "received"
    /\ ~res.redirect
    /\ ~opts.headerOnly
    /\ opts.output
    /\ EndWith("failed")
    /\ UNCHANGED <<opts, env, url, i, res, left, open, file, got, downloaded, resolver, printed, sent>>

\* handle_response without -o: incoming.collect().
StartCollect ==
    /\ pc = "received"
    /\ ~res.redirect
    /\ ~opts.headerOnly
    /\ ~opts.output
    /\ pc' = "collect"
    /\ UNCHANGED <<opts, env, url, i, res, left, open, file, got, downloaded, resolver, printed, sent, result>>

-----------------------------------------------------------------------------
(* The body.  No timeout covers these steps. *)

\* content_length of download_file_with_progress: 0 when there is no header.
TotalSize == IF res.framing = "length" THEN res.size ELSE 0

Smaller(a, b) == IF a <= b THEN a ELSE b

\* Faulty variant: the position is not carried from chunk to chunk.
ChunkForgets(n) ==
    /\ pc = "download"
    /\ n <= left
    /\ left' = left - n
    /\ file' = [file EXCEPT !.len = @ + n]
    /\ downloaded' = Smaller(n, TotalSize)
    /\ UNCHANGED <<opts, env, pc, url, i, res, open, got, resolver, printed, sent, result>>

\* A data frame is appended to the file and the progress bar moves.
Chunk(n) ==
    /\ pc = "download"
    /\ n <= left
    /\ left' = left - n
    /\ file' = [file EXCEPT !.len = @ + n]
    /\ downloaded' = Smaller(downloaded + n, TotalSize)
    /\ UNCHANGED <<opts, env, pc, url, i, res, open, got, resolver, printed, sent, result>>

\* A data frame is added to the body in memory.
Collect(n) ==
    /\ pc = "collect"
    /\ n <= left
    /\ left' = left - n
    /\ got' = got + n
    /\ UNCHANGED <<opts, env, pc, url, i, res, open, file, downloaded, resolver, printed, sent, result>>

\* The server sends what ends a body other than its length: the last chunk
\* after all the others, or the close of the connection, whatever has come.
EndMark ==
    /\ pc \in {"download", "collect"}
    /\ open
    /\ left = 0 \/ res.framing = "close"
    /\ open' = FALSE
    /\ left' = 0
    /\ UNCHANGED <<opts, env, pc, url, i, res, file, got, downloaded, resolver, printed, sent, result>>

\* Faulty variant: a chunked body may end where the connection does.
AtEndOrClosed == (left = 0 /\ ~open) \/ res.framing = "chunked"

\* The stream reports its end.
AtEnd == left = 0 /\ ~open

\* body_stream.next() is None.  A trailers frame comes before that and
\* into_data turns it into an error.
DownloadEnds ==
    /\ pc = "download"
    /\ AtEnd
    /\ EndWith(IF res.framing = "trailers" THEN "failed" ELSE "ok")
    /\ UNCHANGED <<opts, env, url, i, res, left, open, file, got, downloaded, resolver, printed, sent>>

\* Faulty variant: the announced length is not checked.
CollectEndsUnchecked ==
    /\ pc = "collect"
    /\ AtEnd
    /\ EndWith("ok")
    /\ printed' \in {0, got}
    /\ UNCHANGED <<opts, env, url, i, res, left, open, file, got, downloaded, resolver, sent>>

\* collect() is done: the length check, then the UTF-8 check, then print! and
\* flush.  Bytes that are not UTF-8 cost a warning, and the request still
\* succeeds.  When standard output fails, print! panics or flush returns the
\* error, and any part of the body may have been shown by then.
CollectEnds ==
    /\ pc = "collect"
    /\ AtEnd
    /\ \/ /\ TotalSize > PrintLimit
          /\ EndWith("failed")
          /\ printed' = printed
       \/ /\ TotalSize <= PrintLimit
          /\ EndWith("ok")
          /\ printed' \in {0, got}
       \/ /\ TotalSize <= PrintLimit
          /\ EndWith("failed") \/ EndWith("panicked")
          /\ printed' \in 0..got
    /\ UNCHANGED <<opts, env, url, i, res, left, open, file, got, downloaded, resolver, sent>>

\* The stream breaks while bytes or the end mark are outstanding, or the disk
\* refuses a chunk that has been taken off the stream.
BodyFails ==
    /\ pc \in {"download", "collect"}
    /\ left > 0 \/ open
    /\ EndWith("failed")
    /\ UNCHANGED <<opts, env, url, i, res, left, open, file, got, downloaded, resolver, printed, sent>>

\* main returns.  Dropping the tokio runtime waits for the blocking pool.
Exit ==
    /\ pc = "done"
    /\ ~resolver
    /\ pc' = "exited"
    /\ UNCHANGED <<opts, env, url, i, res, left, open, file, got, downloaded, resolver, printed, sent, result>>

-----------------------------------------------------------------------------

\* What rcurl does without waiting for anyone.
Step ==
    \/ StartHop
    \/ GiveUp
    \/ Follow
    \/ RedirectFails
    \/ ShowHeaders
    \/ OpenOutput
    \/ StartCollect
    \/ Exit

Next ==
    \/ Step
    \/ BuildFails
    \/ ResolverReturns
    \/ RequestSent
    \/ TlsShown
    \/ \E r \in Responses : Respond(r)
    \/ SendFails
    \/ TimesOut
    \/ OpenFails
    \/ \E n \in 1..left : Chunk(n) \/ Collect(n)
    \/ EndMark
    \/ DownloadEnds
    \/ CollectEnds
    \/ BodyFails

Spec == Init /\ [][Next]_vars

\* rcurl's own steps happen, the end of a body is noticed once its bytes and
\* its end mark have come, the resolver gives up at the latest after its own
\* timeout, and the 30 second timer fires.  Nothing is assumed of the server
\* and the network, which owe neither bytes nor the end mark.
FairSpec ==
    /\ Spec
    /\ WF_vars(Step)
    /\ WF_vars(DownloadEnds \/ CollectEnds)
    /\ WF_vars(ResolverReturns)
    /\ WF_vars(TimesOut)

-----------------------------------------------------------------------------
(* Properties *)

\* The -o file keeps its old content through every redirect, timeout and
\* refused hop; once it is truncated it belongs to the final response.
OutputBelongsToFinal ==
    file # OldFile =>
      /\ res # NoResponse /\ ~res.redirect
      /\ file.hop = i + 1
      /\ result \notin {"timeout", "exceeded"}

\* When rcurl -o reports success, the file holds every byte of the final
\* response, whatever the chunks were.  (A body that ends with the connection
\* cannot be told from a truncated one.)
WholeBodyOnSuccess ==
    result = "ok" /\ opts.output /\ ~opts.headerOnly /\ res.framing # "close"
      => file = [hop |-> i + 1, len |-> res.size]

\* The progress bar shows what has been written, and never more than the
\* total it was created with: min() loses nothing as chunks accumulate.
ProgressExact ==
    pc = "download" => downloaded = Smaller(file.len, TotalSize)

\* Nothing is printed before the whole body is in hand, and nothing of a body
\* that announced more than 100 MB: a broken stream leaves no part of it on the
\* terminal.  A request that succeeds has shown all of the body or, where it is
\* not text, nothing; only a failing standard output leaves a part.  (A body
\* that ends with the connection may have been cut short by the server.)
TerminalAllOrNothing ==
    printed # 0 =>
      /\ left = 0 /\ ~open
      /\ res.framing # "close" => got = res.size
      /\ res.framing = "length" => res.size <= PrintLimit
      /\ printed # got => result \in {"failed", "panicked"}

\* However the server redirects, at most MAX_REDIRECTS requests are sent, and
\* every one but the last was answered with a redirect.
RequestsBounded ==
    /\ Len(sent) <= MaxRedirects
    /\ result = "ok" => Len(sent) <= i + 1

\* The domains a NO_PROXY list spares: d itself, and with a leading dot
\* everything below it.
Spared(pattern, host) ==
    \E n \in 0..Len(host) :
      /\ SubSeq(host, n + 1, Len(host)) = pattern.labels
      /\ n # 0 => pattern.dot

\* No hop, however a redirect led there, goes through a proxy to a host that
\* NO_PROXY spares, nor any hop at all under --noproxy.
BypassHonoured ==
    \A k \in 1..Len(sent) :
      sent[k].via # NoProxy =>
        /\ ~opts.noproxy
        /\ \A v \in {"NO_PROXY", "no_proxy"} :
             env[v] # Unset /\ (v = "no_proxy" => env["NO_PROXY"] = Unset)
               => \A j \in 1..Len(env[v]) : ~Spared(env[v][j], HostOf[sent[k].url])

\* The only thing that can hold rcurl for ever is a server that has sent the
\* headers and then withholds the rest: bytes of the body, or its end mark.  A
\* silent resolver, proxy or server before that, a redirect loop and a resolver
\* call that outlives the timeout and delays the runtime's shutdown all end.
OnlyTheBodyStalls ==
    <>[](pc = "exited" \/ (pc \in {"download", "collect"} /\ (left > 0 \/ open)))

\* "Exceeded maximum number of redirects (MAX_REDIRECTS)": the error is
\* reported only after that many redirects have been followed.
ExceededAfterMaximum ==
    result = "exceeded" => Len(sent) - 1 >= MaxRedirects
=============================================================================
