-------------------------- MODULE MCHttpTransfer --------------------------
(***************************************************************************)
(* Small instances of HttpTransfer: an http and an https host that redirect *)
(* to each other and to a URL of another scheme, bodies of up to three     *)
(* bytes against a print limit of two, and environments that exercise the  *)
(* precedence of the proxy variables and both kinds of NO_PROXY pattern.   *)
(***************************************************************************)
EXTENDS HttpTransfer, TLC

MCUrls == {"plain", "secure", "mail"}

MCSchemeOf == "plain" :> "http" @@ "secure" :> "https" @@ "mail" :> "other"

MCHostOf ==
    "plain" :> << "www", "corp" >> @@ "secure" :> << "shop" >> @@ "mail" :> << "corp" >>

MCNumeric(host) == host = << "127", "0", "0", "1" >>

Variables ==
    {"HTTPS_PROXY", "https_proxy", "HTTP_PROXY", "http_proxy", "ALL_PROXY",
     "all_proxy", "NO_PROXY", "no_proxy"}

Only(settings) == settings @@ [v \in Variables |-> Unset]

Value(scheme, host, port) == [scheme |-> scheme, host |-> host, port |-> port]

Local == << "127", "0", "0", "1" >>
Gate == << "gate", "corp" >>

Dotted(labels) == [dot |-> TRUE, labels |-> labels]
Exact(labels) == [dot |-> FALSE, labels |-> labels]

\* Nothing set; one proxy for everything and a spared domain; a proxy per
\* scheme, of which one is unsupported and shadows ALL_PROXY; name:port.
MCEnvironments ==
    { Only(<< >>),
      Only("ALL_PROXY" :> Value("http", Gate, NoPort)
           @@ "NO_PROXY" :> << Exact(<< >>), Dotted(<< "corp" >>) >>),
      Only("http_proxy" :> Value("none", Local, 7890)
           @@ "HTTPS_PROXY" :> Value("socks5", Local, 1080)
           @@ "ALL_PROXY" :> Value("https", Gate, NoPort)
           @@ "no_proxy" :> << Exact(<< "corp" >>) >>),
      Only("ALL_PROXY" :> Value("none", Gate, 8080)) }

Plain ==
    [noproxy |-> FALSE, headerOnly |-> FALSE, output |-> FALSE,
     tlsInfo |-> FALSE, verbose |-> FALSE]

MCOptionSets ==
    { Plain,
      [Plain EXCEPT !.output = TRUE],
      [Plain EXCEPT !.headerOnly = TRUE, !.output = TRUE],
      [Plain EXCEPT !.tlsInfo = TRUE, !.output = TRUE],
      [Plain EXCEPT !.noproxy = TRUE, !.verbose = TRUE] }

PlainOnly == { Plain }
===========================================================================
