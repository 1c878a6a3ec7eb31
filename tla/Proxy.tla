------------------------------- MODULE Proxy -------------------------------
(***************************************************************************)
(* How one request is routed: which environment variable names the proxy,  *)
(* what its value is taken to mean, and which hosts bypass it              *)
(* (http/proxy.rs and the use_proxy lines of http/handler.rs).             *)
(*                                                                         *)
(* A host name is the sequence of its labels.  The value of a proxy        *)
(* variable is a record: its URL scheme ("none" when the value has no      *)
(* "://"), host and port.  NO_PROXY is a sequence of patterns, each the    *)
(* labels that remain once a leading dot is taken off.                     *)
(***************************************************************************)
EXTENDS Naturals, Sequences, SequencesExt

CONSTANTS
    Unset,     \* an environment variable that is not set
    NoPort,    \* a proxy value that gives no port
    NoProxy,   \* no usable proxy: the request goes straight to the host
    Numeric(_) \* a host written as an IP address

\* The variables get_proxy_from_env tries for a scheme, in its order.
ProxyVariables(scheme) ==
    IF scheme = "https"
    THEN << "HTTPS_PROXY", "https_proxy", "ALL_PROXY", "all_proxy" >>
    ELSE << "HTTP_PROXY", "http_proxy", "ALL_PROXY", "all_proxy" >>

\* The chain of or_else: the first variable that is set wins, even when its
\* value turns out to be of no use.
FirstSet(env, names) ==
    LET set == {k \in 1..Len(names) : env[names[k]] # Unset}
    IN  IF set = {} THEN Unset
        ELSE env[names[CHOOSE k \in set : \A j \in set : k <= j]]

\* url::Url::parse as this code uses it.  A value without "://" fails to parse
\* unless what stands before its first colon looks like a scheme, which a
\* host name does and an IP address does not.
UrlScheme(v) ==
    IF v.scheme # "none" THEN v.scheme
    ELSE IF v.port # NoPort /\ ~Numeric(v.host) THEN "opaque"
    ELSE "unparsable"

WithDefault(port, default) == IF port = NoPort THEN default ELSE port

\* The host:port the value stands for, or NoProxy.
ProxyAddress(v) ==
    CASE UrlScheme(v) = "http"  -> [host |-> v.host, port |-> WithDefault(v.port, 80)]
      [] UrlScheme(v) = "https" -> [host |-> v.host, port |-> WithDefault(v.port, 443)]
      [] UrlScheme(v) = "unparsable" -> [host |-> v.host, port |-> v.port]
      [] OTHER -> NoProxy

get_proxy_from_env(env, scheme) ==
    LET v == FirstSet(env, ProxyVariables(scheme))
    IN  IF v = Unset THEN NoProxy ELSE ProxyAddress(v)

\* Faulty variant: the leading dot is cut off and then forgotten.
CoversExactly(pattern, host) == pattern.labels # << >> /\ pattern.labels = host

\* One NO_PROXY pattern: ".d" covers d and everything below it, "d" only d,
\* and a blank pattern nothing.
Covers(pattern, host) ==
    IF pattern.dot THEN IsSuffix(pattern.labels, host)
    ELSE pattern.labels # << >> /\ pattern.labels = host

should_bypass_proxy(env, host) ==
    LET patterns == FirstSet(env, << "NO_PROXY", "no_proxy" >>)
    IN  patterns # Unset /\ \E k \in 1..Len(patterns) : Covers(patterns[k], host)

\* Where send_http_request or send_https_request opens its connection.
Route(env, noproxy, scheme, host) ==
    IF noproxy \/ should_bypass_proxy(env, host) THEN NoProxy
    ELSE get_proxy_from_env(env, scheme)
=============================================================================
