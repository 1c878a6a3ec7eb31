------------------------------- MODULE Timing -------------------------------
(***************************************************************************)
(* The figures of --time (http/timing.rs, and the places of                *)
(* http/handler.rs that fill them in).  One RequestTimings lives through   *)
(* all hops of a request.  A direct hop overwrites some of its fields with *)
(* instants derived from how long the hop took; a hop through a proxy      *)
(* leaves most of them as the hop before left them.                        *)
(*                                                                         *)
(* Time is in milliseconds since start_total.  The final Total is taken    *)
(* when the headers of the last response are there.                        *)
(***************************************************************************)
EXTENDS Integers

CONSTANTS
    Durations,  \* how long one hop may take until its headers are there
    MaxHops,    \* MAX_REDIRECTS
    None        \* an instant that was never recorded

ASSUME TimingAssumption ==
    /\ Durations \subseteq Nat
    /\ MaxHops \in Nat
    /\ None \notin Nat

\* Duration::from_millis of the two direct routes.
HttpsDns == 20
HttpDns == 15

VARIABLES
    now,      \* the clock
    hops,     \* hops so far
    dns,      \* [start, end] of the three phases
    tcp,
    tls,
    total,    \* total_duration, or None until the request is done
    slow,     \* ghost: every direct hop took at least its DNS estimate
    tunnelled \* ghost: an https hop went through a proxy

vars == <<now, hops, dns, tcp, tls, total, slow, tunnelled>>

Spans == [start : Nat \cup {None}, end : Nat \cup {None}]

Unknown == [start |-> None, end |-> None]

TypeOK ==
    /\ now \in Nat
    /\ hops \in 0..MaxHops
    /\ dns \in Spans /\ tcp \in Spans /\ tls \in Spans
    /\ total \in Nat \cup {None}
    /\ slow \in BOOLEAN
    /\ tunnelled \in BOOLEAN

\* RequestTimings::new and start_total.
Init ==
    /\ now = 0
    /\ hops = 0
    /\ dns = Unknown /\ tcp = Unknown /\ tls = Unknown
    /\ total = None
    /\ slow = TRUE
    /\ tunnelled = FALSE

Span(from, to) == [start |-> from, end |-> to]

\* Duration::saturating_sub, and Instant::duration_since
Minus(a, b) == IF a >= b THEN a - b ELSE 0

\* Faulty variant: the loop makes one request too many.
HopOneMore(d) ==
    /\ total = None
    /\ hops <= MaxHops
    /\ hops' = hops + 1
    /\ now' = now + d

\* A hop of d milliseconds begins and ends.
Hop(d) ==
    /\ total = None
    /\ hops < MaxHops
    /\ hops' = hops + 1
    /\ now' = now + d

\* Faulty variant: the halves of the handshake overlap.
DirectHttpsOverlapping(d) ==
    /\ Hop(d)
    /\ LET rest == Minus(d, HttpsDns)
       IN  /\ dns' = Span(now, now + HttpsDns)
           /\ tcp' = Span(now + HttpsDns, now + HttpsDns + rest)
           /\ tls' = Span(now + HttpsDns + rest \div 2, now + d)
    /\ slow' = (slow /\ d >= HttpsDns)
    /\ UNCHANGED <<total, tunnelled>>

\* send_https_request without a proxy: the time beyond the estimate is split
\* into halves for TCP and TLS.
DirectHttps(d) ==
    /\ Hop(d)
    /\ LET rest == Minus(d, HttpsDns)
           half == now + HttpsDns + rest \div 2
       IN  /\ dns' = Span(now, now + HttpsDns)
           /\ tcp' = Span(now + HttpsDns, half)
           /\ tls' = Span(half, now + d)
    /\ slow' = (slow /\ d >= HttpsDns)
    /\ UNCHANGED <<total, tunnelled>>

\* send_http_request without a proxy: the TLS fields are not touched.
DirectHttp(d) ==
    /\ Hop(d)
    /\ dns' = Span(now, now + HttpDns)
    /\ tcp' = Span(now + HttpDns, now + d)
    /\ slow' = (slow /\ d >= HttpDns)
    /\ UNCHANGED <<tls, total, tunnelled>>

\* send_https_request through a proxy: only end_tls.
ProxiedHttps(d) ==
    /\ Hop(d)
    /\ tls' = [tls EXCEPT !.end = now + d]
    /\ tunnelled' = TRUE
    /\ UNCHANGED <<dns, tcp, total, slow>>

\* send_http_request through a proxy, and every --tls-info hop: nothing.
UntimedHop(d) ==
    /\ Hop(d)
    /\ UNCHANGED <<dns, tcp, tls, total, slow, tunnelled>>

\* handle_response: end_total, and the figures are printed.
EndTotal ==
    /\ total = None
    /\ hops > 0
    /\ total' = now
    /\ UNCHANGED <<now, hops, dns, tcp, tls, slow, tunnelled>>

Next ==
    \/ \E d \in Durations :
         DirectHttps(d) \/ DirectHttp(d) \/ ProxiedHttps(d) \/ UntimedHop(d)
    \/ EndTotal

Spec == Init /\ [][Next]_vars

-----------------------------------------------------------------------------

\* The figure printed for a phase: duration_since saturates, and a phase
\* without a start or an end is "N/A", which takes no part in a sum.
Shown(span) ==
    IF span.start = None \/ span.end = None THEN 0 ELSE Minus(span.end, span.start)

SumOfPhases == Shown(dns) + Shown(tcp) + Shown(tls)

\* No phase is longer than the whole, and the phases of directly connected
\* hops do not overlap, although fields of earlier hops survive redirects.
\* This needs every direct hop to take at least the DNS time it is charged.
PhasesConsistent ==
    total # None /\ slow =>
      /\ Shown(dns) <= total /\ Shown(tcp) <= total /\ Shown(tls) <= total
      /\ ~tunnelled => SumOfPhases <= total

\* "Detailed timing breakdown": the phases are parts of the total, at least
\* when no hop was faster than its DNS estimate.
BreakdownOfSlowRequest == total # None /\ slow => SumOfPhases <= total
=============================================================================
