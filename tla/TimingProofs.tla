---------------------------- MODULE TimingProofs ----------------------------
(***************************************************************************)
(* The figures of --time are consistent for requests of any length with    *)
(* hops of any duration.  The argument: while every direct hop is slow,    *)
(* the recorded instants lie in the past in the order of the phases, and   *)
(* the TLS span of a request without tunnels comes wholly after the TCP    *)
(* span (same hop) or wholly before the DNS span (an earlier hop).         *)
(***************************************************************************)
EXTENDS Timing, TLAPS

\* Once printed, the total is the clock.
TotalIsNow == total # None => total = now

\* DNS and TCP are recorded together, and follow each other.
ConnectOrdered ==
    \/ dns = Unknown /\ tcp = Unknown
    \/ /\ dns.start \in Nat /\ dns.end \in Nat /\ tcp.start \in Nat /\ tcp.end \in Nat
       /\ dns.start <= dns.end /\ dns.end = tcp.start
       /\ tcp.start <= tcp.end /\ tcp.end <= now

\* A TLS span either has no start or lies in the past.
TlsOrdered ==
    \/ tls.start = None
    \/ /\ tls.start \in Nat /\ tls.end \in Nat
       /\ tls.start <= tls.end /\ tls.end <= now

\* Without a tunnel the TLS span does not overlap the other two.
TlsApart ==
    tls.start # None /\ ~tunnelled =>
      dns.start \in Nat /\ (tcp.end <= tls.start \/ tls.end <= dns.start)

Consistent == slow => ConnectOrdered /\ TlsOrdered /\ TlsApart

Inv == TypeOK /\ TotalIsNow /\ Consistent

-----------------------------------------------------------------------------

\* Half of a duration is a duration, and no longer than the whole.
LEMMA Half ==
    ASSUME NEW n \in Nat
    PROVE  n \div 2 \in Nat /\ n \div 2 <= n
  BY SMT

\* Instants that were never recorded.
LEMMA UnknownIsSpan == Unknown \in Spans
<1>1. None \in Nat \cup {None}
  OBVIOUS
<1> QED
  BY <1>1 DEF Unknown, Spans

\* A fresh RequestTimings is well typed.
LEMMA TypeInit == Init => TypeOK
<1> SUFFICES ASSUME Init PROVE TypeOK
  OBVIOUS
<1>1. 0 \in Nat /\ 0 \in 0..MaxHops
  BY TimingAssumption
<1>2. dns \in Spans /\ tcp \in Spans /\ tls \in Spans
  BY UnknownIsSpan DEF Init
<1> QED
  BY <1>1, <1>2 DEF Init, TypeOK

\* The fields keep their types.
THEOREM TypeCorrect == Spec => []TypeOK
<1>1. Init => TypeOK
  BY TypeInit
<1>2. TypeOK /\ [Next]_vars => TypeOK'
  <2> SUFFICES ASSUME TypeOK, [Next]_vars PROVE TypeOK'
    OBVIOUS
  <2> USE TimingAssumption
  <2>1. ASSUME NEW d \in Durations, DirectHttps(d) PROVE TypeOK'
    <3> DEFINE rest == Minus(d, HttpsDns)
    <3>1. d \in Nat /\ now \in Nat /\ HttpsDns \in Nat
      BY DEF TypeOK, HttpsDns
    <3>2. rest \in Nat
      BY <3>1 DEF Minus
    <3>3. rest \div 2 \in Nat
      BY <3>2, Half
    <3>4. now + HttpsDns \in Nat /\ now + HttpsDns + rest \div 2 \in Nat /\ now + d \in Nat
      BY <3>1, <3>3
    <3>5. dns' \in Spans /\ tcp' \in Spans /\ tls' \in Spans
      BY <2>1, <3>1, <3>4 DEF DirectHttps, Span, Spans
    <3> QED
      BY <2>1, <3>1, <3>4, <3>5 DEF DirectHttps, Hop, TypeOK
  <2>2. ASSUME NEW d \in Durations, DirectHttp(d) PROVE TypeOK'
    BY <2>2 DEF DirectHttp, Hop, TypeOK, Span, Spans, HttpDns
  <2>3. ASSUME NEW d \in Durations, ProxiedHttps(d) PROVE TypeOK'
    BY <2>3 DEF ProxiedHttps, Hop, TypeOK, Spans
  <2>4. ASSUME NEW d \in Durations, UntimedHop(d) PROVE TypeOK'
    BY <2>4 DEF UntimedHop, Hop, TypeOK
  <2>5. CASE EndTotal
    BY <2>5 DEF EndTotal, TypeOK
  <2>6. CASE UNCHANGED vars
    BY <2>6 DEF vars, TypeOK
  <2> QED
    BY <2>1, <2>2, <2>3, <2>4, <2>5, <2>6 DEF Next
<1> QED
  BY <1>1, <1>2, PTL DEF Spec

-----------------------------------------------------------------------------

\* The invariant holds before the first hop ...
LEMMA InvInit == Init => Inv
<1> SUFFICES ASSUME Init PROVE Inv
  OBVIOUS
<1>1. TypeOK
  BY TypeInit
<1>2. tls.start = None
  BY DEF Init, Unknown
<1> QED
  BY <1>1, <1>2 DEF Init, Inv, TotalIsNow, Consistent, ConnectOrdered, TlsOrdered, TlsApart

\* ... is kept by every hop ...
LEMMA InvStep ==
    ASSUME Inv, TypeOK', [Next]_vars
    PROVE  Inv'
<1> USE TimingAssumption DEF Inv, TotalIsNow
<1> now \in Nat
  BY DEF TypeOK
<1>1. ASSUME NEW d \in Durations, DirectHttps(d) PROVE Inv'
  <2> DEFINE rest == Minus(d, HttpsDns)
             half == now + HttpsDns + rest \div 2
  <2>1. d \in Nat /\ HttpsDns \in Nat
    BY DEF HttpsDns
  <2>2. rest \in Nat
    BY <2>1 DEF Minus
  <2>3. rest \div 2 \in Nat /\ rest \div 2 <= rest
    BY <2>2, Half
  <2>4. TotalIsNow'
    BY <1>1 DEF DirectHttps, Hop
  <2>5. ASSUME slow' PROVE (ConnectOrdered /\ TlsOrdered /\ TlsApart)'
    <3>1. d >= HttpsDns
      BY <1>1, <2>5 DEF DirectHttps
    <3>2. rest = d - HttpsDns
      BY <2>1, <3>1 DEF Minus
    <3>3. half \in Nat /\ now + HttpsDns <= half /\ half <= now + d
      BY <2>1, <2>2, <2>3, <3>1, <3>2
    <3>4. /\ dns' = [start |-> now, end |-> now + HttpsDns]
          /\ tcp' = [start |-> now + HttpsDns, end |-> half]
          /\ tls' = [start |-> half, end |-> now + d]
          /\ now' = now + d
      BY <1>1 DEF DirectHttps, Hop, Span
    <3> HIDE DEF half
    <3> QED
      BY <2>1, <3>3, <3>4 DEF ConnectOrdered, TlsOrdered, TlsApart
  <2> QED
    BY <2>4, <2>5 DEF Consistent
<1>2. ASSUME NEW d \in Durations, DirectHttp(d) PROVE Inv'
  <2>1. d \in Nat /\ HttpDns \in Nat
    BY DEF HttpDns
  <2>2. TotalIsNow'
    BY <1>2 DEF DirectHttp, Hop
  <2>3. ASSUME slow' PROVE (ConnectOrdered /\ TlsOrdered /\ TlsApart)'
    <3>1. slow /\ d >= HttpDns
      BY <1>2, <2>3 DEF DirectHttp
    <3>2. /\ dns' = [start |-> now, end |-> now + HttpDns]
          /\ tcp' = [start |-> now + HttpDns, end |-> now + d]
          /\ tls' = tls
          /\ now' = now + d
      BY <1>2 DEF DirectHttp, Hop, Span
    <3> QED
      BY <2>1, <3>1, <3>2 DEF Consistent, ConnectOrdered, TlsOrdered, TlsApart
  <2> QED
    BY <2>2, <2>3 DEF Consistent
<1>3. ASSUME NEW d \in Durations, ProxiedHttps(d) PROVE Inv'
  BY <1>3 DEF ProxiedHttps, Hop, Consistent, ConnectOrdered, TlsOrdered, TlsApart, TypeOK, Spans
<1>4. ASSUME NEW d \in Durations, UntimedHop(d) PROVE Inv'
  BY <1>4 DEF UntimedHop, Hop, Consistent, ConnectOrdered, TlsOrdered, TlsApart
<1>5. CASE EndTotal
  BY <1>5 DEF EndTotal, Consistent, ConnectOrdered, TlsOrdered, TlsApart
<1>6. CASE UNCHANGED vars
  BY <1>6 DEF vars, Consistent, ConnectOrdered, TlsOrdered, TlsApart
<1> QED
  BY <1>1, <1>2, <1>3, <1>4, <1>5, <1>6 DEF Next

\* ... and bounds the figures.
LEMMA InvImplies == Inv => PhasesConsistent
<1> SUFFICES ASSUME Inv, total # None, slow
             PROVE  /\ Shown(dns) <= total /\ Shown(tcp) <= total /\ Shown(tls) <= total
                    /\ ~tunnelled => SumOfPhases <= total
  BY DEF PhasesConsistent
<1> USE TimingAssumption DEF Inv, Consistent, TotalIsNow
<1>1. total = now /\ now \in Nat
  BY DEF TypeOK
<1>2. CASE dns = Unknown /\ tcp = Unknown
  BY <1>1, <1>2 DEF TlsOrdered, TlsApart, Unknown, Shown, Minus, SumOfPhases
<1>3. CASE ~(dns = Unknown /\ tcp = Unknown)
  BY <1>1, <1>3 DEF ConnectOrdered, TlsOrdered, TlsApart, Shown, Minus, SumOfPhases
<1> QED
  BY <1>2, <1>3

\* For every set of durations and every number of hops, the printed phases of
\* a request without a too-fast hop fit into the printed total.
THEOREM PhasesAlwaysConsistent == Spec => []PhasesConsistent
<1>1. Spec => []TypeOK
  BY TypeCorrect
<1>2. Inv /\ TypeOK' /\ [Next]_vars => Inv'
  BY InvStep
<1> QED
  BY <1>1, <1>2, InvInit, InvImplies, PTL DEF Spec
=============================================================================
