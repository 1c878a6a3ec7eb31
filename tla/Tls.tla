--------------------------------- MODULE Tls ---------------------------------
(***************************************************************************)
(* The two ways rcurl shakes hands with an https server: for a request     *)
(* (send_https_request), and for --tls-info and --cert-info, which         *)
(* describe the server's certificate and send no request (get_tls_info).   *)
(* Each sets up rustls in code of its own, with -k and -c: the names of    *)
(* the one have Request in them, the names of the other Info.              *)
(*                                                                         *)
(* rustls and webpki are external.  Time is counted in hours, Day of them  *)
(* to a day; the JSON form of the description, which has all of the text's *)
(* and the status, stands for both.                                        *)
(***************************************************************************)
EXTENDS Integers, Task

CONSTANTS
    Orders,       \* the command lines of interest
    Servers,      \* the servers they may meet
    Authorities,  \* certificate authorities
    DefaultRoots, \* those of webpki_roots
    NoFile,       \* -c was not given
    Day,          \* 24 hours
    Soon,         \* 30 days
    Horizon,      \* bound: when the run is over
    Gap           \* bound: hours from the handshake to the description

\* What the argument of -c may be: a PEM file with these authorities, or one
\* that cannot be opened or has an entry that is no certificate.
PemFiles == [good : {TRUE}, has : SUBSET Authorities] \cup [good : {FALSE}, has : {{}}]

KeyAlgorithms == {"rsa", "ec", "ed25519", "ed448", "other"}

\* A server's certificate is vouched for by an authority, names the host or
\* not, is valid from one time until another, and is a readable X.509 v3
\* certificate or not; and the server has its private key or not.
Certified ==
    [authority : Authorities, named : BOOLEAN, from : Nat, until : Nat,
     readable : BOOLEAN, holdsKey : BOOLEAN, key : KeyAlgorithms]

ASSUME TlsAssumption ==
    /\ Orders \subseteq [show : BOOLEAN, insecure : BOOLEAN, bracketed : BOOLEAN,
                         roots : PemFiles \cup {NoFile}]
    /\ NoFile \notin PemFiles /\ Orders # {}
    /\ Servers \subseteq Certified /\ Servers # {}
    /\ DefaultRoots \subseteq Authorities /\ DefaultRoots # {}
    /\ Day \in Nat \ {0} /\ Soon \in Nat \ {0} /\ Horizon \in Nat
    /\ Gap \in Nat /\ Gap < Day

VARIABLES
    order,    \* the options of the command line
    peer,     \* the server
    clock,    \* the time of day
    trusted,  \* root_store
    verifier, \* the certificate verifier of the ClientConfig
    verdict,  \* whether this server was spoken to
    shaken,   \* ghost: when that was settled
    described \* what was printed of the certificate

tlsVars == <<order, peer, clock, trusted, verifier, verdict, shaken, described>>

TlsPlaces == {"info", "roots", "verifier", "handshake", "certificate", "request"}

\* WebPkiServerVerifier as rustls makes it, or a RcurlCertVerifier around it,
\* which with skip_validate looks at no certificate.
WebPki == [own |-> FALSE, skip |-> FALSE]
Rcurl(skip) == [own |-> TRUE, skip |-> skip]

Nothing == [status |-> "none", days |-> 0, size |-> 0]

TlsInit(orders, servers, hours) ==
    /\ order \in orders
    /\ peer \in servers
    /\ clock \in hours
    /\ trusted = {}
    /\ verifier = WebPki
    /\ verdict = "none"
    /\ shaken = 0
    /\ described = Nothing

\* Neither a set-up that fails nor a refused handshake gets to the server.
Refuse ==
    /\ verdict' = "refused"
    /\ shaken' = clock
    /\ EndWith("failed")
    /\ UNCHANGED <<order, peer, clock, trusted, verifier, described>>

-----------------------------------------------------------------------------
(* What both set-ups are made of *)

\* -c names a file, and its entries can be read and added to the store.
RootsReadable == order.roots # NoFile => order.roots.good

\* RcurlCertVerifier::new builds a verifier of webpki, which is refused for an
\* empty store, with -k as well; rustls makes its own for any store.
Constructible(v, roots) == v.own => roots # {}

\* webpki: a chain to a root, the name, the validity at this time.
WebPkiVerifies(roots, time) ==
    /\ peer.readable
    /\ peer.authority \in roots
    /\ peer.named
    /\ peer.from <= time /\ time <= peer.until

\* verify_tls12_signature and verify_tls13_signature are always those of webpki.
SignatureVerifies == peer.readable /\ peer.holdsKey

\* verify_server_cert of a verifier.
CertificateVerifies(v, roots, time) == v.skip \/ WebPkiVerifies(roots, time)

\* connect: rustls asks the verifier of the configuration.
Shake(then) ==
    \/ /\ CertificateVerifies(verifier, trusted, clock) /\ SignatureVerifies
       /\ verdict' = "accepted"
       /\ shaken' = clock
       /\ Goto(then)
       /\ UNCHANGED <<order, peer, clock, trusted, verifier, described>>
    \/ /\ ~(CertificateVerifies(verifier, trusted, clock) /\ SignatureVerifies)
       /\ Refuse

\* The host does not resolve, the connection or the exchange fails.
TlsBreaks ==
    /\ pc \in {"info", "handshake", "request"}
    /\ EndWith("failed")
    /\ UNCHANGED tlsVars

-----------------------------------------------------------------------------
(* send_https_request *)

\* The authorities of -c take the place of the default ones, be they none.
RequestRoots == IF order.roots = NoFile THEN DefaultRoots ELSE order.roots.has

LoadRequestRoots ==
    /\ pc = "roots" /\ ~order.show
    /\ RootsReadable
    /\ trusted' = RequestRoots
    /\ Goto("verifier")
    /\ UNCHANGED <<order, peer, clock, verifier, verdict, shaken, described>>

RequestRootsUnusable ==
    /\ pc = "roots" /\ ~order.show
    /\ ~RootsReadable
    /\ Refuse

\* A RcurlCertVerifier takes the place of the verifier of webpki, always.
RequestVerifier == Rcurl(order.insecure)

ConfigureRequest ==
    /\ pc = "verifier" /\ ~order.show
    /\ Constructible(RequestVerifier, trusted)
    /\ verifier' = RequestVerifier
    /\ Goto("handshake")
    /\ UNCHANGED <<order, peer, clock, trusted, verdict, shaken, described>>

RequestNotConfigured ==
    /\ pc = "verifier" /\ ~order.show
    /\ ~Constructible(RequestVerifier, trusted)
    /\ Refuse

\* The connector of hyper, which takes the brackets off an IPv6 address.
ShakeForRequest == pc = "handshake" /\ ~order.show /\ Shake("request")

\* The connection is up; what goes over it is HttpTransfer.
Requested ==
    /\ pc = "request"
    /\ EndWith("ok")
    /\ UNCHANGED tlsVars

-----------------------------------------------------------------------------
(* get_tls_info *)

\* It begins by resolving the host and connecting to it, at once and without a
\* proxy.
StartTls ==
    /\ pc = "info"
    /\ Goto("roots")
    /\ UNCHANGED tlsVars

\* Faulty variant: the authorities of -c are added to the default ones.
InfoRootsToo == DefaultRoots \cup (IF order.roots = NoFile THEN {} ELSE order.roots.has)

\* The same choice, written again.
InfoRoots == IF order.roots # NoFile THEN order.roots.has ELSE DefaultRoots

LoadInfoRoots ==
    /\ pc = "roots" /\ order.show
    /\ RootsReadable
    /\ trusted' = InfoRoots
    /\ Goto("verifier")
    /\ UNCHANGED <<order, peer, clock, verifier, verdict, shaken, described>>

InfoRootsUnusable ==
    /\ pc = "roots" /\ order.show
    /\ ~RootsReadable
    /\ Refuse

\* The verifier of webpki stays in its place unless -k is given.
InfoVerifier == IF order.insecure THEN Rcurl(TRUE) ELSE WebPki

\* ServerName::try_from refuses an IPv6 address in its brackets.
NameValid == ~order.bracketed

ConfigureInfo ==
    /\ pc = "verifier" /\ order.show
    /\ Constructible(InfoVerifier, trusted) /\ NameValid
    /\ verifier' = InfoVerifier
    /\ Goto("handshake")
    /\ UNCHANGED <<order, peer, clock, trusted, verdict, shaken, described>>

InfoNotConfigured ==
    /\ pc = "verifier" /\ order.show
    /\ ~(Constructible(InfoVerifier, trusted) /\ NameValid)
    /\ Refuse

ShakeForInfo == pc = "handshake" /\ order.show /\ Shake("certificate")

-----------------------------------------------------------------------------
(* The description *)

\* Faulty variant: days are rounded down.
NumDaysFloor(hours) == hours \div Day

\* chrono's num_days rounds toward zero.
NumDays(hours) == IF hours >= 0 THEN hours \div Day ELSE -((-hours) \div Day)

Status(days) ==
    IF days < 0 THEN "EXPIRED"
    ELSE IF days < Soon THEN "EXPIRING_SOON" ELSE "OK"

\* extract_key_size: 0 where no size is printed.  An RSA key has another OID
\* than the one compared with, and every curve is taken for P-256.
KeySize(algorithm) ==
    CASE algorithm \in {"ec", "ed25519"} -> 256
      [] algorithm = "ed448" -> 448
      [] OTHER -> 0

\* extract_certificate_info of the leaf: what of it the description depends on.
LeafInfo == [until |-> peer.until, size |-> KeySize(peer.key)]

\* to_json_format, which looks at the clock again.
DescribeLeaf ==
    /\ pc = "certificate"
    /\ LET days == NumDays(LeafInfo.until - clock)
       IN  described' = [status |-> Status(days), days |-> days, size |-> LeafInfo.size]
    /\ EndWith("ok")
    /\ UNCHANGED <<order, peer, clock, trusted, verifier, verdict, shaken>>

\* An hour passes.
Tick ==
    /\ pc \in TlsPlaces
    /\ clock < Horizon
    /\ verdict # "none" => clock < shaken + Gap
    /\ clock' = clock + 1
    /\ UNCHANGED <<order, peer, trusted, verifier, verdict, shaken, described, pc, result>>

TlsNext ==
    \/ TlsBreaks
    \/ LoadRequestRoots
    \/ RequestRootsUnusable
    \/ ConfigureRequest
    \/ RequestNotConfigured
    \/ ShakeForRequest
    \/ StartTls
    \/ LoadInfoRoots
    \/ InfoRootsUnusable
    \/ ConfigureInfo
    \/ InfoNotConfigured
    \/ ShakeForInfo
    \/ Requested
    \/ DescribeLeaf
    \/ Tick

TlsSpec ==
    /\ pc = (IF order.show THEN "info" ELSE "roots") /\ result = "none"
    /\ TlsInit(Orders, Servers, 0..Horizon)
    /\ [][TlsNext]_<<tlsVars, pc, result>>

-----------------------------------------------------------------------------
(* Properties *)

TlsTypeOK ==
    /\ order \in Orders /\ peer \in Servers
    /\ clock \in 0..Horizon /\ shaken \in 0..Horizon
    /\ trusted \in SUBSET Authorities
    /\ verifier \in {WebPki, Rcurl(TRUE), Rcurl(FALSE)}
    /\ verdict \in {"none", "accepted", "refused"}
    /\ described.status \in {"none", "OK", "EXPIRING_SOON", "EXPIRED"} /\ described.days \in Int

\* What the code of either way comes to for this server at some time.
RequestAccepts(time) ==
    /\ RootsReadable /\ Constructible(RequestVerifier, RequestRoots)
    /\ CertificateVerifies(RequestVerifier, RequestRoots, time) /\ SignatureVerifies

InfoAccepts(time) ==
    /\ RootsReadable /\ Constructible(InfoVerifier, InfoRoots) /\ NameValid
    /\ CertificateVerifies(InfoVerifier, InfoRoots, time) /\ SignatureVerifies

\* Who deserves to be trusted, by the options alone.
Deserving ==
    /\ peer.readable /\ peer.holdsKey
    /\ \/ order.insecure
       \/ /\ peer.authority \in (IF order.roots = NoFile THEN DefaultRoots ELSE order.roots.has)
          /\ peer.named
          /\ shaken \in peer.from..peer.until

\* The two set-ups, with their different verifiers, agree: --tls-info describes
\* a server exactly when a request at that moment would have spoken to it, and
\* the other way round, be the file of -c missing, empty or broken.  The one
\* exception is an IPv6 address in brackets, which --tls-info refuses always.
\* Nobody is accepted who does not deserve it: without -k a server that the
\* authorities in force vouch for, by its name and at that time; with -k one
\* that proves that the certificate is its own.
SameVerdict ==
    verdict # "none" =>
      /\ verdict = "accepted" => Deserving
      /\ ~order.bracketed =>
           (verdict = "accepted" <=> IF order.show THEN RequestAccepts(shaken)
                                     ELSE InfoAccepts(shaken))
      /\ order.bracketed /\ order.show => verdict = "refused"

\* --cert-info-json: a certificate that expired a day ago or longer is EXPIRED,
\* OK leaves thirty days, and without -k nothing is ever called EXPIRED, not even
\* a certificate that runs out between the handshake and the description.
StatusSound ==
    described.status # "none" =>
      /\ described.status = "EXPIRED" <=> peer.until + Day <= clock
      /\ described.status = "EXPIRED" => order.insecure
      /\ described.status = "OK" <=> clock + Soon * Day <= peer.until
=============================================================================
