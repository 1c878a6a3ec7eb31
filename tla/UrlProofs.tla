------------------------------ MODULE UrlProofs ------------------------------
(***************************************************************************)
(* What rcurl promises of a URL, for all inputs: the request that is built *)
(* for http is the same on every hop; both handshakes of https give the    *)
(* verdict the options ask for, and the status of the certificate is       *)
(* right; and ftp covers credentials, stores in binary, opens the output   *)
(* last and delivers a listing within its range.                           *)
(***************************************************************************)
EXTENDS BuildRequest, Tls, Ftp, ListProofs, TLAPS

-----------------------------------------------------------------------------
(* http: building the request.  The inductive invariant *)

\* As long as the files are left alone, every request of the chain is what
\* build_request makes of the options and the files as they are now, and once
\* there is one, there is nothing in the way of the next.
Repeatable ==
    ~rewritten =>
      /\ \A k \in 1..Len(built) : built[k] = Built(payload)
      /\ built # << >> => Buildable(payload)
      /\ result = "unbuildable" => built = << >>

\* A command that goes on has not failed.
GoesOn == pc # "done" => result # "unbuildable"

BuildInv == Repeatable /\ GoesOn /\ \E S : built \in Seq(S)

-----------------------------------------------------------------------------
(* The steps *)

\* The request depends on nothing but the options and the files.
LEMMA DependsOnInputs ==
    ASSUME UNCHANGED <<payload, disk>>
    PROVE  /\ Built(payload)' = Built(payload)
           /\ Buildable(payload)' <=> Buildable(payload)
BY DEF Built, Method, ContentTypes, HeaderMap, DefaultHeaders, Body, FormPart,
       Buildable, BodyFiles, FormFiles

LEMMA RepeatableStep ==
    ASSUME BuildInv, [BuildNext]_<<buildVars, pc, result>>
    PROVE  BuildInv'
<1> USE DEF BuildInv, Repeatable, GoesOn
<1>1. CASE Build
  <2>1. PICK S : built \in Seq(S)
    OBVIOUS
  <2>2. built' = Append(built, Built(payload)) /\ Buildable(payload)
    BY <1>1 DEF Build
  <2>3. UNCHANGED <<payload, disk, rewritten, result>> /\ pc = "build"
    BY <1>1 DEF Build, Goto
  <2>4. Built(payload)' = Built(payload) /\ (Buildable(payload)' <=> Buildable(payload))
    BY <2>3, DependsOnInputs
  <2> DEFINE request == Built(payload)
  <2>5. built' = Append(built, request)
    BY <2>2
  <2> HIDE DEF request
  <2>6. built' \in Seq(S \cup {request})
    BY <2>1, <2>5
  <2>7. ASSUME NEW k \in 1..Len(built') PROVE built'[k] = IF k <= Len(built) THEN built[k] ELSE request
    BY <2>1, <2>5, <2>7
  <2>8. Len(built) \in Nat /\ Len(built') = Len(built) + 1
    BY <2>1, <2>5
  <2>9. CASE rewritten
    BY <2>3, <2>6, <2>9
  <2>10. CASE ~rewritten
    <3>1. \A k \in 1..Len(built) : built[k] = request
      BY <2>10 DEF request
    <3>2. \A k \in 1..Len(built') : built'[k] = request
      BY <2>7, <2>8, <3>1
    <3>3. request = Built(payload)'
      BY <2>4 DEF request
    <3>4. result' # "unbuildable"
      BY <2>3
    <3> QED
      BY <2>2, <2>4, <2>6, <3>2, <3>3, <3>4
  <2> QED
    BY <2>9, <2>10
<1>2. CASE Unbuildable
  <2>1. UNCHANGED <<payload, disk, rewritten, built>> /\ ~Buildable(payload) /\ pc' = "done"
    BY <1>2 DEF Unbuildable, EndWith, buildVars
  <2>2. Built(payload)' = Built(payload) /\ (Buildable(payload)' <=> Buildable(payload))
    BY <2>1, DependsOnInputs
  <2> QED
    BY <2>1, <2>2
<1>3. CASE Redirected \/ Exhausted \/ Exchanged
  <2>1. UNCHANGED <<payload, disk, rewritten, built>> /\ result' # "unbuildable"
    BY <1>3 DEF Redirected, Exhausted, Exchanged, Goto, EndWith, buildVars
  <2>2. Built(payload)' = Built(payload) /\ (Buildable(payload)' <=> Buildable(payload))
    BY <2>1, DependsOnInputs
  <2> QED
    BY <2>1, <2>2
<1>4. CASE FileChanges
  BY <1>4 DEF FileChanges
<1>5. CASE UNCHANGED <<buildVars, pc, result>>
  <2>1. UNCHANGED <<payload, disk, rewritten, built, result, pc>>
    BY <1>5 DEF buildVars
  <2>2. Built(payload)' = Built(payload) /\ (Buildable(payload)' <=> Buildable(payload))
    BY <2>1, DependsOnInputs
  <2> QED
    BY <2>1, <2>2
<1> QED
  BY <1>1, <1>2, <1>3, <1>4, <1>5 DEF BuildNext

-----------------------------------------------------------------------------
(* Theorem *)

\* Every hop of the redirect loop builds the same request, and none but the
\* first can fail to be built, for any options and any files, unless another
\* program writes to the files.
THEOREM RedirectsRepeat == BuildSpec => []SameRequestEveryHop
<1>1. pc = "build" /\ result = "none" /\ BuildInit(Payloads, Disks) => BuildInv
  BY DEF BuildInit, BuildInv, Repeatable, GoesOn
<1>2. BuildInv /\ [BuildNext]_<<buildVars, pc, result>> => BuildInv'
  BY RepeatableStep
<1>3. BuildInv => SameRequestEveryHop
  BY DEF BuildInv, Repeatable, SameRequestEveryHop
<1> QED
  BY <1>1, <1>2, <1>3, PTL DEF BuildSpec

-----------------------------------------------------------------------------
(* The labels *)

\* The options have no header that would have ended build_request.
Legal(o) == \A h \in ToSet(o.headers) : h.kind # "malformed"

\* Every request has the Content-Type lines its options call for, and a body
\* if they say what it is; what the files hold does not matter.
Labels ==
    /\ payload \in Payloads
    /\ \E S : built \in Seq(S)
    /\ \A k \in 1..Len(built) :
         /\ Legal(payload)
         /\ built[k].types = ContentTypes(payload)
         /\ built[k].body = << >> <=>
              payload.form = << >> /\ payload.data = Absent /\ payload.upload = Absent

LEMMA BodyGiven ==
    ASSUME NEW o, o.form \in Seq(FormItems)
    PROVE  Body(o) = << >> <=> o.form = << >> /\ o.data = Absent /\ o.upload = Absent
<1>1. CASE o.form # << >>
  <2> DEFINE parts == [k \in 1..Len(o.form) |-> FormPart(o.form[k])]
  <2>1. Len(o.form) \in Nat /\ Len(o.form) # 0
    BY <1>1
  <2>2. DOMAIN parts = 1..Len(o.form) /\ DOMAIN << >> = 1..0
    OBVIOUS
  <2> HIDE DEF parts
  <2>3. parts # << >>
    BY <2>1, <2>2
  <2> QED
    BY <1>1, <2>3 DEF Body, parts
<1>2. CASE o.form = << >>
  BY <1>2 DEF Body
<1> QED
  BY <1>1, <1>2

LEMMA TypesDependOnOptions ==
    ASSUME payload' = payload
    PROVE  ContentTypes(payload)' = ContentTypes(payload)
BY DEF ContentTypes, HeaderMap, DefaultHeaders

LEMMA LabelsQuiet ==
    ASSUME Labels, UNCHANGED <<payload, built>>
    PROVE  Labels'
<1>1. ContentTypes(payload)' = ContentTypes(payload)
  BY TypesDependOnOptions
<1> QED
  BY <1>1 DEF Labels, Legal

LEMMA LabelsStep ==
    ASSUME Labels, [BuildNext]_<<buildVars, pc, result>>
    PROVE  Labels'
<1> USE DEF Labels
<1>1. CASE Build
  <2>1. PICK S : built \in Seq(S)
    OBVIOUS
  <2> DEFINE request == Built(payload)
  <2>2. built' = Append(built, request) /\ payload' = payload /\ Legal(payload)
    BY <1>1 DEF Build, Buildable, Legal
  <2>3. /\ request.types = ContentTypes(payload)
        /\ request.body = << >> <=>
             payload.form = << >> /\ payload.data = Absent /\ payload.upload = Absent
    <3>1. payload.form \in Seq(FormItems)
      BY BuildAssumption
    <3>2. request.types = ContentTypes(payload) /\ request.body = Body(payload)
      BY DEF Built
    <3> QED
      BY <3>1, <3>2, BodyGiven
  <2>4. ContentTypes(payload)' = ContentTypes(payload)
    BY <2>2, TypesDependOnOptions
  <2> HIDE DEF request
  <2>5. built' \in Seq(S \cup {request})
    BY <2>1, <2>2
  <2>6. ASSUME NEW k \in 1..Len(built') PROVE (k \in 1..Len(built) /\ built'[k] = built[k]) \/ built'[k] = request
    BY <2>1, <2>2
  <2> QED
    BY <2>2, <2>3, <2>4, <2>5, <2>6 DEF Legal
<1>2. CASE Unbuildable \/ Redirected \/ Exhausted \/ Exchanged \/ FileChanges
           \/ UNCHANGED <<buildVars, pc, result>>
  <2>1. UNCHANGED <<payload, built>>
    BY <1>2 DEF Unbuildable, Redirected, Exhausted, Exchanged, FileChanges, buildVars
  <2> QED
    BY <2>1, LabelsQuiet
<1> QED
  BY <1>1, <1>2 DEF BuildNext

\* What the last -H of Content-Type says, if there is one, is what the map says.
LEMMA OwnLabel ==
    ASSUME NEW o \in Payloads, Legal(o)
    PROVE  LET mine == Picked(o.headers, {i \in 1..Len(o.headers) : o.headers[i].name = "content-type"})
           IN  /\ mine = << >> =>
                    HeaderMap(o)["content-type"] = DefaultHeaders(o)["content-type"]
               /\ mine # << >> =>
                    /\ HeaderMap(o)["content-type"] = Last(mine).value
                    /\ HeaderMap(o)["content-type"] \in Contents
<1> DEFINE given == {i \in 1..Len(o.headers) : o.headers[i].name = "content-type"}
           mine == Picked(o.headers, given)
           label == HeaderMap(o)["content-type"]
<1>1. o.headers \in Seq(Headers) /\ Len(o.headers) \in Nat
  <2>1. o.headers \in Seq(Headers)
    BY BuildAssumption
  <2> QED
    BY <2>1
<1>2. label = IF given = {} THEN DefaultHeaders(o)["content-type"]
              ELSE o.headers[CHOOSE k \in given : \A j \in given : j <= k].value
  BY DEF HeaderMap, HeaderNames
<1>3. \A i \in given : i \in 1..Len(o.headers)
  OBVIOUS
<1> HIDE DEF label
<1>4. \/ mine = << >> /\ given = {}
      \/ /\ mine # << >>
         /\ \E k \in given : (\A j \in given : j <= k) /\ Last(mine) = o.headers[k]
  <2> HIDE DEF given
  <2>1. \/ mine = << >> /\ \A i \in 1..Len(o.headers) : i \notin given
        \/ /\ mine # << >>
           /\ \E k \in 1..Len(o.headers) :
                /\ k \in given /\ \A j \in 1..Len(o.headers) : j \in given => j <= k
                /\ mine[Len(mine)] = o.headers[k]
    BY <1>1, LastPicked
  <2> HIDE DEF mine
  <2> QED
    BY <1>3, <2>1 DEF Last
<1>5. CASE mine = << >>
  BY <1>2, <1>4, <1>5 DEF label
<1>6. CASE mine # << >>
  <2>1. PICK k \in given : (\A j \in given : j <= k) /\ Last(mine) = o.headers[k]
    BY <1>4, <1>6
  <2>2. \A i \in given : (\A j \in given : j <= i) => i = k
    BY <1>1, <2>1
  <2> HIDE DEF given
  <2>3. (CHOOSE i \in given : \A j \in given : j <= i) = k
    BY <2>1, <2>2
  <2>4. label = o.headers[k].value
    BY <1>2, <2>1, <2>3
  <2>5. k \in 1..Len(o.headers)
    BY <1>3, <2>1
  <2>6. o.headers[k] \in Headers /\ o.headers[k].kind # "malformed"
    BY <1>1, <2>5 DEF Legal, ToSet
  <2>7. o.headers[k].value \in Contents
    BY <2>6 DEF Headers
  <2> HIDE DEF mine
  <2> QED
    BY <1>6, <2>1, <2>4, <2>7 DEF mine, given, label
<1> QED
  BY <1>5, <1>6

\* The Content-Type lines, with the form's first.
LEMMA TwoLabels ==
    ASSUME NEW p \in BOOLEAN, NEW q \in BOOLEAN, NEW a, NEW b
    PROVE  LET types == (IF p THEN << a >> ELSE << >>) \o (IF q THEN << b >> ELSE << >>)
           IN  /\ p => types[1] = a
               /\ ~p /\ q => types = << b >>
               /\ ~p /\ ~q => types = << >>
               /\ Len(types) = 2 => p /\ q
<1>1. CASE p /\ q
  BY <1>1
<1>2. CASE p /\ ~q
  BY <1>2
<1>3. CASE ~p /\ q
  BY <1>3
<1>4. CASE ~p /\ ~q
  BY <1>4
<1> QED
  BY <1>1, <1>2, <1>3, <1>4

\* What BodyLabelled asks of one request.
Fits(form, data, body, types, mine) ==
    /\ form # << >> => types[1] = "multipart"
    /\ form = << >> /\ mine # << >> => types = << Last(mine).value >>
    /\ form = << >> /\ mine = << >> =>
         types = CASE body = << >> -> << >>
                   [] data # Absent -> << "urlencoded" >>
                   [] OTHER -> << "type of file" >>
    /\ Len(types) = 2 => form # << >> /\ (mine # << >> \/ data # Absent)

LEMMA TypesFit ==
    ASSUME NEW form, NEW data, NEW upload, NEW body, NEW types, NEW mine, NEW label,
           form # << >> => types[1] = "multipart",
           form = << >> /\ label # Absent => types = << label >>,
           form = << >> /\ label = Absent => types = << >>,
           Len(types) = 2 => form # << >> /\ label # Absent,
           mine # << >> => label = Last(mine).value /\ label # Absent,
           mine = << >> => label = IF data # Absent THEN "urlencoded"
                                   ELSE IF form = << >> /\ upload # Absent THEN "type of file"
                                   ELSE Absent,
           Absent # "urlencoded", Absent # "type of file",
           body = << >> <=> form = << >> /\ data = Absent /\ upload = Absent
    PROVE  Fits(form, data, body, types, mine)
<1>1. form # << >> => types[1] = "multipart"
  OBVIOUS
<1>2. form = << >> /\ mine # << >> => types = << Last(mine).value >>
  OBVIOUS
<1>3. form = << >> /\ mine = << >> =>
        types = CASE body = << >> -> << >>
                  [] data # Absent -> << "urlencoded" >>
                  [] OTHER -> << "type of file" >>
  OBVIOUS
<1>4. Len(types) = 2 => form # << >> /\ (mine # << >> \/ data # Absent)
  OBVIOUS
<1> QED
  BY <1>1, <1>2, <1>3, <1>4 DEF Fits

LEMMA LabelsFit == Labels => BodyLabelled
<1> SUFFICES ASSUME Labels, NEW k \in 1..Len(built)
             PROVE  Fits(payload.form, payload.data, built[k].body, built[k].types,
                         Picked(payload.headers,
                                {i \in 1..Len(payload.headers) : payload.headers[i].name = "content-type"}))
  BY DEF BodyLabelled, Fits
<1> DEFINE mine == Picked(payload.headers,
                          {i \in 1..Len(payload.headers) : payload.headers[i].name = "content-type"})
           label == HeaderMap(payload)["content-type"]
           form == payload.form
           data == payload.data
           upload == payload.upload
           body == built[k].body
           types == built[k].types
<1>1. Absent \notin Contents /\ Absent # "urlencoded" /\ Absent # "type of file"
  BY BuildAssumption
<1>2. DefaultHeaders(payload)["content-type"] =
        IF data # Absent THEN "urlencoded"
        ELSE IF form = << >> /\ upload # Absent THEN "type of file"
        ELSE Absent
  BY DEF DefaultHeaders, HeaderNames
<1>3. /\ mine # << >> => label = Last(mine).value /\ label # Absent
      /\ mine = << >> => label = IF data # Absent THEN "urlencoded"
                                ELSE IF form = << >> /\ upload # Absent THEN "type of file"
                                ELSE Absent
  BY <1>1, <1>2, OwnLabel DEF Labels
<1>4. types = (IF form # << >> THEN << "multipart" >> ELSE << >>)
                \o (IF label # Absent THEN << label >> ELSE << >>)
  BY DEF Labels, ContentTypes
<1>5. body = << >> <=> form = << >> /\ data = Absent /\ upload = Absent
  BY DEF Labels
<1> HIDE DEF mine, label, form, data, upload, body, types
<1>6. /\ form # << >> => types[1] = "multipart"
      /\ form = << >> /\ label # Absent => types = << label >>
      /\ form = << >> /\ label = Absent => types = << >>
      /\ Len(types) = 2 => form # << >> /\ label # Absent
  <2> DEFINE p == form # << >>
             q == label # Absent
  <2>1. p \in BOOLEAN /\ q \in BOOLEAN
    OBVIOUS
  <2>2. types = (IF p THEN << "multipart" >> ELSE << >>) \o (IF q THEN << label >> ELSE << >>)
    BY <1>4
  <2> HIDE DEF p, q
  <2>3. /\ p => types[1] = "multipart"
        /\ ~p /\ q => types = << label >>
        /\ ~p /\ ~q => types = << >>
        /\ Len(types) = 2 => p /\ q
    BY <2>1, <2>2, TwoLabels
  <2> QED
    BY <2>3 DEF p, q
<1>7. Fits(form, data, body, types, mine)
  BY <1>1, <1>3, <1>5, <1>6, TypesFit
<1> QED
  BY <1>7 DEF mine, form, data, body, types

\* The first Content-Type of every request is that of its body, or the user's:
\* for any combination of -d, -F, -T and -H.
THEOREM BodyAlwaysLabelled == BuildSpec => []BodyLabelled
<1>1. pc = "build" /\ result = "none" /\ BuildInit(Payloads, Disks) => Labels
  BY DEF BuildInit, Labels
<1>2. Labels /\ [BuildNext]_<<buildVars, pc, result>> => Labels'
  BY LabelsStep
<1> QED
  BY <1>1, <1>2, LabelsFit, PTL DEF BuildSpec

-----------------------------------------------------------------------------
(* https: the handshakes.  The inductive invariant *)

\* What the set-up that runs comes to: its roots and its verifier.
Roots == IF order.show THEN InfoRoots ELSE RequestRoots

OwnVerifier == IF order.show THEN InfoVerifier ELSE RequestVerifier

OwnName == order.show => NameValid

OwnAccepts(time) == IF order.show THEN InfoAccepts(time) ELSE RequestAccepts(time)

RootsFound == RootsReadable /\ trusted = Roots

Configured == verifier = OwnVerifier /\ Constructible(OwnVerifier, Roots) /\ OwnName

Loaded ==
    /\ pc \in {"verifier", "handshake"} => RootsFound
    /\ pc = "handshake" => Configured

\* The verdict is what the set-up that ran comes to at the time it was given,
\* and it is given before anything is described.
Judged ==
    /\ pc \in {"info", "roots", "verifier", "handshake"} => verdict = "none"
    /\ pc \in {"certificate", "request"} => verdict = "accepted"
    /\ verdict # "none" => shaken <= clock /\ clock <= shaken + Gap
    /\ verdict # "none" => (verdict = "accepted" <=> OwnAccepts(shaken))

\* What was printed is the description of the leaf at this hour; the task is
\* over then, and time stands still with it.
Described ==
    /\ pc # "done" => described = Nothing
    /\ described.status # "none" =>
         /\ verdict = "accepted"
         /\ described.status = Status(NumDays(peer.until - clock))

TlsInv == TlsTypeOK /\ Loaded /\ Judged /\ Described

-----------------------------------------------------------------------------
(* Days *)

\* The quotient by a whole number of hours.
LEMMA WholeDays ==
    ASSUME NEW n \in Nat, NEW day \in Nat \ {0}
    PROVE  /\ n \div day \in Nat
           /\ (n \div day) * day <= n
           /\ n < (n \div day) * day + day
OBVIOUS

\* Products grow with their factors.
LEMMA Larger ==
    ASSUME NEW m \in Nat, NEW n \in Nat, NEW day \in Nat, m <= n
    PROVE  m * day <= n * day
OBVIOUS

\* Days are whole.
LEMMA NumDaysInt ==
    ASSUME NEW hours \in Int
    PROVE  NumDays(hours) \in Int
<1>0. Day \in Nat \ {0}
  BY TlsAssumption
<1>1. CASE hours >= 0
  BY <1>0, <1>1, WholeDays DEF NumDays
<1>2. CASE hours < 0
  <2>1. -hours \in Nat
    BY <1>2
  <2>2. (-hours) \div Day \in Nat
    BY <1>0, <2>1, WholeDays
  <2> QED
    BY <1>2, <2>2 DEF NumDays
<1> QED
  BY <1>1, <1>2

\* Rounding toward zero: fewer than no days are left when a whole one is over.
LEMMA DaysBelowZero ==
    ASSUME NEW hours \in Int
    PROVE  NumDays(hours) < 0 <=> hours + Day <= 0
<1>0. Day \in Nat \ {0}
  BY TlsAssumption
<1>1. CASE hours >= 0
  <2>1. NumDays(hours) \in Nat
    BY <1>0, <1>1, WholeDays DEF NumDays
  <2> QED
    BY <1>0, <1>1, <2>1
<1>2. CASE hours < 0
  <2> DEFINE n == -hours
             q == n \div Day
  <2>1. n \in Nat
    BY <1>2
  <2>2. q \in Nat /\ q * Day <= n /\ n < q * Day + Day
    BY <1>0, <2>1, WholeDays
  <2>3. NumDays(hours) = -q
    BY <1>2 DEF NumDays
  <2> HIDE DEF q
  <2>4. CASE q = 0
    BY <1>0, <2>1, <2>2, <2>3, <2>4
  <2>5. CASE q >= 1
    <3>1. Day <= q * Day
      BY <1>0, <2>2, <2>5, Larger
    <3> QED
      BY <1>0, <2>1, <2>2, <2>3, <2>5, <3>1
  <2> QED
    BY <2>2, <2>4, <2>5
<1> QED
  BY <1>1, <1>2

\* Soon days are left when that many times Day hours are.
LEMMA DaysEnough ==
    ASSUME NEW hours \in Int
    PROVE  Soon <= NumDays(hours) <=> Soon * Day <= hours
<1>0. Day \in Nat \ {0} /\ Soon \in Nat \ {0}
  BY TlsAssumption
<1>1. Soon * Day \in Nat
  BY <1>0
<1>2. CASE hours < 0
  <2>1. hours + Day <= 0 => NumDays(hours) < 0
    BY DaysBelowZero
  <2> DEFINE q == (-hours) \div Day
  <2>2. -hours \in Nat /\ -hours > 0
    BY <1>2
  <2>3. q \in Nat /\ NumDays(hours) = -q
    BY <1>0, <1>2, <2>2, WholeDays DEF NumDays
  <2> HIDE DEF q
  <2> QED
    BY <1>0, <1>1, <1>2, <2>3
<1>3. CASE hours >= 0
  <2> DEFINE q == hours \div Day
  <2>1. q \in Nat /\ q * Day <= hours /\ hours < q * Day + Day
    BY <1>0, <1>3, WholeDays
  <2>2. NumDays(hours) = q
    BY <1>3 DEF NumDays
  <2> HIDE DEF q
  <2>3. CASE Soon <= q
    <3>1. Soon * Day <= q * Day
      BY <1>0, <2>1, <2>3, Larger
    <3>2. q * Day \in Nat
      BY <1>0, <2>1
    <3> QED
      BY <1>1, <2>1, <2>2, <2>3, <3>1, <3>2
  <2>4. CASE q + 1 <= Soon
    <3>1. (q + 1) * Day <= Soon * Day
      BY <1>0, <2>1, <2>4, Larger
    <3>2. (q + 1) * Day = q * Day + Day /\ q * Day \in Nat
      BY <1>0, <2>1
    <3> QED
      BY <1>0, <1>1, <2>1, <2>2, <2>4, <3>1, <3>2
  <2> QED
    BY <1>0, <2>1, <2>3, <2>4
<1> QED
  BY <1>2, <1>3

-----------------------------------------------------------------------------
(* The steps *)

LEMMA TlsTypedStep ==
    ASSUME TlsTypeOK, [TlsNext]_<<tlsVars, pc, result>>
    PROVE  TlsTypeOK'
<1> USE DEF TlsTypeOK
<1>0. Servers \subseteq Certified /\ Horizon \in Nat /\ DefaultRoots \subseteq Authorities
  BY TlsAssumption
<1>1. order.roots \in PemFiles \cup {NoFile}
  BY TlsAssumption
<1>2. CASE StartTls \/ TlsBreaks \/ Requested
  BY <1>2 DEF StartTls, TlsBreaks, Requested, tlsVars
<1>r. ASSUME Refuse PROVE TlsTypeOK'
  BY <1>r DEF Refuse
<1>8. CASE RequestRootsUnusable \/ RequestNotConfigured \/ InfoRootsUnusable \/ InfoNotConfigured
  BY <1>r, <1>8 DEF RequestRootsUnusable, RequestNotConfigured, InfoRootsUnusable, InfoNotConfigured
<1>9. CASE ConfigureRequest \/ ConfigureInfo
  <2>1. order.insecure \in BOOLEAN
    BY TlsAssumption
  <2>2. verifier' \in {WebPki, Rcurl(TRUE), Rcurl(FALSE)}
    BY <1>9, <2>1 DEF ConfigureRequest, ConfigureInfo, RequestVerifier, InfoVerifier
  <2> QED
    BY <1>9, <2>2 DEF ConfigureRequest, ConfigureInfo
<1>3. CASE LoadRequestRoots \/ LoadInfoRoots
  <2>1. order.roots # NoFile => order.roots.has \subseteq Authorities
    BY <1>1 DEF PemFiles
  <2>2. trusted' \subseteq Authorities
    BY <1>0, <1>3, <2>1 DEF LoadRequestRoots, LoadInfoRoots, RequestRoots, InfoRoots
  <2> QED
    BY <1>3, <2>2 DEF LoadRequestRoots, LoadInfoRoots
<1>4. CASE ShakeForRequest \/ ShakeForInfo
  BY <1>r, <1>4 DEF ShakeForRequest, ShakeForInfo, Shake
<1>5. CASE DescribeLeaf
  <2> DEFINE days == NumDays(peer.until - clock)
  <2>1. peer.until - clock \in Int
    BY <1>0 DEF Certified
  <2>2. days \in Int
    BY <2>1, TlsAssumption, NumDaysInt
  <2> HIDE DEF days
  <2>3. described' = [status |-> Status(days), days |-> days, size |-> LeafInfo.size]
    BY <1>5 DEF DescribeLeaf, LeafInfo, days
  <2>4. Status(days) \in {"OK", "EXPIRING_SOON", "EXPIRED"}
    BY DEF Status
  <2>5. described'.status = Status(days) /\ described'.days = days
    BY <2>3
  <2> QED
    BY <1>5, <2>2, <2>4, <2>5 DEF DescribeLeaf
<1>6. CASE Tick
  <2>1. UNCHANGED <<order, peer, trusted, verifier, verdict, shaken, described>>
    BY <1>6 DEF Tick
  <2>2. clock' \in 0..Horizon
    BY <1>0, <1>6 DEF Tick
  <2>3. verifier' \in {WebPki, Rcurl(TRUE), Rcurl(FALSE)}
    BY <2>1
  <2> QED
    BY <2>1, <2>2, <2>3
<1>7. CASE UNCHANGED <<tlsVars, pc, result>>
  BY <1>7 DEF tlsVars
<1> QED
  BY <1>2, <1>3, <1>4, <1>5, <1>6, <1>7, <1>8, <1>9 DEF TlsNext

\* What either set-up comes to depends on the command line and the server only.
LEMMA VerdictKept ==
    ASSUME UNCHANGED <<order, peer>>, NEW time
    PROVE  /\ Roots' = Roots /\ OwnVerifier' = OwnVerifier
           /\ RootsReadable' <=> RootsReadable
           /\ OwnName' <=> OwnName
           /\ Constructible(OwnVerifier, Roots)' <=> Constructible(OwnVerifier, Roots)
           /\ OwnAccepts(time)' <=> OwnAccepts(time)
BY DEF Roots, InfoRoots, RequestRoots, OwnVerifier, InfoVerifier, RequestVerifier, Rcurl, WebPki,
       RootsReadable, OwnName, NameValid, Constructible, OwnAccepts, InfoAccepts, RequestAccepts,
       CertificateVerifies, SignatureVerifies, WebPkiVerifies

\* The parts of a set-up, put together.
LEMMA OwnAcceptsIs ==
    ASSUME NEW time
    PROVE  OwnAccepts(time) <=>
             /\ RootsReadable /\ Constructible(OwnVerifier, Roots) /\ OwnName
             /\ CertificateVerifies(OwnVerifier, Roots, time) /\ SignatureVerifies
<1>1. CASE order.show
  BY <1>1 DEF OwnAccepts, InfoAccepts, OwnVerifier, Roots, OwnName
<1>2. CASE ~order.show
  BY <1>2 DEF OwnAccepts, RequestAccepts, OwnVerifier, Roots, OwnName
<1> QED
  BY <1>1, <1>2

\* No step changes the command line or the server.
LEMMA SameOrder ==
    ASSUME [TlsNext]_<<tlsVars, pc, result>>
    PROVE  UNCHANGED <<order, peer>>
BY DEF TlsNext, StartTls, TlsBreaks, LoadRequestRoots, RequestRootsUnusable, ConfigureRequest,
       RequestNotConfigured, ShakeForRequest, LoadInfoRoots, InfoRootsUnusable, ConfigureInfo,
       InfoNotConfigured, ShakeForInfo, Shake, Refuse, Requested, DescribeLeaf, Tick, tlsVars

LEMMA LoadedStep ==
    ASSUME TlsInv, [TlsNext]_<<tlsVars, pc, result>>
    PROVE  Loaded'
<1>0. /\ Roots' = Roots /\ OwnVerifier' = OwnVerifier
      /\ RootsReadable' <=> RootsReadable
      /\ OwnName' <=> OwnName
      /\ Constructible(OwnVerifier, Roots)' <=> Constructible(OwnVerifier, Roots)
  BY SameOrder, VerdictKept
<1>1. UNCHANGED trusted => (RootsFound' <=> RootsFound)
  BY <1>0 DEF RootsFound
<1>2. UNCHANGED verifier => (Configured' <=> Configured)
  BY <1>0 DEF Configured
<1>3. Loaded
  BY DEF TlsInv
<1>4. CASE LoadRequestRoots \/ LoadInfoRoots
  <2>1. RootsReadable /\ trusted' = Roots /\ pc' = "verifier"
    BY <1>4 DEF LoadRequestRoots, LoadInfoRoots, Goto, Roots
  <2>2. RootsFound'
    BY <1>0, <2>1 DEF RootsFound
  <2> QED
    BY <2>1, <2>2 DEF Loaded
<1>5. CASE ConfigureRequest \/ ConfigureInfo
  <2>1. /\ UNCHANGED trusted /\ pc = "verifier"
        /\ order.show => Constructible(InfoVerifier, trusted) /\ NameValid /\ verifier' = InfoVerifier
        /\ ~order.show => Constructible(RequestVerifier, trusted) /\ verifier' = RequestVerifier
    BY <1>5 DEF ConfigureRequest, ConfigureInfo
  <2>2. RootsFound /\ RootsFound'
    BY <1>1, <1>3, <2>1 DEF Loaded
  <2>3. verifier' = OwnVerifier /\ Constructible(OwnVerifier, trusted) /\ OwnName
    BY <2>1 DEF OwnVerifier, OwnName
  <2>4. trusted = Roots
    BY <2>2 DEF RootsFound
  <2>5. Constructible(OwnVerifier, Roots)
    BY <2>3, <2>4
  <2>6. Configured'
    BY <1>0, <2>3, <2>5 DEF Configured
  <2> QED
    BY <2>2, <2>6 DEF Loaded
<1>6. CASE \/ TlsBreaks \/ RequestRootsUnusable \/ RequestNotConfigured \/ ShakeForRequest
           \/ InfoRootsUnusable \/ InfoNotConfigured \/ ShakeForInfo \/ Requested \/ DescribeLeaf
           \/ StartTls
  <2>1. pc' \notin {"verifier", "handshake"}
    BY <1>6 DEF TlsBreaks, RequestRootsUnusable, RequestNotConfigured, ShakeForRequest,
                InfoRootsUnusable, InfoNotConfigured, ShakeForInfo, Shake, Refuse, Requested,
                DescribeLeaf, StartTls, Goto, EndWith
  <2> QED
    BY <2>1 DEF Loaded
<1>7. CASE Tick \/ UNCHANGED <<tlsVars, pc, result>>
  <2>1. UNCHANGED <<trusted, verifier, pc>>
    BY <1>7 DEF Tick, tlsVars
  <2> QED
    BY <1>1, <1>2, <1>3, <2>1 DEF Loaded
<1> QED
  BY <1>4, <1>5, <1>6, <1>7 DEF TlsNext

LEMMA JudgedStep ==
    ASSUME TlsInv, [TlsNext]_<<tlsVars, pc, result>>
    PROVE  Judged'
<1>a. \A time : OwnAccepts(time)' <=> OwnAccepts(time)
  BY SameOrder, VerdictKept
<1>c. clock \in Nat /\ shaken \in Nat /\ Gap \in Nat
  BY TlsAssumption DEF TlsInv, TlsTypeOK
<1>d. shaken' = shaken => (OwnAccepts(shaken)' <=> OwnAccepts(shaken))
  BY <1>a
<1>e. shaken' = clock => (OwnAccepts(shaken)' <=> OwnAccepts(clock))
  BY <1>a
<1>f. Judged /\ Loaded
  BY DEF TlsInv
<1>j. ASSUME shaken' = clock, clock' = clock, verdict' \in {"accepted", "refused"},
             verdict' = "accepted" <=> OwnAccepts(clock),
             pc' \in {"certificate", "request"} => verdict' = "accepted",
             pc' \in {"certificate", "request", "done"}
      PROVE  Judged'
  BY <1>c, <1>e, <1>j DEF Judged
<1>r. ASSUME Refuse, ~OwnAccepts(clock) PROVE Judged'
  BY <1>j, <1>r DEF Refuse, EndWith
<1>1. CASE StartTls \/ LoadRequestRoots \/ LoadInfoRoots \/ ConfigureRequest \/ ConfigureInfo
  <2>1. /\ UNCHANGED <<clock, verdict, shaken>>
        /\ pc \in {"info", "roots", "verifier"} /\ pc' \in {"roots", "verifier", "handshake"}
    BY <1>1 DEF StartTls, LoadRequestRoots, LoadInfoRoots, ConfigureRequest, ConfigureInfo, Goto, tlsVars
  <2> QED
    BY <1>f, <2>1 DEF Judged
<1>2. CASE TlsBreaks \/ Requested \/ DescribeLeaf
  <2>1. UNCHANGED <<clock, verdict, shaken>> /\ pc' = "done"
    BY <1>2 DEF TlsBreaks, Requested, DescribeLeaf, EndWith, tlsVars
  <2> QED
    BY <1>d, <1>f, <2>1 DEF Judged
<1>3. CASE RequestRootsUnusable \/ InfoRootsUnusable
  <2>1. ~RootsReadable /\ Refuse
    BY <1>3 DEF RequestRootsUnusable, InfoRootsUnusable
  <2> QED
    BY <2>1, <1>r, OwnAcceptsIs
<1>4. CASE RequestNotConfigured \/ InfoNotConfigured
  <2>1. /\ Refuse /\ pc = "verifier"
        /\ order.show => ~(Constructible(InfoVerifier, trusted) /\ NameValid)
        /\ ~order.show => ~Constructible(RequestVerifier, trusted)
    BY <1>4 DEF RequestNotConfigured, InfoNotConfigured
  <2>2. trusted = Roots
    BY <1>f, <2>1 DEF Loaded, RootsFound
  <2>3. ~(Constructible(OwnVerifier, trusted) /\ OwnName)
    BY <2>1 DEF OwnVerifier, OwnName
  <2> QED
    BY <2>1, <2>2, <2>3, <1>r, OwnAcceptsIs
<1>5. CASE ShakeForRequest \/ ShakeForInfo
  <2>0. pc = "handshake"
    BY <1>5 DEF ShakeForRequest, ShakeForInfo
  <2>1. /\ RootsReadable /\ trusted = Roots /\ verifier = OwnVerifier
        /\ Constructible(OwnVerifier, Roots) /\ OwnName
    BY <1>f, <2>0 DEF Loaded, RootsFound, Configured
  <2>2. OwnAccepts(clock) <=> CertificateVerifies(verifier, trusted, clock) /\ SignatureVerifies
    BY <2>1, OwnAcceptsIs
  <2>3. CASE ~OwnAccepts(clock)
    <3>1. Refuse
      BY <1>5, <2>2, <2>3 DEF ShakeForRequest, ShakeForInfo, Shake
    <3> QED
      BY <2>3, <3>1, <1>r
  <2>4. CASE OwnAccepts(clock)
    <3>1. /\ verdict' = "accepted" /\ shaken' = clock /\ clock' = clock
          /\ pc' \in {"certificate", "request"}
      BY <1>5, <2>2, <2>4 DEF ShakeForRequest, ShakeForInfo, Shake, Goto
    <3> QED
      BY <2>4, <3>1, <1>j
  <2> QED
    BY <2>3, <2>4
<1>6. CASE Tick \/ UNCHANGED <<tlsVars, pc, result>>
  <2>1. UNCHANGED <<verdict, shaken, pc>>
    BY <1>6 DEF Tick, tlsVars
  <2>2. verdict # "none" => shaken' <= clock' /\ clock' <= shaken' + Gap
    <3>1. CASE Tick
      BY <1>c, <1>f, <3>1 DEF Tick, Judged
    <3>2. CASE UNCHANGED <<tlsVars, pc, result>>
      BY <1>f, <3>2 DEF Judged, tlsVars
    <3> QED
      BY <1>6, <3>1, <3>2
  <2> QED
    BY <1>d, <1>f, <2>1, <2>2 DEF Judged
<1> QED
  BY <1>1, <1>2, <1>3, <1>4, <1>5, <1>6 DEF TlsNext

-----------------------------------------------------------------------------
(* The two set-ups compared *)

\* They load the same roots, and differ in the verifier; but the one that cannot
\* be built on an empty store would have refused every server there.
LEMMA SetUpsAgree ==
    ASSUME NEW time, ~order.bracketed, order.insecure \in BOOLEAN
    PROVE  InfoAccepts(time) <=> RequestAccepts(time)
<1>1. InfoRoots = RequestRoots
  BY DEF InfoRoots, RequestRoots
<1>2. NameValid
  BY DEF NameValid
<1>3. CASE order.insecure
  <2>1. InfoVerifier = RequestVerifier
    BY <1>3 DEF InfoVerifier, RequestVerifier
  <2> QED
    BY <1>1, <1>2, <2>1 DEF InfoAccepts, RequestAccepts
<1>4. CASE ~order.insecure
  <2>1. InfoVerifier = WebPki /\ RequestVerifier = Rcurl(FALSE)
    BY <1>4 DEF InfoVerifier, RequestVerifier
  <2>2. ~WebPki.own /\ ~WebPki.skip /\ Rcurl(FALSE).own /\ ~Rcurl(FALSE).skip
    BY DEF WebPki, Rcurl
  <2>3. WebPkiVerifies(RequestRoots, time) => RequestRoots # {}
    BY DEF WebPkiVerifies
  <2> QED
    BY <1>1, <1>2, <2>1, <2>2, <2>3
       DEF InfoAccepts, RequestAccepts, Constructible, CertificateVerifies
<1> QED
  BY <1>3, <1>4

\* Whom either of them accepts deserves it.
LEMMA AcceptedDeserves ==
    ASSUME TlsTypeOK, OwnAccepts(shaken)
    PROVE  Deserving
<1>1. shaken \in Nat /\ peer.from \in Nat /\ peer.until \in Nat /\ order.insecure \in BOOLEAN
  BY TlsAssumption DEF TlsTypeOK, Certified
<1>2. SignatureVerifies /\ CertificateVerifies(OwnVerifier, Roots, shaken)
  BY OwnAcceptsIs
<1>3. OwnVerifier.skip => order.insecure
  <2>1. CASE order.insecure
    BY <2>1
  <2>2. CASE ~order.insecure
    <3>1. OwnVerifier \in {WebPki, Rcurl(FALSE)}
      BY <1>1, <2>2 DEF OwnVerifier, InfoVerifier, RequestVerifier
    <3>2. ~WebPki.skip /\ ~Rcurl(FALSE).skip
      BY DEF WebPki, Rcurl
    <3> QED
      BY <3>1, <3>2
  <2> QED
    BY <2>1, <2>2
<1>4. Roots = IF order.roots = NoFile THEN DefaultRoots ELSE order.roots.has
  BY DEF Roots, InfoRoots, RequestRoots
<1>5. peer.from <= shaken /\ shaken <= peer.until => shaken \in peer.from..peer.until
  BY <1>1
<1> QED
  BY <1>2, <1>3, <1>4, <1>5 DEF Deserving, SignatureVerifies, CertificateVerifies, WebPkiVerifies

LEMMA VerdictIsSame == TlsInv => SameVerdict
<1> SUFFICES ASSUME TlsInv, verdict # "none" PROVE SameVerdict
  BY DEF SameVerdict
<1>1. verdict = "accepted" <=> OwnAccepts(shaken)
  BY DEF TlsInv, Judged
<1>2. TlsTypeOK /\ order.insecure \in BOOLEAN /\ verdict \in {"accepted", "refused"}
  BY TlsAssumption DEF TlsInv, TlsTypeOK
<1>3. verdict = "accepted" => Deserving
  BY <1>1, <1>2, AcceptedDeserves
<1>4. ASSUME ~order.bracketed
      PROVE  verdict = "accepted" <=> IF order.show THEN RequestAccepts(shaken) ELSE InfoAccepts(shaken)
  <2>1. InfoAccepts(shaken) <=> RequestAccepts(shaken)
    BY <1>2, <1>4, SetUpsAgree
  <2> QED
    BY <1>1, <2>1 DEF OwnAccepts
<1>5. ASSUME order.bracketed, order.show PROVE verdict = "refused"
  <2>1. ~OwnAccepts(shaken)
    BY <1>5 DEF OwnAccepts, InfoAccepts, NameValid
  <2> QED
    BY <1>1, <1>2, <2>1
<1> QED
  BY <1>3, <1>4, <1>5 DEF SameVerdict

LEMMA DescribedStep ==
    ASSUME TlsInv, [TlsNext]_<<tlsVars, pc, result>>
    PROVE  Described'
<1> USE DEF TlsInv, Described, Judged
<1>1. CASE StartTls \/ TlsBreaks \/ Requested
  <2>1. UNCHANGED tlsVars /\ pc # "done"
    BY <1>1 DEF StartTls, TlsBreaks, Requested
  <2> QED
    BY <2>1 DEF tlsVars, Nothing
<1>2. CASE LoadRequestRoots \/ LoadInfoRoots \/ ConfigureRequest \/ ConfigureInfo
  <2>1. UNCHANGED described /\ pc # "done"
    BY <1>2 DEF LoadRequestRoots, LoadInfoRoots, ConfigureRequest, ConfigureInfo
  <2> QED
    BY <2>1 DEF Nothing
<1>3. CASE \/ RequestRootsUnusable \/ RequestNotConfigured \/ ShakeForRequest
           \/ InfoRootsUnusable \/ InfoNotConfigured \/ ShakeForInfo
  <2>1. UNCHANGED described /\ pc # "done"
    BY <1>3 DEF RequestRootsUnusable, RequestNotConfigured, ShakeForRequest, InfoRootsUnusable,
                InfoNotConfigured, ShakeForInfo, Shake, Refuse
  <2> QED
    BY <2>1 DEF Nothing
<1>4. CASE DescribeLeaf
  <2> DEFINE days == NumDays(peer.until - clock)
  <2>1. described' = [status |-> Status(days), days |-> days, size |-> LeafInfo.size]
    BY <1>4 DEF DescribeLeaf, LeafInfo
  <2>2. UNCHANGED <<peer, clock, verdict>> /\ pc' = "done" /\ pc = "certificate"
    BY <1>4 DEF DescribeLeaf, EndWith
  <2>3. NumDays(peer.until - clock)' = days
    BY <2>2 DEF NumDays
  <2>4. described'.status = Status(days)
    BY <2>1
  <2>5. Status(NumDays(peer.until - clock))' = Status(days)
    BY <2>3 DEF Status
  <2> QED
    BY <2>2, <2>4, <2>5
<1>5. CASE Tick
  BY <1>5 DEF Tick, TlsPlaces, Nothing
<1>6. CASE UNCHANGED <<tlsVars, pc, result>>
  BY <1>6 DEF tlsVars, NumDays, Status
<1> QED
  BY <1>1, <1>2, <1>3, <1>4, <1>5, <1>6 DEF TlsNext

LEMMA TlsInvInit ==
    ASSUME pc = (IF order.show THEN "info" ELSE "roots"), TlsInit(Orders, Servers, 0..Horizon)
    PROVE  TlsInv
<1> USE DEF TlsInit
<1>1. TlsTypeOK
  BY TlsAssumption DEF TlsTypeOK, Nothing
<1>2. pc \in {"info", "roots"}
  OBVIOUS
<1> QED
  BY <1>1, <1>2 DEF TlsInv, Loaded, Judged, Described, Nothing

\* What is printed of the leaf is right at the time it is printed.
LEMMA DescribedIsSound == TlsInv => StatusSound
<1> SUFFICES ASSUME TlsInv, described.status # "none" PROVE StatusSound
  BY DEF StatusSound
<1> DEFINE left == peer.until - clock
           days == NumDays(left)
<1>1. clock \in Nat /\ shaken \in Nat /\ peer.until \in Nat /\ peer.from \in Nat
  BY TlsAssumption DEF TlsInv, TlsTypeOK, Certified
<1>2. Day \in Nat \ {0} /\ Soon \in Nat /\ Gap \in Nat /\ Gap < Day /\ Soon * Day \in Nat
  BY TlsAssumption
<1>3. left \in Int /\ days \in Int
  BY <1>1, NumDaysInt
<1>4. days < 0 <=> left + Day <= 0
  BY <1>3, DaysBelowZero
<1>5. Soon <= days <=> Soon * Day <= left
  BY <1>3, DaysEnough
<1>6. described.status = Status(days)
  BY DEF TlsInv, Described
<1>7. left + Day <= 0 <=> peer.until + Day <= clock
  BY <1>1, <1>2
<1>8. Soon * Day <= left <=> clock + Soon * Day <= peer.until
  BY <1>1, <1>2
<1> HIDE DEF days
<1>9. /\ Status(days) = "EXPIRED" <=> days < 0
      /\ Status(days) = "OK" <=> Soon <= days
  BY <1>2, <1>3 DEF Status
<1>10. ASSUME ~order.insecure PROVE ~(peer.until + Day <= clock)
  <2>1. shaken <= peer.until
    BY <1>1, <1>10, VerdictIsSame DEF TlsInv, Described, SameVerdict, Deserving
  <2>2. clock <= shaken + Gap
    BY DEF TlsInv, Judged, Described
  <2> QED
    BY <1>1, <1>2, <2>1, <2>2
<1> QED
  BY <1>4, <1>5, <1>6, <1>7, <1>8, <1>9, <1>10 DEF StatusSound

LEMMA TlsInvStep == TlsInv /\ [TlsNext]_<<tlsVars, pc, result>> => TlsInv'
<1> SUFFICES ASSUME TlsInv, [TlsNext]_<<tlsVars, pc, result>> PROVE TlsInv'
  OBVIOUS
<1>1. TlsTypeOK'
  BY TlsTypedStep DEF TlsInv
<1> QED
  BY <1>1, LoadedStep, JudgedStep, DescribedStep DEF TlsInv

LEMMA TlsInvAlways == TlsSpec => []TlsInv
BY TlsInvInit, TlsInvStep, PTL DEF TlsSpec

-----------------------------------------------------------------------------
(* Theorems *)

\* get_tls_info and send_https_request keep the types of their state.
THEOREM TlsTypeCorrect == TlsSpec => []TlsTypeOK
<1>1. TlsInv => TlsTypeOK
  BY DEF TlsInv
<1> QED
  BY <1>1, TlsInvAlways, PTL

\* The set-ups of send_https_request and of get_tls_info accept the same servers
\* at any time, except for the addresses in brackets that the latter refuses, and
\* none that the options do not ask for.
THEOREM VerdictsAgree == TlsSpec => []SameVerdict
BY TlsInvAlways, VerdictIsSame, PTL

\* The status of --cert-info-json is right whatever the lengths of a day and of
\* the warning, although num_days rounds toward zero and the clock is read anew.
THEOREM StatusAlwaysSound == TlsSpec => []StatusSound
BY TlsInvAlways, DescribedIsSound, PTL

-----------------------------------------------------------------------------
(* ftp: the order in which a request touches credentials, TLS, the transfer *)
(* type and the files.  The argument: the place of the task says what has   *)
(* been done by then (Passed), and the pieces that are delivered are a      *)
(* function of the listing and the ranges (Deliverable).                    *)

Ends == {"none", "ok", "failed", "panicked"}

\* Before the listing there is nothing to deliver.
Before ==
    pc \in {"connect", "secure", "login", "cwd", "type", "transfer", "put", "storing", "finish"}
      => piece = << >> /\ local = Untouched /\ shown = << >>

Typed == FtpTypeOK /\ Before

\* What lies behind each place.
Passed ==
    /\ opts.scheme = "ftps" /\ pc \notin {"connect", "secure", "done"} => secured
    /\ pc \in {"transfer", "put", "storing", "finish", "cut", "deliver", "write"} => binary
    /\ pc \in {"put", "storing", "finish"} => opts.upload
    /\ pc \in {"cut", "deliver", "write"} => ~opts.upload /\ ~opts.quote
    /\ pc = "write" => opts.output
    /\ pc # "done" => result = "none" /\ shown = << >>
    /\ pc # "write" /\ pc # "done" => local = Untouched

Ordered ==
    Passed /\ CredentialsCovered /\ StoredInBinary

\* What Cut leaves of the listing.
CutPieces == [k \in DOMAIN opts.range |-> Segment(opts.range[k])]

Deliverable ==
    pc \in {"deliver", "write"} =>
      /\ opts.range = NoRange => piece = Whole
      /\ opts.range # NoRange => Satisfiable(opts.range) /\ piece = CutPieces

Delivery == Deliverable /\ OutputOpenedLast /\ DeliveredWithinRange

-----------------------------------------------------------------------------
(* Segments *)

\* One range: its segment ends before its last byte.
LEMMA SegmentOfRange ==
    ASSUME NEW r \in [first : Nat, last : Nat], listing \in Nat,
           r.first < listing, r.first <= r.last
    PROVE  /\ Segment(r) \in [from : Nat, to : Nat]
           /\ Segment(r).from = r.first /\ Segment(r).to = Clipped(r).last
           /\ Clipped(r).last \in Nat
           /\ Within(Segment(r)) \subseteq Asked(r)
           /\ \A x, y \in Asked(r) : x < y => x \in Within(Segment(r))
<1> DEFINE last == Clipped(r).last
<1>1. last = IF r.last < listing THEN r.last ELSE listing - 1
  BY DEF Clipped
<1>2. last \in Nat /\ last <= r.last /\ last <= listing - 1
  BY <1>1
<1>3. \A y \in Asked(r) : y \in Nat /\ y <= last /\ r.first <= y
  BY <1>1, <1>2 DEF Asked, Positions
<1> HIDE DEF last
<1>4. Segment(r) = [from |-> r.first, to |-> last]
  BY DEF Segment, last
<1>5. Segment(r).from = r.first /\ Segment(r).to = last
  BY <1>4
<1>6. Within(Segment(r)) = r.first .. (last - 1)
  BY <1>5 DEF Within
<1>7. Within(Segment(r)) \subseteq Asked(r)
  BY <1>2, <1>6 DEF Asked, Positions
<1>8. \A x, y \in Asked(r) : x < y => x \in Within(Segment(r))
  BY <1>2, <1>3, <1>6
<1> QED
  BY <1>2, <1>4, <1>5, <1>7, <1>8 DEF last

\* item[start..end] for every range: pieces of what was asked for.
LEMMA CutWithinRange ==
    ASSUME opts.range \in Seq([first : Nat, last : Nat]), listing \in Nat, Satisfiable(opts.range)
    PROVE  PiecesOf(opts.range, CutPieces) /\ CutPieces \in Segments
<1> DEFINE D == DOMAIN opts.range
<1> DEFINE n == Len(opts.range)
<1>0. n \in Nat
  BY LenProperties
<1>d. D = 1..n
  BY LenProperties
<1>a. \A k \in D : opts.range[k] \in [first : Nat, last : Nat]
  BY <1>d, ElementOfSeq
<1>b. \A k \in D : opts.range[k].first < listing /\ opts.range[k].first <= opts.range[k].last
  BY DEF Satisfiable
<1>1. \A k \in D : /\ opts.range[k] \in [first : Nat, last : Nat]
                   /\ opts.range[k].first < listing /\ opts.range[k].first <= opts.range[k].last
  BY <1>a, <1>b
<1>2. DOMAIN CutPieces = D /\ \A k \in D : CutPieces[k] = Segment(opts.range[k])
  BY DEF CutPieces
<1>3. ASSUME NEW k \in D
      PROVE  /\ CutPieces[k] \in [from : Nat, to : Nat]
             /\ CutPieces[k].from = opts.range[k].first /\ CutPieces[k].to = Clipped(opts.range[k]).last
             /\ Clipped(opts.range[k]).last \in Nat
             /\ Within(CutPieces[k]) \subseteq Asked(opts.range[k])
             /\ \A x, y \in Asked(opts.range[k]) : x < y => x \in Within(CutPieces[k])
  BY <1>1, <1>2, SegmentOfRange
<1>4. ASSUME NEW j \in D, NEW k \in D, j # k
      PROVE  Within(CutPieces[j]) \cap Within(CutPieces[k]) = {}
  <2> DEFINE a == opts.range[j].first
             b == Clipped(opts.range[j]).last
             c == opts.range[k].first
             d == Clipped(opts.range[k]).last
  <2>1. b < c \/ d < a
    BY <1>4 DEF Satisfiable, Apart
  <2>2. a \in Nat /\ b \in Nat /\ c \in Nat /\ d \in Nat
    BY <1>1, <1>3
  <2>3. Within(CutPieces[j]) = a .. (b - 1) /\ Within(CutPieces[k]) = c .. (d - 1)
    BY <1>3 DEF Within
  <2> HIDE DEF a, b, c, d
  <2> QED
    BY <2>1, <2>2, <2>3
<1>5. CutPieces \in Segments
  <2>1. CutPieces = [k \in 1..n |-> CutPieces[k]]
    BY <1>2, <1>d DEF CutPieces
  <2>2. \A k \in 1..n : CutPieces[k] \in [from : Nat, to : Nat]
    BY <1>3, <1>d
  <2> HIDE DEF D
  <2>3. CutPieces \in [1..n -> [from : Nat, to : Nat]]
    <3> DEFINE p == CutPieces
    <3>1. p = [k \in 1..n |-> p[k]] /\ \A k \in 1..n : p[k] \in [from : Nat, to : Nat]
      BY <2>1, <2>2
    <3> HIDE DEF p
    <3>2. p \in [1..n -> [from : Nat, to : Nat]]
      BY <3>1
    <3> QED
      BY <3>2 DEF p
  <2> DEFINE S == [from : Nat, to : Nat]
  <2> HIDE DEF n, S
  <2>4. Seq(S) = UNION {[1..m -> S] : m \in Nat}
    BY SeqDef
  <2>5. CutPieces \in [1..n -> S]
    BY <2>3 DEF S
  <2>6. CutPieces \in Seq(S)
    BY <1>0, <2>4, <2>5, Zenon
  <2> QED
    BY <2>6 DEF S, Segments
<1> QED
  BY <1>2, <1>3, <1>4, <1>5 DEF PiecesOf

\* The type of the ranges of a run.
LEMMA RangeTyped ==
    ASSUME FtpTypeOK, opts.range # NoRange
    PROVE  opts.range \in Seq([first : Nat, last : Nat])
<1>1. opts.range \in Ranges \cup {NoRange}
  BY FtpAssumption DEF FtpTypeOK, Options
<1> QED
  BY <1>1, FtpAssumption

LEMMA ListingTyped ==
    ASSUME FtpTypeOK
    PROVE  listing \in Nat
<1>1. listing \in Lengths \cup {0} /\ Lengths \subseteq Nat
  BY FtpAssumption DEF FtpTypeOK
<1> QED
  BY <1>1

LEMMA EmptyTyped == << >> \in Segments
BY EmptySeq DEF Segments

LEMMA WholeTyped ==
    ASSUME listing \in Nat
    PROVE  Whole \in Segments
<1>1. [from |-> 0, to |-> listing] \in [from : Nat, to : Nat]
  OBVIOUS
<1> QED
  BY <1>1 DEF Whole, Segments

-----------------------------------------------------------------------------
(* Types *)

LEMMA NextPlace ==
    ASSUME NEW size \in Nat, NEW n \in 0..size, n < size
    PROVE  n + 1 \in 0..size
OBVIOUS

LEMMA TypedStep ==
    ASSUME Typed, [FtpNext]_<<ftpVars, pc, result>>
    PROVE  Typed'
<1>0. UploadSize \in Nat /\ 0 \in 0..UploadSize
  BY FtpAssumption
<1> USE FtpAssumption DEF Typed, FtpTypeOK, Before, Untouched
<1>1. CASE Connect
  BY <1>1 DEF Connect, DataUnchanged
<1>2. CASE Secure
  BY <1>2 DEF Secure, DataUnchanged
<1>3. CASE Login
  BY <1>3 DEF Login, DataUnchanged
<1>4. CASE NoCredentials
  BY <1>4 DEF NoCredentials, EndWith, DataUnchanged, session
<1>5. CASE ChangeDirectory
  BY <1>5 DEF ChangeDirectory, DataUnchanged
<1>6. CASE SetBinary
  BY <1>6 DEF SetBinary, DataUnchanged
<1>7. CASE BinaryRefused
  BY <1>7 DEF BinaryRefused, EndWith, DataUnchanged, session
<1>8. CASE Refused
  BY <1>8 DEF Refused, EndWith, DataUnchanged
<1>9. CASE OpenUpload
  BY <1>9 DEF OpenUpload, DataUnchanged
<1>10. CASE UploadMissing
  BY <1>10 DEF UploadMissing, EndWith, DataUnchanged, session
<1>11. CASE Store
  <2>1. [new |-> TRUE, len |-> 0] \in [new : BOOLEAN, len : 0..UploadSize]
    BY <1>0
  <2>2. remote' \in [new : BOOLEAN, len : 0..UploadSize]
    BY <1>11, <2>1 DEF Store
  <2> QED
    BY <1>11, <2>2 DEF Store
<1>12. CASE StoreByte
  <2>1. remote.len + 1 \in 0..UploadSize
    <3>1. remote.len \in 0..UploadSize /\ remote.len < UploadSize
      BY <1>12 DEF StoreByte
    <3> QED
      BY <1>0, <3>1, NextPlace
  <2>2. remote' \in [new : BOOLEAN, len : 0..UploadSize]
    BY <1>12, <2>1 DEF StoreByte
  <2> QED
    BY <1>12, <2>2 DEF StoreByte
<1>13. CASE StoreReturns
  BY <1>13 DEF StoreReturns, DataUnchanged
<1>14. CASE FinishUpload
  BY <1>14 DEF FinishUpload, EndWith
<1>15. CASE Quote
  BY <1>15 DEF Quote, EndWith, DataUnchanged, session
<1>16. ASSUME NEW n \in Lengths, List(n) PROVE Typed'
  BY <1>16 DEF List
<1>17. CASE Cut
  <2>1. piece' \in Segments
    <3>1. CASE opts.range = NoRange
      BY <1>17, <3>1, ListingTyped, WholeTyped DEF Cut
    <3>2. CASE opts.range # NoRange
      <4>1. Satisfiable(opts.range) /\ piece' = CutPieces
        BY <1>17, <3>2 DEF Cut, CutPieces
      <4> QED
        BY <3>2, <4>1, ListingTyped, RangeTyped, CutWithinRange
    <3> QED
      BY <3>1, <3>2
  <2> QED
    BY <1>17, <2>1 DEF Cut
<1>18. CASE RangeRefused
  BY <1>18 DEF RangeRefused, EndWith, DataUnchanged, session
<1>19. CASE ShowListing
  BY <1>19 DEF ShowListing, EndWith
<1>20. CASE PrintPanics
  BY <1>20 DEF PrintPanics, EndWith, DataUnchanged, session
<1>21. CASE OpenOutput
  <2>1. local' \in [new : BOOLEAN, whole : BOOLEAN]
    BY <1>21 DEF OpenOutput
  <2> QED
    BY <1>21, <2>1 DEF OpenOutput
<1>22. CASE OpenFails
  BY <1>22 DEF OpenFails, EndWith, DataUnchanged, session
<1>23. CASE WriteOutput
  <2>1. PICK all \in BOOLEAN : local' = [local EXCEPT !.whole = all]
    BY <1>23 DEF WriteOutput
  <2>2. local' \in [new : BOOLEAN, whole : BOOLEAN]
    BY <2>1
  <2> QED
    BY <1>23, <2>2 DEF WriteOutput, EndWith
<1>24. CASE UNCHANGED <<ftpVars, pc, result>>
  BY <1>24 DEF ftpVars
<1> QED
  BY <1>1, <1>2, <1>3, <1>4, <1>5, <1>6, <1>7, <1>8, <1>9, <1>10, <1>11, <1>12, <1>13, <1>14, <1>15, <1>16, <1>17, <1>18, <1>19, <1>20, <1>21, <1>22, <1>23, <1>24 DEF FtpNext

LEMMA TypedAlways == FtpSpec => []Typed
<1>1. FtpInit(FtpOptions) /\ pc = "connect" => Typed
  <2> SUFFICES ASSUME FtpInit(FtpOptions) PROVE Typed
    OBVIOUS
  <2>1. 0 \in 0..UploadSize
    BY FtpAssumption
  <2> QED
    BY <2>1, FtpAssumption, EmptyTyped DEF FtpInit, Typed, FtpTypeOK, Before, Untouched
<1>2. Typed /\ [FtpNext]_<<ftpVars, pc, result>> => Typed'
  BY TypedStep
<1> QED
  BY <1>1, <1>2, PTL DEF FtpSpec

\* The state of an ftp request keeps its types.
THEOREM FtpTypeCorrect == FtpSpec => []FtpTypeOK
<1>1. Typed => FtpTypeOK
  BY DEF Typed
<1> QED
  BY <1>1, TypedAlways, PTL

-----------------------------------------------------------------------------
(* Order *)

LEMMA OrderedStep ==
    ASSUME Ordered, [FtpNext]_<<ftpVars, pc, result>>
    PROVE  Ordered'
<1> USE DEF Ordered, Passed, CredentialsCovered, StoredInBinary, Untouched
<1>1. CASE Connect
  BY <1>1 DEF Connect, DataUnchanged
<1>2. CASE Secure
  BY <1>2 DEF Secure, DataUnchanged
<1>3. CASE Login
  BY <1>3 DEF Login, DataUnchanged
<1>4. CASE NoCredentials
  BY <1>4 DEF NoCredentials, EndWith, DataUnchanged, session
<1>5. CASE ChangeDirectory
  BY <1>5 DEF ChangeDirectory, DataUnchanged
<1>6. CASE SetBinary
  BY <1>6 DEF SetBinary, DataUnchanged
<1>7. CASE BinaryRefused
  BY <1>7 DEF BinaryRefused, EndWith, DataUnchanged, session
<1>8. CASE Refused
  BY <1>8 DEF Refused, EndWith, DataUnchanged
<1>9. CASE OpenUpload
  BY <1>9 DEF OpenUpload, DataUnchanged
<1>10. CASE UploadMissing
  BY <1>10 DEF UploadMissing, EndWith, DataUnchanged, session
<1>11. CASE Store
  BY <1>11 DEF Store
<1>12. CASE StoreByte
  BY <1>12 DEF StoreByte
<1>13. CASE StoreReturns
  BY <1>13 DEF StoreReturns, DataUnchanged
<1>14. CASE FinishUpload
  BY <1>14 DEF FinishUpload, EndWith
<1>15. CASE Quote
  BY <1>15 DEF Quote, EndWith, DataUnchanged, session
<1>16. ASSUME NEW n \in Lengths, List(n) PROVE Ordered'
  BY <1>16 DEF List
<1>17. CASE Cut
  BY <1>17 DEF Cut
<1>18. CASE RangeRefused
  BY <1>18 DEF RangeRefused, EndWith, DataUnchanged, session
<1>19. CASE ShowListing
  BY <1>19 DEF ShowListing, EndWith
<1>20. CASE PrintPanics
  BY <1>20 DEF PrintPanics, EndWith, DataUnchanged, session
<1>21. CASE OpenOutput
  BY <1>21 DEF OpenOutput
<1>22. CASE OpenFails
  BY <1>22 DEF OpenFails, EndWith, DataUnchanged, session
<1>23. CASE WriteOutput
  BY <1>23 DEF WriteOutput, EndWith
<1>24. CASE UNCHANGED <<ftpVars, pc, result>>
  BY <1>24 DEF ftpVars
<1> QED
  BY <1>1, <1>2, <1>3, <1>4, <1>5, <1>6, <1>7, <1>8, <1>9, <1>10, <1>11, <1>12, <1>13, <1>14, <1>15, <1>16, <1>17, <1>18, <1>19, <1>20, <1>21, <1>22, <1>23, <1>24 DEF FtpNext

LEMMA OrderedAlways == FtpSpec => []Ordered
<1>1. pc = "connect" /\ result = "none" /\ FtpInit(FtpOptions) => Ordered
  BY DEF FtpInit, Ordered, Passed, CredentialsCovered, StoredInBinary
<1>2. Ordered /\ [FtpNext]_<<ftpVars, pc, result>> => Ordered'
  BY OrderedStep
<1> QED
  BY <1>1, <1>2, PTL DEF FtpSpec

\* With ftps: no credentials travel in the clear.
THEOREM CredentialsAlwaysCovered == FtpSpec => []CredentialsCovered
<1>1. Ordered => CredentialsCovered
  BY DEF Ordered
<1> QED
  BY <1>1, OrderedAlways, PTL

\* No file is stored in text mode.
THEOREM AlwaysStoredInBinary == FtpSpec => []StoredInBinary
<1>1. Ordered => StoredInBinary
  BY DEF Ordered
<1> QED
  BY <1>1, OrderedAlways, PTL

-----------------------------------------------------------------------------
(* Delivery *)

LEMMA DeliveryStep ==
    ASSUME Typed, Ordered, Delivery, [FtpNext]_<<ftpVars, pc, result>>
    PROVE  Delivery'
<1> USE DEF Delivery, Deliverable, OutputOpenedLast, DeliveredWithinRange, Listed, Untouched
<1> USE DEF Typed, Before, Ordered, Passed
<1>0. ASSUME UNCHANGED <<opts, listing>>
      PROVE  /\ Whole' = Whole /\ CutPieces' = CutPieces
             /\ Satisfiable(opts.range)' <=> Satisfiable(opts.range)
             /\ \A pieces : PiecesOf(opts.range, pieces)' <=> PiecesOf(opts.range, pieces)
  BY <1>0 DEF Whole, CutPieces, Segment, Satisfiable, Apart, Clipped, PiecesOf, Within, Asked, Positions
<1>1. CASE Connect
  BY <1>1 DEF Connect, DataUnchanged
<1>2. CASE Secure
  BY <1>2 DEF Secure, DataUnchanged
<1>3. CASE Login
  BY <1>3 DEF Login, DataUnchanged
<1>4. CASE NoCredentials
  BY <1>4 DEF NoCredentials, EndWith, DataUnchanged, session
<1>5. CASE ChangeDirectory
  BY <1>5 DEF ChangeDirectory, DataUnchanged
<1>6. CASE SetBinary
  BY <1>6 DEF SetBinary, DataUnchanged
<1>7. CASE BinaryRefused
  BY <1>7 DEF BinaryRefused, EndWith, DataUnchanged, session
<1>8. CASE Refused
  BY <1>8 DEF Refused, EndWith, DataUnchanged
<1>9. CASE OpenUpload
  BY <1>9 DEF OpenUpload, DataUnchanged
<1>10. CASE UploadMissing
  BY <1>10 DEF UploadMissing, EndWith, DataUnchanged, session
<1>11. CASE Store
  BY <1>11 DEF Store
<1>12. CASE StoreByte
  BY <1>12 DEF StoreByte
<1>13. CASE StoreReturns
  BY <1>13 DEF StoreReturns, DataUnchanged
<1>14. CASE FinishUpload
  <2>1. opts.upload /\ local = Untouched
    BY <1>14 DEF FinishUpload
  <2>2. pc' = "done" /\ UNCHANGED <<opts, local>>
    BY <1>14 DEF FinishUpload, EndWith
  <2> QED
    BY <2>1, <2>2
<1>15. CASE Quote
  BY <1>15 DEF Quote, EndWith, DataUnchanged, session
<1>16. ASSUME NEW n \in Lengths, List(n) PROVE Delivery'
  BY <1>16 DEF List
<1>17. CASE Cut
  <2>1. pc' = "deliver" /\ result' = "none" /\ local' = Untouched /\ UNCHANGED <<opts, listing>>
    BY <1>17 DEF Cut
  <2>2. /\ opts.range = NoRange => piece' = Whole
        /\ opts.range # NoRange => Satisfiable(opts.range) /\ piece' = CutPieces
    BY <1>17 DEF Cut, CutPieces
  <2>3. Deliverable'
    BY <1>0, <2>1, <2>2
  <2> QED
    BY <2>1, <2>3
<1>18. CASE RangeRefused
  BY <1>18 DEF RangeRefused, EndWith, DataUnchanged, session
<1>19. CASE ShowListing
  <2>1. pc = "deliver" /\ pc' = "done" /\ local' = Untouched /\ shown' = piece
    BY <1>19 DEF ShowListing, EndWith
  <2>2. UNCHANGED <<opts, listing>>
    BY <1>19 DEF ShowListing
  <2>3. CASE opts.range = NoRange
    BY <1>0, <2>1, <2>2, <2>3
  <2>4. CASE opts.range # NoRange
    <3>1. PiecesOf(opts.range, CutPieces)
      BY <2>1, <2>4, RangeTyped, ListingTyped, CutWithinRange
    <3>2. PiecesOf(opts.range, shown)'
      BY <1>0, <2>1, <2>2, <2>4, <3>1
    <3> QED
      BY <2>1, <2>2, <2>4, <3>2
  <2> QED
    BY <2>3, <2>4
<1>20. CASE PrintPanics
  BY <1>20 DEF PrintPanics, EndWith, DataUnchanged, session
<1>21. CASE OpenOutput
  <2>1. pc = "deliver" /\ pc' = "write" /\ UNCHANGED <<opts, listing, piece, binary, result>>
    BY <1>21 DEF OpenOutput
  <2>2. Deliverable'
    BY <1>0, <2>1
  <2>3. Satisfiable(opts.range)' <=> Satisfiable(opts.range)
    BY <1>0, <2>1
  <2>4. result' = "none" /\ binary'
    BY <2>1
  <2> QED
    BY <2>1, <2>2, <2>3, <2>4
<1>22. CASE OpenFails
  BY <1>22 DEF OpenFails, EndWith, DataUnchanged, session
<1>23. CASE WriteOutput
  <2>1. pc = "write" /\ pc' = "done" /\ UNCHANGED <<opts, listing, binary>>
    BY <1>23 DEF WriteOutput, EndWith
  <2>2. Satisfiable(opts.range)' <=> Satisfiable(opts.range)
    BY <2>1, <1>0
  <2>3. OutputOpenedLast'
    BY <2>1, <2>2
  <2>4. opts.output'
    BY <2>1
  <2> QED
    BY <2>1, <2>3, <2>4
<1>24. CASE UNCHANGED <<ftpVars, pc, result>>
  <2>1. UNCHANGED <<opts, listing, piece, local, binary, shown, result, pc>>
    BY <1>24 DEF ftpVars
  <2>2. Satisfiable(opts.range)' <=> Satisfiable(opts.range)
    BY <1>0, <2>1
  <2>3. Deliverable' /\ OutputOpenedLast'
    BY <1>0, <2>1, <2>2
  <2>4. PiecesOf(opts.range, shown)' <=> PiecesOf(opts.range, shown)
    BY <1>0, <2>1
  <2>5. DeliveredWithinRange'
    BY <1>0, <2>1, <2>4
  <2> QED
    BY <2>3, <2>5
<1> QED
  BY <1>1, <1>2, <1>3, <1>4, <1>5, <1>6, <1>7, <1>8, <1>9, <1>10, <1>11, <1>12, <1>13, <1>14, <1>15, <1>16, <1>17, <1>18, <1>19, <1>20, <1>21, <1>22, <1>23, <1>24 DEF FtpNext

LEMMA DeliveryAlways == FtpSpec => []Delivery
<1>1. pc = "connect" /\ result = "none" /\ FtpInit(FtpOptions) => Delivery
  BY DEF FtpInit, Delivery, Deliverable, OutputOpenedLast, DeliveredWithinRange, Listed, Untouched
<1>2. Typed /\ Ordered /\ Delivery /\ [FtpNext]_<<ftpVars, pc, result>> => Delivery'
  BY DeliveryStep
<1> QED
  BY <1>1, <1>2, TypedAlways, OrderedAlways, PTL DEF FtpSpec

\* The -o file is truncated only once everything else has succeeded.
THEOREM OutputAlwaysOpenedLast == FtpSpec => []OutputOpenedLast
<1>1. Delivery => OutputOpenedLast
  BY DEF Delivery
<1> QED
  BY <1>1, DeliveryAlways, PTL

\* What is shown is the listing, or one piece of it for every range of -r, in
\* their order, without a byte that was not asked for or that another piece has,
\* and with all that were but the last of each range.
THEOREM AlwaysDeliveredWithinRange == FtpSpec => []DeliveredWithinRange
<1>1. Delivery => DeliveredWithinRange
  BY DEF Delivery
<1> QED
  BY <1>1, DeliveryAlways, PTL
=============================================================================
