------------------------------ MODULE AppProofs ------------------------------
(***************************************************************************)
(* What is shown of the handlers alone holds in a whole run of rcurl,      *)
(* whichever handler it is for, from main to its end; a run that fails     *)
(* says so; and a line that is picked from the history is what was saved.  *)
(***************************************************************************)
EXTENDS App, UrlProofs, QuickProofs

-----------------------------------------------------------------------------
(* The process around the handlers *)

\* Where the task is before a handler gets it.
Waiting == {"start", "menu", "logging", "save", "dispatch", "elsewhere"}

\* The steps that are no handler's, except for the one that calls it.
Around ==
    /\ UNCHANGED <<handler, handlerVars>>
    /\ \/ pc \in Waiting /\ pc' \in Waiting /\ result' = result
       \/ pc \in Waiting /\ pc' \in {"done", "exited"}
       \/ pc = "done" /\ pc' = "exited" /\ result' = result
       \/ pc' = pc /\ result' = result

LEMMA StepsOfTheRun ==
    ASSUME [AppNext]_vars
    PROVE  \/ Around \/ Dispatch
           \/ Http \/ Https \/ FtpRun \/ PingRun \/ DiskRun \/ WhoisRun \/ PortRun
<1> USE DEF Around, Waiting, appVars, Goto, EndWith
<1>1. CASE CommandGiven \/ OpenMenu \/ InitLogging \/ Save
  BY <1>1 DEF CommandGiven, OpenMenu, InitLogging, Save
<1>2. CASE UsageError \/ NoHistory \/ CancelMenu \/ Elsewhere
  BY <1>2 DEF UsageError, NoHistory, CancelMenu, Elsewhere
<1>3. CASE \E c \in PastClis : SelectLine(c) \/ LineRefused(c)
  BY <1>3 DEF SelectLine, LineRefused
<1>4. CASE Exit
  BY <1>4 DEF Exit
<1>5. CASE UNCHANGED vars
  BY <1>5 DEF vars, handlerVars
<1> QED
  BY <1>1, <1>2, <1>3, <1>4, <1>5 DEF AppNext, AppStep

-----------------------------------------------------------------------------
(* Where a run is *)

\* The places of the handler that this run is for.
Rooms == CASE handler = "ftp" -> FtpPlaces
           [] handler = "disk" -> DiskPlaces
           [] handler = "whois" -> WhoisPlaces
           [] handler = "port" -> PortPlaces
           [] handler = "ping" -> PingPlaces
           [] handler = "https" -> TlsPlaces
           [] handler = "http" -> {"build", "exchange"}
           [] OTHER -> {}

Placed == handler \in Handlers /\ pc \in AppPlaces \cup Rooms

\* A handler stays in its own places until it is done.
LEMMA BuildStays ==
    ASSUME BuildNext
    PROVE  pc \in {"build", "exchange"} /\ pc' \in {"build", "exchange", "done"}
BY DEF BuildNext, Build, Unbuildable, Redirected, Exhausted, Exchanged, FileChanges, Goto, EndWith

LEMMA TlsStays ==
    ASSUME TlsNext
    PROVE  pc \in TlsPlaces /\ pc' \in TlsPlaces \cup {"done"}
<1> USE DEF TlsPlaces, Goto, EndWith
<1>1. CASE StartTls \/ TlsBreaks \/ LoadRequestRoots \/ LoadInfoRoots \/ ConfigureRequest \/ ConfigureInfo
  BY <1>1 DEF StartTls, TlsBreaks, LoadRequestRoots, LoadInfoRoots, ConfigureRequest, ConfigureInfo
<1>2. CASE RequestRootsUnusable \/ InfoRootsUnusable \/ RequestNotConfigured \/ InfoNotConfigured
  BY <1>2 DEF RequestRootsUnusable, InfoRootsUnusable, RequestNotConfigured, InfoNotConfigured, Refuse
<1>3. CASE ShakeForRequest \/ ShakeForInfo \/ Requested \/ DescribeLeaf \/ Tick
  BY <1>3 DEF ShakeForRequest, ShakeForInfo, Shake, Refuse, Requested, DescribeLeaf, Tick
<1> QED
  BY <1>1, <1>2, <1>3 DEF TlsNext

\* Where ftp_request goes, and that it keeps its command line.
LEMMA FtpStays ==
    ASSUME FtpNext
    PROVE  pc \in FtpPlaces /\ pc' \in FtpPlaces \cup {"done"} /\ opts' = opts
<1> USE DEF Goto, EndWith, DataUnchanged, FtpPlaces, ftpVars, session
<1>1. CASE Connect \/ Secure \/ Login \/ NoCredentials \/ ChangeDirectory
  BY <1>1 DEF Connect, Secure, Login, NoCredentials, ChangeDirectory
<1>2. CASE SetBinary \/ BinaryRefused \/ Refused \/ OpenUpload \/ UploadMissing
  BY <1>2 DEF SetBinary, BinaryRefused, Refused, OpenUpload, UploadMissing
<1>3. CASE Store \/ StoreByte \/ StoreReturns \/ FinishUpload \/ Quote
  BY <1>3 DEF Store, StoreByte, StoreReturns, FinishUpload, Quote
<1>4. CASE (\E n \in Lengths : List(n)) \/ Cut \/ RangeRefused \/ ShowListing
  BY <1>4 DEF List, Cut, RangeRefused, ShowListing
<1>5. CASE PrintPanics \/ OpenOutput \/ OpenFails \/ WriteOutput
  BY <1>5 DEF PrintPanics, OpenOutput, OpenFails, WriteOutput
<1> QED
  BY <1>1, <1>2, <1>3, <1>4, <1>5 DEF FtpNext

LEMMA PingStays ==
    ASSUME PingNext
    PROVE  pc \in PingPlaces /\ pc' \in PingPlaces \cup {"done"}
<1> USE DEF PingPlaces, Goto, EndWith
<1>1. CASE Resolve
  BY <1>1 DEF Resolve
<1>2. CASE \E t \in Rtts : Answered(t)
  BY <1>2 DEF Answered
<1>3. CASE ProbeLost
  BY <1>3 DEF ProbeLost
<1>4. CASE Summarise
  BY <1>4 DEF Summarise
<1> QED
  BY <1>1, <1>2, <1>3, <1>4 DEF PingNext

LEMMA DiskStays ==
    ASSUME DiskNext
    PROVE  pc \in DiskPlaces /\ pc' \in DiskPlaces \cup {"done"}
<1> USE DEF DiskPlaces, Goto, EndWith
<1>1. CASE Enumerate \/ DiskFails
  BY <1>1 DEF Enumerate, DiskFails
<1>2. CASE \E d \in 1..Len(tree) : WalkFile(d)
  BY <1>2 DEF WalkFile
<1>3. CASE LayOut
  BY <1>3 DEF LayOut
<1>4. CASE PrintRows
  BY <1>4 DEF PrintRows
<1>5. CASE \E e \in 1..Len(tree) : \E k \in 1..Len(tree[e].sizes) : FileDeleted(e, k)
  BY <1>5 DEF FileDeleted
<1> QED
  BY <1>1, <1>2, <1>3, <1>4, <1>5 DEF DiskNext

LEMMA WhoisStays ==
    ASSUME WhoisNext
    PROVE  pc \in WhoisPlaces /\ pc' \in WhoisPlaces \cup {"done"}
<1> USE DEF WhoisPlaces, Goto, EndWith
<1>1. CASE Dial \/ SendQuery \/ WhoisFails \/ ReadOn \/ Wait
  BY <1>1 DEF Dial, SendQuery, WhoisFails, ReadOn, Wait
<1>2. CASE Finish \/ WhoisTimesOut
  BY <1>2 DEF Finish, WhoisTimesOut
<1>3. CASE (\E n \in 1..Len(answer) : Read(n)) \/ \E n \in 0..Len(response) : WhoisPrintPanics(n)
  BY <1>3 DEF Read, WhoisPrintPanics
<1> QED
  BY <1>1, <1>2, <1>3 DEF WhoisNext

LEMMA PortStays ==
    ASSUME PortNext
    PROVE  pc \in PortPlaces /\ pc' \in PortPlaces \cup {"done"}
<1> USE DEF PortPlaces, PortRunning, Goto, EndWith
<1>1. CASE Scan
  BY <1>1 DEF Scan
<1>2. CASE ScanFails \/ ShowAll \/ NothingKnown
  BY <1>2 DEF ScanFails, ShowAll, NothingKnown
<1>3. CASE PidKnown \/ Describe \/ LookUp
  BY <1>3 DEF PidKnown, Describe, LookUp
<1>4. CASE Signal \/ SignalFails
  BY <1>4 DEF Signal, SignalFails
<1>5. CASE \E p \in Pids : ProcessEnds(p) \/ ProcessStarts(p)
  BY <1>5 DEF ProcessEnds, ProcessStarts
<1> QED
  BY <1>1, <1>2, <1>3, <1>4, <1>5 DEF PortNext

LEMMA PlacedStep ==
    ASSUME Placed, [AppNext]_vars
    PROVE  Placed'
<1> USE DEF Placed, AppPlaces
<1>1. CASE Around
  <2>1. Rooms' = Rooms /\ handler' = handler
    BY <1>1 DEF Around, Rooms
  <2> QED
    BY <1>1, <2>1 DEF Around, Waiting
<1>2. CASE Dispatch
  <2>1. Rooms' = Rooms /\ handler' = handler
    BY <1>2 DEF Dispatch, appVars, Rooms
  <2>2. handler = "none" \/ Entrance \in AppPlaces \cup Rooms
    BY DEF Entrance, Rooms, Handlers, FtpPlaces, DiskPlaces, WhoisPlaces, PortPlaces, PingPlaces,
           TlsPlaces
  <2> QED
    BY <1>2, <2>1, <2>2 DEF Dispatch, Goto, EndWith
<1>3. CASE Http
  BY <1>3, BuildStays DEF Http, appVars, Rooms
<1>4. CASE Https
  BY <1>4, TlsStays DEF Https, appVars, Rooms
<1>5. CASE FtpRun
  BY <1>5, FtpStays DEF FtpRun, appVars, Rooms
<1>6. CASE PingRun
  BY <1>6, PingStays DEF PingRun, appVars, Rooms
<1>7. CASE DiskRun
  BY <1>7, DiskStays DEF DiskRun, appVars, Rooms
<1>8. CASE WhoisRun
  BY <1>8, WhoisStays DEF WhoisRun, appVars, Rooms
<1>9. CASE PortRun
  BY <1>9, PortStays DEF PortRun, appVars, Rooms
<1> QED
  BY <1>1, <1>2, <1>3, <1>4, <1>5, <1>6, <1>7, <1>8, <1>9, StepsOfTheRun

-----------------------------------------------------------------------------
(* ftp *)

\* No FTP request has begun.
Fresh == FtpInit({opts})

Promised ==
    CredentialsCovered /\ StoredInBinary /\ OutputOpenedLast /\ DeliveredWithinRange

\* The invariant of UrlProofs holds while ftp_request runs; before it, and in
\* other runs than those for ftp, nothing happens to its variables.
FtpInRun ==
    /\ FtpTypeOK
    /\ Promised
    /\ handler # "ftp" => Fresh
    /\ pc \in Waiting => Fresh
    /\ handler = "ftp" =>
         /\ pc \in Waiting => result = "none"
         /\ pc \in Waiting \cup FtpPlaces \cup {"done", "exited"}
         /\ pc \in FtpPlaces => Typed /\ Ordered /\ Delivery

LEMMA FreshPromises ==
    ASSUME Fresh
    PROVE  Promised
BY DEF Fresh, FtpInit, Untouched, Promised, CredentialsCovered, StoredInBinary,
       OutputOpenedLast, DeliveredWithinRange, Listed

LEMMA FreshTyped ==
    ASSUME Fresh, opts \in FtpOptions
    PROVE  FtpTypeOK
<1>1. 0 \in 0..UploadSize
  BY FtpAssumption
<1> QED
  BY <1>1, EmptyTyped DEF Fresh, FtpInit, Untouched, FtpTypeOK

LEMMA FreshLater == (Fresh => Promised)'
BY FreshPromises, PTL

LEMMA FreshBegins ==
    ASSUME Fresh, opts \in FtpOptions, pc \in Waiting, result = "none", result' = result,
           pc' = "connect", UNCHANGED ftpVars
    PROVE  (Typed /\ Ordered /\ Delivery)'
<1> USE DEF Fresh, FtpInit, ftpVars
<1>1. Typed'
  <2>1. 0 \in 0..UploadSize
    BY FtpAssumption
  <2> QED
    BY <2>1, FtpAssumption, EmptyTyped DEF Typed, FtpTypeOK, Before, Untouched
<1>2. Ordered'
  BY DEF Ordered, Passed, CredentialsCovered, StoredInBinary
<1>3. Delivery'
  BY <1>2 DEF Ordered, Passed, Delivery, Deliverable, OutputOpenedLast, DeliveredWithinRange,
              Listed, Untouched
<1> QED
  BY <1>1, <1>2, <1>3

\* A step of ftp_request inside of the process.
LEMMA FtpRunStep ==
    ASSUME FtpInRun, FtpRun
    PROVE  FtpInRun'
<1>1. handler = "ftp" /\ handler' = "ftp" /\ FtpNext
  BY DEF FtpRun, appVars
<1>2. pc \in FtpPlaces /\ pc' \in FtpPlaces \cup {"done"} /\ opts' = opts
  BY <1>1, FtpStays
<1>3. Typed /\ Ordered /\ Delivery
  BY <1>1, <1>2 DEF FtpInRun
<1>4. Typed' /\ Ordered' /\ Delivery'
  BY <1>1, <1>3, TypedStep, OrderedStep, DeliveryStep
<1>5. Promised' /\ FtpTypeOK'
  BY <1>4 DEF Promised, Typed, Ordered, Delivery
<1>6. pc' \notin Waiting
  BY <1>2 DEF Waiting, FtpPlaces
<1> QED
  BY <1>1, <1>2, <1>4, <1>5, <1>6 DEF FtpInRun

\* Steps that leave the variables of ftp_request alone.
LEMMA Bystander ==
    ASSUME UNCHANGED ftpVars
    PROVE  /\ Fresh => Fresh'
           /\ FtpTypeOK => FtpTypeOK'
           /\ opts' = opts
           /\ Promised /\ result' = result => Promised'
<1> USE DEF ftpVars
<1>1. Fresh => Fresh'
  BY DEF Fresh, FtpInit, Untouched
<1>2. Promised /\ result' = result => Promised'
  BY DEF Promised, CredentialsCovered, StoredInBinary, OutputOpenedLast,
         DeliveredWithinRange, Listed, Whole, PiecesOf, Within, Asked, Positions, Satisfiable, Apart, Clipped
<1>3. FtpTypeOK => FtpTypeOK'
  BY DEF FtpTypeOK, Positions
<1> QED
  BY <1>1, <1>2, <1>3

\* Other handlers than ftp_request, in other processes.
LEMMA OtherHandler ==
    ASSUME FtpInRun, UNCHANGED <<ftpVars, handler>>, handler # "ftp"
    PROVE  FtpInRun'
<1>1. Fresh' /\ FtpTypeOK'
  BY Bystander DEF FtpInRun
<1> QED
  BY <1>1, FreshLater DEF FtpInRun

LEMMA FtpInRunStep ==
    ASSUME FtpInRun, [AppNext]_vars
    PROVE  FtpInRun'
<1> USE DEF handlerVars, Waiting, FtpPlaces
<1>1. CASE Around
  <2>1. UNCHANGED <<ftpVars, handler>>
    BY <1>1 DEF Around
  <2>2. (Fresh => Fresh') /\ FtpTypeOK'
    BY <2>1, Bystander DEF FtpInRun
  <2>3. Promised'
    <3>1. CASE pc \in Waiting
      BY <2>2, <3>1, FreshLater DEF FtpInRun
    <3>2. CASE pc \notin Waiting
      BY <1>1, <2>1, <3>2, Bystander DEF Around, FtpInRun
    <3> QED
      BY <3>1, <3>2
  <2>4. pc' \in FtpPlaces => pc' = pc /\ result' = result
    BY <1>1 DEF Around
  <2>5. pc' \in FtpPlaces /\ Typed /\ Ordered /\ Delivery => (Typed /\ Ordered /\ Delivery)'
    BY <2>1, <2>4, TypedStep, OrderedStep, DeliveryStep
  <2>6. pc' \in Waiting => pc \in Waiting /\ result' = result
    BY <1>1 DEF Around
  <2>7. handler = "ftp" => pc' \in Waiting \cup FtpPlaces \cup {"done", "exited"}
    BY <1>1 DEF Around, FtpInRun
  <2> HIDE DEF Waiting, FtpPlaces
  <2> QED
    BY <2>1, <2>2, <2>3, <2>4, <2>5, <2>6, <2>7 DEF FtpInRun
<1>2. CASE Dispatch
  <2>1. UNCHANGED <<ftpVars, handler>> /\ pc = "dispatch"
    BY <1>2 DEF Dispatch, appVars
  <2>2. CASE handler = "ftp"
    <3>1. pc' = "connect" /\ result' = result
      BY <1>2, <2>2 DEF Dispatch, Entrance, Goto
    <3>2. Fresh /\ FtpTypeOK /\ opts \in FtpOptions /\ result = "none"
      BY <2>1, <2>2 DEF FtpInRun, FtpTypeOK
    <3>3. (Typed /\ Ordered /\ Delivery)'
      BY <2>1, <3>1, <3>2, FreshBegins
    <3>4. Promised' /\ FtpTypeOK'
      BY <2>1, <3>2, Bystander, FreshLater
    <3> QED
      BY <2>1, <2>2, <3>1, <3>2, <3>3, <3>4 DEF FtpInRun
  <2>3. CASE handler # "ftp"
    BY <2>1, <2>3, OtherHandler
  <2> QED
    BY <2>2, <2>3
<1>3. CASE FtpRun
  BY <1>3, FtpRunStep
<1>4. CASE Http \/ Https \/ PingRun \/ DiskRun \/ WhoisRun \/ PortRun
  <2>1. UNCHANGED <<ftpVars, handler>> /\ handler # "ftp"
    BY <1>4 DEF Http, Https, PingRun, DiskRun, WhoisRun, PortRun, appVars
  <2> QED
    BY <2>1, OtherHandler
<1> QED
  BY <1>1, <1>2, <1>3, <1>4, StepsOfTheRun

LEMMA FtpInRunInit == AppInit => FtpInRun
<1> SUFFICES ASSUME AppInit PROVE FtpInRun
  OBVIOUS
<1>1. Fresh
  BY DEF AppInit, FtpInit, Fresh
<1>2. opts \in Matters("ftp", FtpOptions)
  BY DEF AppInit, FtpInit
<1>3. (CHOOSE x \in FtpOptions : TRUE) \in FtpOptions
  BY FtpAssumption
<1>4. opts \in FtpOptions
  BY <1>2, <1>3 DEF Matters
<1>5. pc = "start" /\ result = "none"
  BY DEF AppInit
<1> QED
  BY <1>1, <1>4, <1>5, FreshPromises, FreshTyped DEF FtpInRun, Waiting, FtpPlaces

\* Whatever rcurl is called with and however it is called, by a command line or
\* from the menu: credentials are covered, files are stored in binary, the -o
\* file is opened last, and a listing is delivered within its range.
THEOREM FtpPromisesInEveryRun ==
    AppSpec => [](/\ CredentialsCovered
                  /\ StoredInBinary
                  /\ OutputOpenedLast
                  /\ DeliveredWithinRange)
<1>1. FtpInRun /\ [AppNext]_vars => FtpInRun'
  BY FtpInRunStep
<1>2. FtpInRun => /\ CredentialsCovered
                  /\ StoredInBinary
                  /\ OutputOpenedLast
                  /\ DeliveredWithinRange
  BY DEF FtpInRun, Promised
<1> QED
  BY <1>1, <1>2, FtpInRunInit, PTL DEF AppSpec

-----------------------------------------------------------------------------
(* https *)

\* No handshake has begun.
Unshaken == TlsInit({order}, {peer}, {clock})

TlsInRun ==
    /\ TlsTypeOK
    /\ SameVerdict /\ StatusSound
    /\ handler # "https" => Unshaken
    /\ pc \in Waiting => Unshaken
    /\ handler = "https" =>
         /\ pc \in Waiting \cup TlsPlaces \cup {"done", "exited"}
         /\ pc \in TlsPlaces => TlsInv

LEMMA UnshakenIsSound == Unshaken => SameVerdict /\ StatusSound
BY DEF Unshaken, TlsInit, SameVerdict, StatusSound, Nothing

LEMMA UnshakenLater == (Unshaken => SameVerdict /\ StatusSound)'
BY UnshakenIsSound, PTL

LEMMA TlsBystander ==
    ASSUME UNCHANGED tlsVars
    PROVE  /\ Unshaken => Unshaken'
           /\ TlsTypeOK => TlsTypeOK'
           /\ SameVerdict /\ StatusSound => SameVerdict' /\ StatusSound'
<1> USE DEF tlsVars
<1>1. Unshaken => Unshaken'
  BY DEF Unshaken, TlsInit, Nothing
<1>2. SameVerdict => SameVerdict'
  BY DEF SameVerdict, Deserving, RequestAccepts, InfoAccepts, RootsReadable, Constructible, NameValid,
         RequestVerifier, InfoVerifier, RequestRoots, InfoRoots, CertificateVerifies,
         SignatureVerifies, WebPkiVerifies
<1>3. StatusSound => StatusSound'
  BY DEF StatusSound
<1>4. TlsTypeOK => TlsTypeOK'
  BY DEF TlsTypeOK
<1> QED
  BY <1>1, <1>2, <1>3, <1>4

LEMMA TlsBegins ==
    ASSUME Unshaken, TlsTypeOK, pc' \in {"info", "roots"}, UNCHANGED tlsVars
    PROVE  TlsInv'
<1> USE DEF Unshaken, TlsInit, tlsVars
<1>1. TlsTypeOK'
  BY DEF TlsTypeOK
<1> QED
  BY <1>1 DEF TlsInv, Loaded, Judged, SameVerdict, Described, Nothing

\* What the invariant of UrlProofs promises of the handshake.
LEMMA TlsInvPromises == TlsInv => SameVerdict /\ StatusSound
BY VerdictIsSame, DescribedIsSound

LEMMA TlsInvPromisesLater == (TlsInv => SameVerdict /\ StatusSound)'
BY TlsInvPromises, PTL

LEMMA TlsInRunStep ==
    ASSUME TlsInRun, [AppNext]_vars
    PROVE  TlsInRun'
<1> USE DEF handlerVars, appVars
<1>1. CASE Around
  <2>1. UNCHANGED <<tlsVars, handler>>
    BY <1>1 DEF Around
  <2>2. pc' \in TlsPlaces => pc' = pc /\ result' = result
    BY <1>1 DEF Around, Waiting, TlsPlaces
  <2>3. pc' \in TlsPlaces /\ TlsInv => TlsInv'
    BY <2>1, <2>2, TlsInvStep
  <2>4. pc' \in Waiting => pc \in Waiting
    BY <1>1 DEF Around, Waiting
  <2>5. handler = "https" => pc' \in Waiting \cup TlsPlaces \cup {"done", "exited"}
    BY <1>1 DEF Around, TlsInRun
  <2> QED
    BY <2>1, <2>2, <2>3, <2>4, <2>5, TlsBystander DEF TlsInRun
<1>2. CASE Dispatch
  <2>1. UNCHANGED <<tlsVars, handler>> /\ pc = "dispatch" /\ pc \in Waiting
    BY <1>2 DEF Dispatch, Waiting
  <2>2. CASE handler = "https"
    <3>1. pc' \in {"info", "roots"}
      BY <1>2, <2>2 DEF Dispatch, Entrance, Goto
    <3>2. TlsInv'
      BY <2>1, <2>2, <3>1, TlsBegins DEF TlsInRun
    <3>3. pc' \in TlsPlaces /\ pc' \notin Waiting
      BY <3>1 DEF TlsPlaces, Waiting
    <3> QED
      BY <2>1, <2>2, <3>2, <3>3, TlsBystander DEF TlsInRun
  <2>3. CASE handler # "https"
    BY <2>1, <2>3, TlsBystander DEF TlsInRun
  <2> QED
    BY <2>2, <2>3
<1>3. CASE Https
  <2>1. handler = "https" /\ handler' = "https" /\ TlsNext
    BY <1>3 DEF Https
  <2>2. pc \in TlsPlaces /\ pc' \in TlsPlaces \cup {"done"}
    BY <2>1, TlsStays
  <2>3. TlsInv'
    BY <2>1, <2>2, TlsInvStep DEF TlsInRun
  <2>4. SameVerdict' /\ StatusSound'
    BY <2>3, TlsInvPromisesLater
  <2>5. TlsTypeOK'
    BY <2>3 DEF TlsInv
  <2>6. pc' \notin Waiting
    BY <2>2 DEF Waiting, TlsPlaces
  <2> QED
    BY <2>1, <2>2, <2>3, <2>4, <2>5, <2>6 DEF TlsInRun
<1>4. CASE Http \/ FtpRun \/ PingRun \/ DiskRun \/ WhoisRun \/ PortRun
  <2>1. UNCHANGED <<tlsVars, handler>> /\ handler # "https"
    BY <1>4 DEF Http, FtpRun, PingRun, DiskRun, WhoisRun, PortRun
  <2> QED
    BY <2>1, TlsBystander DEF TlsInRun
<1> QED
  BY <1>1, <1>2, <1>3, <1>4, StepsOfTheRun

LEMMA TlsInRunInit == AppInit => TlsInRun
<1> SUFFICES ASSUME AppInit PROVE TlsInRun
  OBVIOUS
<1>1. Unshaken
  BY DEF AppInit, TlsInit, Unshaken
<1>2. /\ order \in Matters("https", Orders)
      /\ peer \in Matters("https", Servers)
      /\ clock \in Matters("https", 0..Horizon)
  BY DEF AppInit, TlsInit
<1>3. /\ (CHOOSE x \in Orders : TRUE) \in Orders
      /\ (CHOOSE x \in Servers : TRUE) \in Servers
  BY TlsAssumption
<1>4. (CHOOSE x \in 0..Horizon : TRUE) \in 0..Horizon
  <2>1. 0 \in 0..Horizon
    BY TlsAssumption
  <2> QED
    BY <2>1
<1>5. order \in Orders /\ peer \in Servers /\ clock \in 0..Horizon
  BY <1>2, <1>3, <1>4 DEF Matters
<1>6. pc = "start"
  BY DEF AppInit
<1>7. TlsTypeOK
  BY <1>1, <1>5, TlsAssumption DEF Unshaken, TlsInit, TlsTypeOK, Nothing
<1> QED
  BY <1>1, <1>6, <1>7, UnshakenIsSound DEF TlsInRun, Waiting, TlsPlaces

\* In every run, of whatever handler and with whatever becomes of it: what a
\* request and get_tls_info, with the verifiers that each of them sets up, come
\* to for a server is the same, and no more than it deserves; and the status
\* that is printed is right.
THEOREM TlsPromisesInEveryRun == AppSpec => [](SameVerdict /\ StatusSound)
<1>1. TlsInRun /\ [AppNext]_vars => TlsInRun'
  BY TlsInRunStep
<1>2. TlsInRun => SameVerdict /\ StatusSound
  BY DEF TlsInRun
<1> QED
  BY <1>1, <1>2, TlsInRunInit, PTL DEF AppSpec

-----------------------------------------------------------------------------
(* http *)

BuildInRun ==
    /\ SameRequestEveryHop
    /\ handler # "http" => built = << >>
    /\ pc \in Waiting => built = << >>
    /\ handler = "http" =>
         /\ pc \in Waiting => result = "none"
         /\ pc \in Waiting \cup {"build", "exchange", "done", "exited"}
         /\ pc \in {"build", "exchange"} => BuildInv

LEMMA NothingBuilt == built = << >> => SameRequestEveryHop
BY DEF SameRequestEveryHop

LEMMA NothingBuiltLater == (built = << >> => SameRequestEveryHop)'
BY NothingBuilt, PTL

LEMMA BuildInvPromises == BuildInv => SameRequestEveryHop
BY DEF BuildInv, Repeatable, SameRequestEveryHop

LEMMA BuildInvPromisesLater == (BuildInv => SameRequestEveryHop)'
BY BuildInvPromises, PTL

LEMMA BuildInRunStep ==
    ASSUME BuildInRun, [AppNext]_vars
    PROVE  BuildInRun'
<1> USE DEF handlerVars, appVars
<1>1. CASE Around
  <2>1. UNCHANGED <<buildVars, handler>> /\ built' = built
    BY <1>1 DEF Around, buildVars
  <2>2. pc' \in {"build", "exchange"} => pc' = pc /\ result' = result
    BY <1>1 DEF Around, Waiting
  <2>3. pc' \in {"build", "exchange"} /\ BuildInv => BuildInv'
    BY <2>1, <2>2, RepeatableStep
  <2>4. pc' \in Waiting => pc \in Waiting /\ result' = result
    BY <1>1 DEF Around, Waiting
  <2>5. handler = "http" => pc' \in Waiting \cup {"build", "exchange", "done", "exited"}
    BY <1>1 DEF Around, BuildInRun
  <2>6. SameRequestEveryHop'
    <3>1. CASE pc \in Waiting
      BY <2>1, <3>1, NothingBuiltLater DEF BuildInRun
    <3>2. CASE pc \notin Waiting
      <4>1. result' = result /\ rewritten' = rewritten
        BY <1>1, <3>2 DEF Around, buildVars
      <4> QED
        BY <2>1, <4>1 DEF BuildInRun, SameRequestEveryHop
    <3> QED
      BY <3>1, <3>2
  <2> QED
    BY <2>1, <2>2, <2>3, <2>4, <2>5, <2>6 DEF BuildInRun
<1>2. CASE Dispatch
  <2>1. UNCHANGED <<buildVars, handler>> /\ built' = built /\ built = << >> /\ pc \in Waiting
    BY <1>2 DEF Dispatch, Waiting, buildVars, BuildInRun
  <2>2. SameRequestEveryHop'
    BY <2>1, NothingBuiltLater
  <2>3. CASE handler = "http"
    <3>1. pc' = "build" /\ result' = "none"
      BY <1>2, <2>1, <2>3 DEF Dispatch, Entrance, Goto, BuildInRun
    <3>2. built' \in Seq({0})
      BY <2>1
    <3>3. BuildInv'
      BY <2>1, <3>1, <3>2 DEF BuildInv, Repeatable, GoesOn
    <3> QED
      BY <2>1, <2>2, <2>3, <3>1, <3>3 DEF BuildInRun, Waiting
  <2>4. CASE handler # "http"
    BY <2>1, <2>2, <2>4 DEF BuildInRun
  <2> QED
    BY <2>3, <2>4
<1>3. CASE Http
  <2>1. handler = "http" /\ handler' = "http" /\ BuildNext
    BY <1>3 DEF Http
  <2>2. pc \in {"build", "exchange"} /\ pc' \in {"build", "exchange", "done"}
    BY <2>1, BuildStays
  <2>3. BuildInv'
    BY <2>1, <2>2, RepeatableStep DEF BuildInRun
  <2>4. SameRequestEveryHop'
    BY <2>3, BuildInvPromisesLater
  <2> QED
    BY <2>1, <2>2, <2>3, <2>4 DEF BuildInRun, Waiting
<1>4. CASE Https \/ FtpRun \/ PingRun \/ DiskRun \/ WhoisRun \/ PortRun
  <2>1. UNCHANGED <<buildVars, handler>> /\ handler # "http"
    BY <1>4 DEF Https, FtpRun, PingRun, DiskRun, WhoisRun, PortRun
  <2>2. built' = << >>
    BY <2>1 DEF BuildInRun, buildVars
  <2> QED
    BY <2>1, <2>2, NothingBuiltLater DEF BuildInRun
<1> QED
  BY <1>1, <1>2, <1>3, <1>4, StepsOfTheRun

\* In every run, of whatever handler: a redirect repeats the request.
THEOREM RedirectsRepeatInEveryRun == AppSpec => []SameRequestEveryHop
<1>1. AppInit => BuildInRun
  BY NothingBuilt DEF AppInit, BuildInit, BuildInRun, Waiting
<1>2. BuildInRun /\ [AppNext]_vars => BuildInRun'
  BY BuildInRunStep
<1>3. BuildInRun => SameRequestEveryHop
  BY DEF BuildInRun
<1> QED
  BY <1>1, <1>2, <1>3, PTL DEF AppSpec

LEMMA LabelsInRunStep ==
    ASSUME Labels, [AppNext]_vars
    PROVE  Labels'
<1>1. CASE Http
  BY <1>1, LabelsStep DEF Http
<1>2. CASE Https \/ FtpRun \/ PingRun \/ DiskRun \/ WhoisRun \/ PortRun
  BY <1>2, LabelsQuiet DEF Https, FtpRun, PingRun, DiskRun, WhoisRun, PortRun, buildVars
<1>3. CASE Around \/ Dispatch
  BY <1>3, LabelsQuiet DEF Around, Dispatch, handlerVars, buildVars
<1> QED
  BY <1>1, <1>2, <1>3, StepsOfTheRun

\* In every run, of whatever handler: a request says what its body is.
THEOREM RequestsLabelledInEveryRun == AppSpec => []BodyLabelled
<1>1. AppInit => Labels
  <2> SUFFICES ASSUME AppInit PROVE Labels
    OBVIOUS
  <2>1. Matters("http", Payloads) \subseteq Payloads
    BY BuildAssumption DEF Matters
  <2> QED
    BY <2>1 DEF AppInit, BuildInit, Labels
<1>2. Labels /\ [AppNext]_vars => Labels'
  BY LabelsInRunStep
<1> QED
  BY <1>1, <1>2, LabelsFit, PTL DEF AppSpec

-----------------------------------------------------------------------------
(* ping, disk, whois and port *)

\* A step of the run that is not one of the handler leaves its variables alone,
\* and its result unless the handler has not begun.
LEMMA StepsAside ==
    ASSUME Placed, [AppNext]_vars
    PROVE  /\ handler' = handler /\ Placed'
           /\ PingRun \/ UNCHANGED pingVars
           /\ DiskRun \/ UNCHANGED diskVars
           /\ WhoisRun \/ UNCHANGED whoisVars
           /\ PortRun \/ UNCHANGED portVars
           /\ handler = "ping" => PingRun \/ Around \/ pc \in Waiting
           /\ handler = "disk" => DiskRun \/ Around \/ pc \in Waiting
           /\ handler = "whois" => WhoisRun \/ Around \/ pc \in Waiting
           /\ handler = "port" => PortRun \/ Around \/ pc \in Waiting
<1>1. CASE Around
  BY <1>1, PlacedStep DEF Around, handlerVars
<1>2. CASE Dispatch
  BY <1>2, PlacedStep DEF Dispatch, appVars, handlerVars, Waiting
<1>3. CASE Http \/ Https \/ FtpRun
  BY <1>3, PlacedStep DEF Http, Https, FtpRun, appVars
<1>4. CASE PingRun \/ DiskRun \/ WhoisRun \/ PortRun
  BY <1>4, PlacedStep DEF PingRun, DiskRun, WhoisRun, PortRun, appVars
<1> QED
  BY <1>1, <1>2, <1>3, <1>4, StepsOfTheRun

\* The steps that a handler sees while it waits, is being called or has ended.
Idling(idle) ==
    \/ idle
    \/ pc' = pc /\ result' = result
    \/ pc = "done" /\ pc' = "exited" /\ result' = result

LEMMA AroundIdles ==
    ASSUME Around, NEW idle \in BOOLEAN, pc \in Waiting => idle
    PROVE  Idling(idle)
BY DEF Around, Idling

\* Until ping has finished, and in other runs, no statistics are printed.
PingInRun ==
    /\ Placed /\ PingInv
    /\ handler # "ping" \/ pc \in Waiting => summary = << >>

LEMMA PingInRunStep ==
    ASSUME PingInRun, [AppNext]_vars
    PROVE  PingInRun'
<1>1. handler' = handler /\ Placed'
  BY StepsAside DEF PingInRun
<1>2. CASE PingRun
  <2>1. PingNext /\ handler = "ping"
    BY <1>2 DEF PingRun
  <2>2. PingInv'
    BY <2>1, PingInvStep DEF PingInRun
  <2>3. pc' \notin Waiting
    BY <2>1, PingStays DEF PingPlaces, Waiting
  <2> QED
    BY <1>1, <2>1, <2>2, <2>3 DEF PingInRun
<1>3. CASE ~PingRun
  <2>1. UNCHANGED <<transmitted, rtts, lost, summary>>
    BY <1>3, StepsAside DEF PingInRun, pingVars
  <2>2. Idling(summary = << >>)
    <3>1. handler # "ping" \/ pc \in Waiting \/ Around
      BY <1>3, StepsAside DEF PingInRun
    <3>2. CASE Around /\ pc \notin Waiting
      BY <3>2, AroundIdles
    <3> QED
      BY <3>1, <3>2 DEF PingInRun, Idling
  <2>3. PingInv'
    BY <2>1, <2>2 DEF PingInRun, PingInv, PingTypeOK, Counted, StatisticsSound, Idling
  <2>4. summary = << >> \/ pc' \notin Waiting
    BY <2>2 DEF Idling, PingInRun, Waiting
  <2> QED
    BY <1>1, <2>1, <2>3, <2>4 DEF PingInRun
<1> QED
  BY <1>2, <1>3

\* Until disk has laid its rows out, and in other runs, there are none.
DiskInRun ==
    /\ Placed /\ DiskInv
    /\ handler # "disk" \/ pc \in Waiting => rows = << >>

LEMMA DiskInRunStep ==
    ASSUME DiskInRun, [AppNext]_vars
    PROVE  DiskInRun'
<1>1. handler' = handler /\ Placed'
  BY StepsAside DEF DiskInRun
<1>2. CASE DiskRun
  <2>1. DiskNext /\ handler = "disk"
    BY <1>2 DEF DiskRun
  <2>2. DiskInv'
    BY <2>1, DiskInvStep DEF DiskInRun
  <2>3. pc' \notin Waiting
    BY <2>1, DiskStays DEF DiskPlaces, Waiting
  <2> QED
    BY <1>1, <2>1, <2>2, <2>3 DEF DiskInRun
<1>3. CASE ~DiskRun
  <2>1. UNCHANGED diskVars /\ rows' = rows
    BY <1>3, StepsAside DEF DiskInRun, diskVars
  <2>2. Idling(rows = << >>)
    <3>1. handler # "disk" \/ pc \in Waiting \/ Around
      BY <1>3, StepsAside DEF DiskInRun
    <3>2. CASE Around /\ pc \notin Waiting
      BY <3>2, AroundIdles
    <3> QED
      BY <3>1, <3>2 DEF DiskInRun, Idling
  <2>3. DiskInv'
    BY <2>1, <2>2, DiskQuiet DEF DiskInRun, Idling
  <2>4. rows = << >> \/ pc' \notin Waiting
    BY <2>2 DEF Idling, DiskInRun, Waiting
  <2> QED
    BY <1>1, <2>1, <2>3, <2>4 DEF DiskInRun
<1> QED
  BY <1>2, <1>3

\* Until whois has finished, and in other runs, no answer is printed.
WhoisInRun ==
    /\ Placed /\ WhoisInv
    /\ handler # "whois" \/ pc \in Waiting => output = << >>

LEMMA WhoisInRunStep ==
    ASSUME WhoisInRun, [AppNext]_vars
    PROVE  WhoisInRun'
<1>1. handler' = handler /\ Placed'
  BY StepsAside DEF WhoisInRun
<1>2. CASE WhoisRun
  <2>1. WhoisNext /\ handler = "whois"
    BY <1>2 DEF WhoisRun
  <2>2. WhoisInv'
    BY <2>1, WhoisInvStep DEF WhoisInRun
  <2>3. pc' \notin Waiting
    BY <2>1, WhoisStays DEF WhoisPlaces, Waiting
  <2> QED
    BY <1>1, <2>1, <2>2, <2>3 DEF WhoisInRun
<1>3. CASE ~WhoisRun
  <2>1. UNCHANGED <<target, server, answer, ending, quiet, response, received, split, output>>
    BY <1>3, StepsAside DEF WhoisInRun, whoisVars
  <2>2. Idling(output = << >>)
    <3>1. handler # "whois" \/ pc \in Waiting \/ Around
      BY <1>3, StepsAside DEF WhoisInRun
    <3>2. CASE Around /\ pc \notin Waiting
      BY <3>2, AroundIdles
    <3> QED
      BY <3>1, <3>2 DEF WhoisInRun, Idling
  <2>3. WhoisInv'
    BY <2>1, <2>2 DEF WhoisInRun, WhoisInv, WhoisTypeOK, Kept, WholeAnswerOrNone, Idling
  <2>4. output = << >> \/ pc' \notin Waiting
    BY <2>2 DEF Idling, WhoisInRun, Waiting
  <2> QED
    BY <1>1, <2>1, <2>3, <2>4 DEF WhoisInRun
<1> QED
  BY <1>2, <1>3

\* Until port has signalled, and in other runs, no process is a victim of it.
PortInRun ==
    /\ Placed /\ PortInv
    /\ handler # "port" \/ pc \in Waiting => victim = {}

LEMMA PortInRunStep ==
    ASSUME PortInRun, [AppNext]_vars
    PROVE  PortInRun'
<1>1. handler' = handler /\ Placed'
  BY StepsAside DEF PortInRun
<1>2. CASE PortRun
  <2>1. PortNext /\ handler = "port"
    BY <1>2 DEF PortRun
  <2>2. PortInv'
    BY <2>1, PortInvStep DEF PortInRun
  <2>3. pc' \notin Waiting
    BY <2>1, PortStays DEF PortPlaces, Waiting
  <2> QED
    BY <1>1, <2>1, <2>2, <2>3 DEF PortInRun
<1>3. CASE ~PortRun
  <2>1. UNCHANGED <<job, sockets, born, living, entries, holders, told, victim>>
    BY <1>3, StepsAside DEF PortInRun, portVars
  <2>2. pc' = pc \/ (pc = "done" /\ pc' = "exited") \/ victim = {}
    <3>1. handler # "port" \/ pc \in Waiting \/ Around
      BY <1>3, StepsAside DEF PortInRun
    <3> QED
      BY <3>1 DEF PortInRun, Around
  <2>3. pc' \in {"lookup", "signal"} => pc' = pc
    <3>1. CASE handler = "port"
      <4>1. Around \/ pc \in Waiting
        BY <1>3, <3>1, StepsAside DEF PortInRun
      <4>2. CASE Around
        BY <4>2 DEF Around, Waiting
      <4>3. CASE ~Around /\ pc \in Waiting
        <5>1. Dispatch
          BY <1>3, <3>1, <4>3, StepsOfTheRun DEF Http, Https, FtpRun, PingRun, DiskRun, WhoisRun
        <5> QED
          BY <3>1, <5>1 DEF Dispatch, Entrance, Goto
      <4> QED
        BY <4>1, <4>2, <4>3
    <3>2. CASE handler # "port"
      BY <1>1, <3>2 DEF Placed, Rooms, AppPlaces, FtpPlaces, DiskPlaces, WhoisPlaces,
                        PingPlaces, TlsPlaces
    <3> QED
      BY <3>1, <3>2
  <2>4. told' \in Messages
    BY <2>1 DEF PortInRun, PortInv, PortTypeOK
  <2>5. PortInv'
    <3>1. CASE pc \in {"done", "exited"} => pc' \in {pc, "exited"}
      BY <2>1, <2>3, <2>4, <3>1, PortQuiet DEF PortInRun, PortInv, Aiming
    <3>2. CASE victim = {}
      <4>1. EntriesOf(job.port)' = EntriesOf(job.port) /\ Target' = Target
        BY <2>1 DEF EntriesOf, FirstEntry, Target
      <4> QED
        BY <2>1, <2>3, <3>2, <4>1
           DEF PortInRun, PortInv, PortTypeOK, Announced, Aiming, VictimServedPort
    <3> QED
      BY <2>2, <3>1, <3>2
  <2>6. victim = {} \/ pc' \notin Waiting
    BY <2>2 DEF PortInRun, Waiting
  <2> QED
    BY <1>1, <2>1, <2>5, <2>6 DEF PortInRun
<1> QED
  BY <1>2, <1>3

\* Matters takes its values from the set it is given.
LEMMA MattersWithin ==
    ASSUME NEW h, NEW S, S # {}
    PROVE  Matters(h, S) \subseteq S
BY DEF Matters

LEMMA QuickInit ==
    ASSUME AppInit
    PROVE  PingInRun /\ DiskInRun /\ WhoisInRun /\ PortInRun
<1>1. Placed /\ pc = "start"
  BY DEF AppInit, Placed, AppPlaces
<1>2. PingInv /\ summary = << >>
  BY PingInvInit DEF AppInit, PingInit
<1>3. DiskInv /\ rows = << >>
  BY DiskAssumption, MattersWithin, DiskInvInit DEF AppInit, DiskInit
<1>4. WhoisInv /\ output = << >>
  <2>1. Endings # {}
    BY DEF Endings
  <2>2. /\ Matters("whois", Targets) \subseteq Targets /\ Matters("whois", Answers) \subseteq Answers
        /\ Matters("whois", Endings) \subseteq Endings
    BY <2>1, WhoisAssumption, MattersWithin
  <2>3. WhoisInit(Matters("whois", Targets), Matters("whois", Answers), Matters("whois", Endings))
    BY DEF AppInit
  <2> QED
    BY <2>2, <2>3, WhoisInvInit DEF WhoisInit
<1>5. PortInv /\ victim = {}
  <2>1. /\ Matters("port", PortJobs) \subseteq PortJobs
        /\ Matters("port", Tables) \subseteq Tables
    BY PortAssumption, MattersWithin
  <2>2. PortInit(Matters("port", PortJobs), Matters("port", Tables))
    BY DEF AppInit
  <2> QED
    BY <1>1, <2>1, <2>2, PortInvInit DEF PortInit
<1> QED
  BY <1>1, <1>2, <1>3, <1>4, <1>5 DEF PingInRun, DiskInRun, WhoisInRun, PortInRun

\* In every run, of whatever handler: the statistics of ping, the listing of
\* disk, the answer of whois and the victim of port are right.
THEOREM QuickPromisesInEveryRun ==
    AppSpec => [](/\ StatisticsSound
                  /\ RowsRight /\ NamesFill /\ FiguresReadBack
                  /\ WholeAnswerOrNone
                  /\ VictimServedPort)
<1> DEFINE I == PingInRun /\ DiskInRun /\ WhoisInRun /\ PortInRun
<1>1. AppInit => I
  BY QuickInit
<1>2. I /\ [AppNext]_vars => I'
  BY PingInRunStep, DiskInRunStep, WhoisInRunStep, PortInRunStep
<1>3. I => /\ StatisticsSound
           /\ RowsRight /\ NamesFill /\ FiguresReadBack
           /\ WholeAnswerOrNone
           /\ VictimServedPort
  BY DEF PingInRun, PingInv, DiskInRun, DiskInv, WhoisInRun, WhoisInv, PortInRun, PortInv
<1> HIDE DEF I
<1> QED
  BY <1>1, <1>2, <1>3, PTL DEF AppSpec

-----------------------------------------------------------------------------
(* Types *)

\* Every variable keeps its type in every run, and the task is always in a
\* place of its handler or of main.
THEOREM RunTypeCorrect == AppSpec => []AppTypeOK
<1> DEFINE Flags == {interactive, logging, saved, reported} \subseteq BOOLEAN
           I == /\ PingInRun /\ DiskInRun /\ WhoisInRun /\ PortInRun
                /\ FtpInRun /\ TlsInRun /\ Flags
<1>1. AppInit => I
  BY QuickInit, FtpInRunInit, TlsInRunInit DEF AppInit
<1>2. ASSUME Flags, [AppNext]_vars PROVE Flags'
  <2> USE <1>2 DEF appVars, Goto, EndWith
  <2>1. CASE AppStep
    BY <2>1 DEF AppStep, UsageError, CommandGiven, NoHistory, OpenMenu, InitLogging, Save,
                Dispatch, Exit
  <2>2. CASE CancelMenu \/ Elsewhere
    BY <2>2 DEF CancelMenu, Elsewhere
  <2>3. CASE \E c \in PastClis : SelectLine(c) \/ LineRefused(c)
    BY <2>3 DEF SelectLine, LineRefused
  <2>4. CASE Http \/ Https \/ FtpRun \/ PingRun \/ DiskRun \/ WhoisRun \/ PortRun
    BY <2>4 DEF Http, Https, FtpRun, PingRun, DiskRun, WhoisRun, PortRun
  <2>5. CASE UNCHANGED vars
    BY <2>5 DEF vars
  <2> QED
    BY <2>1, <2>2, <2>3, <2>4, <2>5 DEF AppNext
<1>3. I /\ [AppNext]_vars => I'
  <2> HIDE DEF Flags
  <2> QED
    BY <1>2, PingInRunStep, DiskInRunStep, WhoisInRunStep, PortInRunStep, FtpInRunStep, TlsInRunStep
<1>4. I => AppTypeOK
  BY DEF AppTypeOK, PingInRun, PingInv, DiskInRun, DiskInv, WhoisInRun, WhoisInv, PortInRun, PortInv,
         FtpInRun, TlsInRun, Placed, Rooms
<1> HIDE DEF I
<1> QED
  BY <1>1, <1>3, <1>4, PTL DEF AppSpec

-----------------------------------------------------------------------------
(* Errors are told *)

\* Either there is a logger, or the command has not been run: then it is still
\* on its way, or it ended in the menu.
Heard ==
    /\ logging \in BOOLEAN /\ handler \in Handlers
    /\ pc = "exited" => reported \/ (interactive /\ ~saved)
    /\ ~logging /\ pc # "exited" =>
         /\ ~saved
         /\ pc \in {"start", "menu", "logging", "done"}
         /\ pc \in {"menu", "done"} => interactive

\* A handler is at none of these places, goes back to none of the first two, and
\* does not end the process itself.
Outside == {"start", "menu", "logging", "done", "exited"}

LEMMA HandlersAreInside ==
    ASSUME Http \/ Https \/ FtpRun \/ PingRun \/ DiskRun \/ WhoisRun \/ PortRun
    PROVE  pc \notin Outside /\ pc' \notin {"start", "menu", "exited"}
<1> USE DEF Outside
<1>1. CASE Http \/ Https
  BY <1>1, BuildStays, TlsStays DEF Http, Https, TlsPlaces
<1>2. CASE FtpRun \/ PingRun
  BY <1>2, FtpStays, PingStays DEF FtpRun, PingRun, FtpPlaces, PingPlaces
<1>3. CASE DiskRun \/ WhoisRun \/ PortRun
  BY <1>3, DiskStays, WhoisStays, PortStays
     DEF DiskRun, WhoisRun, PortRun, DiskPlaces, WhoisPlaces, PortPlaces
<1> QED
  BY <1>1, <1>2, <1>3

LEMMA HeardStep ==
    ASSUME Heard, [AppNext]_vars
    PROVE  Heard'
<1> USE DEF Heard, appVars, Goto, EndWith
<1>1. CASE UsageError \/ CommandGiven \/ NoHistory \/ OpenMenu \/ InitLogging \/ Save
  <2>1. CASE UsageError
    BY <2>1 DEF UsageError
  <2>2. CASE CommandGiven \/ NoHistory \/ OpenMenu
    BY <2>2 DEF CommandGiven, NoHistory, OpenMenu
  <2>3. CASE InitLogging
    BY <2>3 DEF InitLogging
  <2>4. CASE Save
    BY <2>4 DEF Save
  <2> QED
    BY <1>1, <2>1, <2>2, <2>3, <2>4
<1>2. CASE Dispatch
  <2>1. handler # "none" => Entrance # "exited"
    BY DEF Entrance, Handlers
  <2>2. pc = "dispatch" /\ pc' # "exited" /\ UNCHANGED appVars
    BY <1>2, <2>1 DEF Dispatch
  <2> QED
    BY <2>2
<1>3. CASE Exit
  BY <1>3 DEF Exit
<1>4. CASE CancelMenu \/ Elsewhere
  BY <1>4 DEF CancelMenu, Elsewhere
<1>5. CASE \E c \in PastClis : SelectLine(c) \/ LineRefused(c)
  BY <1>5 DEF SelectLine, LineRefused
<1>6. CASE Http \/ Https \/ FtpRun \/ PingRun \/ DiskRun \/ WhoisRun \/ PortRun
  <2>1. UNCHANGED appVars
    BY <1>6 DEF Http, Https, FtpRun, PingRun, DiskRun, WhoisRun, PortRun
  <2>2. pc \notin Outside /\ pc' # "exited"
    BY <1>6, HandlersAreInside
  <2> QED
    BY <2>1, <2>2 DEF Outside
<1>7. CASE UNCHANGED vars
  BY <1>7 DEF vars
<1> QED
  BY <1>1, <1>2, <1>3, <1>4, <1>5, <1>6, <1>7 DEF AppNext, AppStep

\* main: whichever handler fails and wherever, the user is told, unless the menu
\* is where it ended.
THEOREM FailuresAlwaysReported == AppSpec => []FailuresReported
<1>1. AppInit => Heard
  BY DEF AppInit, Heard
<1>2. Heard /\ [AppNext]_vars => Heard'
  BY HeardStep
<1>3. Heard => FailuresReported
  BY DEF Heard, FailuresReported
<1> QED
  BY <1>1, <1>2, <1>3, PTL DEF AppSpec

-----------------------------------------------------------------------------
(* A line that is replayed *)

Characters == Marks \cup Names \cup {"a"}

\* z is x with y behind it.
Joined(x, y, z) ==
    /\ Len(z) = Len(x) + Len(y)
    /\ \A k \in 1..Len(x) : z[k] = x[k]
    /\ \A k \in 1..Len(y) : z[Len(x) + k] = y[k]

\* Concatenation joins.
LEMMA JoiningWorks ==
    ASSUME NEW S, NEW x \in Seq(S), NEW y \in Seq(S)
    PROVE  x \o y \in Seq(S) /\ Joined(x, y, x \o y)
<1>1. x \o y \in Seq(S) /\ Len(x \o y) = Len(x) + Len(y)
  OBVIOUS
<1>2. \A k \in 1..Len(x) : (x \o y)[k] = x[k]
  OBVIOUS
<1>3. \A k \in 1..Len(y) : (x \o y)[Len(x) + k] = y[k]
  OBVIOUS
<1> QED
  BY <1>1, <1>2, <1>3 DEF Joined

\* f is what the recursion of FlattenSeq makes of seqs.
FlatSoFar(seqs, f) ==
    f = [i \in 1..Len(seqs) |-> IF i = 1 THEN seqs[i] ELSE f[i-1] \o seqs[i]]

\* What is true of nothing, and stays true when the next sequence is put behind
\* it, is true of all sequences behind one another.
LEMMA FlattenInduction ==
    ASSUME NEW S, NEW seqs \in Seq(Seq(S)), NEW G,
           << 0, << >> >> \in G,
           \A k \in 1..Len(seqs) : \A y, z \in Seq(S) :
             << k - 1, y >> \in G /\ Joined(y, seqs[k], z) => << k, z >> \in G
    PROVE  FlattenSeq(seqs) \in Seq(S) /\ << Len(seqs), FlattenSeq(seqs) >> \in G
<1> DEFINE N == Len(seqs)
<1>1. N \in Nat /\ << >> \in Seq(S) /\ \A k \in 1..N : seqs[k] \in Seq(S)
  OBVIOUS
<1>2. CASE N = 0
  <2>1. seqs = << >>
    BY <1>2
  <2>2. FlattenSeq(seqs) = seqs
    BY <1>2 DEF FlattenSeq
  <2> QED
    BY <1>1, <1>2, <2>1, <2>2
<1>3. CASE N # 0
  <2> DEFINE step == [p \in (1..N) \X Seq(S) |-> IF p[1] = 1 THEN seqs[1] ELSE p[2] \o seqs[p[1]]]
  <2>1. \A p \in (1..N) \X Seq(S) : step[p] \in Seq(S)
    <3> SUFFICES ASSUME NEW i \in 1..N, NEW t \in Seq(S)
                 PROVE  (IF i = 1 THEN seqs[1] ELSE t \o seqs[i]) \in Seq(S)
      OBVIOUS
    <3> QED
      BY <1>1
  <2>2. step \in [(1..N) \X Seq(S) -> Seq(S)]
    BY <2>1
  <2>3. \A i \in 1..N : \A t \in Seq(S) :
          step[<< i, t >>] = IF i = 1 THEN seqs[1] ELSE t \o seqs[i]
    OBVIOUS
  <2> HIDE DEF step
  <2>4. PICK g : Recursion(g, N, Seq(S), << >>, step)
    BY <1>1, <2>2, RecursionExists
  <2>5. /\ g \in [0..N -> Seq(S)]
        /\ \A i \in 1..N : g[i] = IF i = 1 THEN seqs[1] ELSE g[i-1] \o seqs[i]
    <3>1. g \in [0..N -> Seq(S)] /\ \A i \in 1..N : g[i] = step[<< i, g[i-1] >>]
      BY <2>4 DEF Recursion
    <3>2. \A i \in 1..N : i - 1 \in 0..N
      BY <1>1
    <3> QED
      BY <2>3, <3>1, <3>2
  <2> DEFINE h == [i \in 1..Len(seqs) |-> g[i]]
             r == [i \in 1..Len(seqs) |-> IF i = 1 THEN seqs[i] ELSE h[i-1] \o seqs[i]]
  <2>6. \A i \in 1..N : h[i] = g[i]
    OBVIOUS
  <2>7. \A i \in 1..N : i # 1 => i - 1 \in 1..N
    BY <1>1
  <2>8. \A i \in 1..N : r[i] = IF i = 1 THEN seqs[i] ELSE h[i-1] \o seqs[i]
    OBVIOUS
  <2>9. DOMAIN h = 1..N /\ DOMAIN r = 1..N /\ h = [i \in 1..N |-> h[i]] /\ r = [i \in 1..N |-> r[i]]
    OBVIOUS
  <2>10. FlatSoFar(seqs, h)
    <3>1. h = r
      <4> HIDE DEF h, r
      <4>1. ASSUME NEW i \in 1..N PROVE h[i] = r[i]
        <5>1. CASE i = 1
          BY <2>5, <2>6, <2>8, <5>1
        <5>2. CASE i # 1
          <6>1. i - 1 \in 1..N
            BY <2>7, <5>2
          <6>2. h[i-1] = g[i-1]
            BY <2>6, <6>1
          <6>3. h[i] = g[i-1] \o seqs[i]
            BY <2>5, <2>6, <5>2
          <6>4. r[i] = h[i-1] \o seqs[i]
            BY <2>8, <5>2
          <6> QED
            BY <6>2, <6>3, <6>4
        <5> QED
          BY <5>1, <5>2
      <4> QED
        BY <2>9, <4>1
    <3>2. r = [i \in 1..Len(seqs) |-> IF i = 1 THEN seqs[i] ELSE h[i-1] \o seqs[i]]
      OBVIOUS
    <3> HIDE DEF h, r
    <3> QED
      BY <3>1, <3>2 DEF FlatSoFar
  <2> HIDE DEF h, r
  <2> DEFINE f == CHOOSE e : FlatSoFar(seqs, e)
  <2>11. FlatSoFar(seqs, f)
    BY <2>10
  <2>12. FlattenSeq(seqs) = f[N]
    BY <1>3 DEF FlattenSeq, FlatSoFar
  <2> HIDE DEF f
  <2>13. \A i \in 1..N : f[i] = IF i = 1 THEN seqs[i] ELSE f[i-1] \o seqs[i]
    BY <2>11 DEF FlatSoFar
  <2> DEFINE T == {n \in Nat : n + 1 <= N => f[n + 1] \in Seq(S) /\ << n + 1, f[n + 1] >> \in G}
  <2>14. 0 \in T
    <3>1. 1 \in 1..N
      BY <1>1, <1>3
    <3>2. f[1] = seqs[1]
      BY <2>13, <3>1
    <3>3. Joined(<< >>, seqs[1], seqs[1])
      BY <1>1, <3>1 DEF Joined
    <3>4. \A z \in Seq(S) : << 1 - 1, << >> >> \in G /\ Joined(<< >>, seqs[1], z) => << 1, z >> \in G
      BY <1>1, <3>1
    <3>5. 1 - 1 = 0
      OBVIOUS
    <3>6. << 1, seqs[1] >> \in G
      BY <1>1, <3>1, <3>3, <3>4, <3>5
    <3>7. 0 + 1 = 1 /\ f[0 + 1] = seqs[1] /\ seqs[1] \in Seq(S)
      BY <1>1, <3>1, <3>2
    <3> QED
      BY <3>6, <3>7
  <2>15. ASSUME NEW n \in Nat, n \in T PROVE n + 1 \in T
    <3> SUFFICES ASSUME (n + 1) + 1 <= N
                 PROVE  f[(n + 1) + 1] \in Seq(S) /\ << (n + 1) + 1, f[(n + 1) + 1] >> \in G
      OBVIOUS
    <3> DEFINE k == (n + 1) + 1
    <3>1. k \in 1..N /\ k # 1 /\ k - 1 = n + 1
      BY <1>1
    <3>2. f[n + 1] \in Seq(S) /\ << n + 1, f[n + 1] >> \in G
      BY <2>15
    <3>3. f[k] = f[n + 1] \o seqs[k]
      BY <2>13, <3>1
    <3>4. f[k] \in Seq(S) /\ Joined(f[n + 1], seqs[k], f[k])
      BY <1>1, <3>1, <3>2, <3>3, JoiningWorks
    <3>5. << k, f[k] >> \in G
      BY <3>1, <3>2, <3>4
    <3> QED
      BY <3>4, <3>5
  <2> HIDE DEF T
  <2>16. Nat \subseteq T
    BY <2>14, <2>15, InductionOnSet
  <2>17. N - 1 \in Nat /\ (N - 1) + 1 = N
    BY <1>1, <1>3
  <2>18. N - 1 \in T
    BY <2>16, <2>17
  <2>19. f[(N - 1) + 1] \in Seq(S) /\ << (N - 1) + 1, f[(N - 1) + 1] >> \in G
    BY <2>17, <2>18 DEF T
  <2> QED
    BY <2>12, <2>17, <2>19
<1> QED
  BY <1>2, <1>3

\* Reading x takes the splitting from s to t.
After(s, x, t) ==
    /\ x \in Words
    /\ \E f : /\ f[0] = s /\ f[Len(x)] = t
              /\ \A k \in 1..Len(x) : f[k] = Scanned(f[k-1], x[k])

\* Reading nothing leads nowhere.
LEMMA AfterNothing == \A s : After(s, << >>, s)
<1> TAKE s
<1> DEFINE f == [k \in 0..0 |-> s]
<1>1. f[0] = s /\ f[Len(<< >>)] = s /\ \A k \in 1..Len(<< >>) : f[k] = Scanned(f[k-1], << >>[k])
  OBVIOUS
<1>2. << >> \in Words
  BY DEF Words
<1> HIDE DEF f
<1> QED
  BY <1>1, <1>2 DEF After

\* One character is one step.
LEMMA AfterOne ==
    ASSUME NEW s, NEW c \in Characters
    PROVE  After(s, << c >>, Scanned(s, c))
<1> DEFINE f == [k \in 0..1 |-> IF k = 0 THEN s ELSE Scanned(s, c)]
<1>1. f[0] = s /\ f[1] = Scanned(s, c)
  OBVIOUS
<1>2. << c >> \in Words /\ Len(<< c >>) = 1 /\ << c >>[1] = c
  BY DEF Words, Characters
<1> HIDE DEF f
<1>3. \A k \in 1..Len(<< c >>) : f[k] = Scanned(f[k-1], << c >>[k])
  <2> SUFFICES ASSUME NEW k \in 1..1 PROVE f[k] = Scanned(f[k-1], << c >>[k])
    BY <1>2
  <2>1. k = 1 /\ k - 1 = 0
    OBVIOUS
  <2> QED
    BY <1>1, <1>2, <2>1
<1> QED
  BY <1>1, <1>2, <1>3 DEF After

\* What is read in two parts is read as a whole.
LEMMA AfterBoth ==
    ASSUME NEW s, NEW t, NEW r, NEW x, NEW y, NEW z \in Words,
           After(s, x, t), After(t, y, r), Joined(x, y, z)
    PROVE  After(s, z, r)
<1>1. /\ x \in Words /\ y \in Words /\ Len(x) \in Nat /\ Len(y) \in Nat
  BY DEF After, Words
<1>2. PICK f : /\ f[0] = s /\ f[Len(x)] = t
               /\ \A k \in 1..Len(x) : f[k] = Scanned(f[k-1], x[k])
  BY DEF After
<1>3. PICK g : /\ g[0] = t /\ g[Len(y)] = r
               /\ \A k \in 1..Len(y) : g[k] = Scanned(g[k-1], y[k])
  BY DEF After
<1> DEFINE h == [k \in 0..(Len(x) + Len(y)) |-> IF k <= Len(x) THEN f[k] ELSE g[k - Len(x)]]
<1>4. \A k \in 0..Len(x) : h[k] = f[k]
  BY <1>1
<1>5. \A k \in 0..Len(y) : h[Len(x) + k] = g[k]
  <2> SUFFICES ASSUME NEW k \in 0..Len(y) PROVE h[Len(x) + k] = g[k]
    OBVIOUS
  <2>1. CASE k = 0
    <3>1. h[Len(x)] = f[Len(x)] /\ Len(x) + 0 = Len(x)
      BY <1>1, <1>4
    <3> QED
      BY <1>2, <1>3, <2>1, <3>1
  <2>2. CASE k # 0
    <3>1. Len(x) + k \in 0..(Len(x) + Len(y)) /\ ~(Len(x) + k <= Len(x)) /\ Len(x) + k - Len(x) = k
      BY <1>1, <2>2
    <3> QED
      BY <3>1
  <2> QED
    BY <2>1, <2>2
<1> HIDE DEF h
<1>6. h[0] = s /\ h[Len(z)] = r
  <2>1. 0 \in 0..Len(x) /\ Len(y) \in 0..Len(y) /\ Len(z) = Len(x) + Len(y)
    BY <1>1 DEF Joined
  <2> QED
    BY <1>2, <1>3, <1>4, <1>5, <2>1
<1>7. ASSUME NEW k \in 1..Len(z) PROVE h[k] = Scanned(h[k-1], z[k])
  <2>1. Len(z) = Len(x) + Len(y)
    BY DEF Joined
  <2>2. CASE k <= Len(x)
    <3>1. k \in 1..Len(x) /\ k \in 0..Len(x) /\ k - 1 \in 0..Len(x)
      BY <1>1, <2>1, <2>2
    <3>2. h[k] = f[k] /\ h[k-1] = f[k-1] /\ z[k] = x[k]
      BY <1>4, <3>1 DEF Joined
    <3> QED
      BY <1>2, <3>1, <3>2
  <2>3. CASE ~(k <= Len(x))
    <3> DEFINE j == k - Len(x)
    <3>1. j \in 1..Len(y) /\ j \in 0..Len(y) /\ j - 1 \in 0..Len(y) /\ Len(x) + j = k
          /\ Len(x) + (j - 1) = k - 1
      BY <1>1, <2>1, <2>3
    <3> HIDE DEF j
    <3>2. h[k] = g[j] /\ h[k-1] = g[j-1]
      BY <1>5, <3>1
    <3>3. z[k] = y[j]
      BY <3>1 DEF Joined
    <3> QED
      BY <1>3, <3>1, <3>2, <3>3
  <2> QED
    BY <2>2, <2>3
<1> QED
  BY <1>6, <1>7 DEF After

\* The same, for a concatenation.
LEMMA AfterThen ==
    ASSUME NEW s, NEW t, NEW r, NEW x, NEW y, After(s, x, t), After(t, y, r)
    PROVE  After(s, x \o y, r)
<1>1. x \in Words /\ y \in Words
  BY DEF After
<1>2. x \o y \in Words /\ Joined(x, y, x \o y)
  BY <1>1, JoiningWorks DEF Words
<1> QED
  BY <1>2, AfterBoth

\* The same, for any number of parts.
LEMMA AfterAll ==
    ASSUME NEW xs \in Seq(Words), NEW st,
           \A k \in 1..Len(xs) : After(st[k-1], xs[k], st[k])
    PROVE  After(st[0], FlattenSeq(xs), st[Len(xs)])
<1> DEFINE G == {p \in (0..Len(xs)) \X Words : After(st[0], p[2], st[p[1]])}
<1>1. \A k \in 0..Len(xs) : \A y \in Words : << k, y >> \in G <=> After(st[0], y, st[k])
  OBVIOUS
<1>2. \A k, y : << k, y >> \in G => k \in 0..Len(xs) /\ y \in Words
  OBVIOUS
<1> HIDE DEF G
<1>3. << 0, << >> >> \in G
  <2>1. 0 \in 0..Len(xs) /\ << >> \in Words
    BY DEF Words
  <2> QED
    BY <1>1, <2>1, AfterNothing
<1>4. ASSUME NEW k \in 1..Len(xs), NEW y \in Words, NEW z \in Words,
             << k - 1, y >> \in G, Joined(y, xs[k], z)
      PROVE  << k, z >> \in G
  <2>1. k - 1 \in 0..Len(xs) /\ k \in 0..Len(xs)
    OBVIOUS
  <2>2. After(st[0], y, st[k-1])
    BY <1>1, <1>4, <2>1
  <2>3. After(st[k-1], xs[k], st[k])
    OBVIOUS
  <2>4. After(st[0], z, st[k])
    BY <1>4, <2>2, <2>3, AfterBoth
  <2> QED
    BY <1>1, <2>1, <2>4
<1>5. << Len(xs), FlattenSeq(xs) >> \in G
  <2>1. xs \in Seq(Seq(Characters))
    BY DEF Words, Characters
  <2>2. \A k \in 1..Len(xs) : \A y, z \in Seq(Characters) :
          << k - 1, y >> \in G /\ Joined(y, xs[k], z) => << k, z >> \in G
    BY <1>4 DEF Words, Characters
  <2> QED
    BY <1>3, <2>1, <2>2, FlattenInduction
<1> QED
  BY <1>1, <1>2, <1>5

\* f is what the recursion of Lexed makes of line.
LexedSoFar(line, f) ==
    f = [k \in 0..Len(line) |-> IF k = 0 THEN BetweenWords(<< >>) ELSE Scanned(f[k-1], line[k])]

\* The recursion of the splitting has one solution.
LEMMA LexedIsAfter ==
    ASSUME NEW line, NEW t, After(BetweenWords(<< >>), line, t)
    PROVE  Lexed(line) = t
<1> DEFINE N == Len(line)
<1>1. N \in Nat
  BY DEF After, Words
<1>2. PICK g : /\ g[0] = BetweenWords(<< >>) /\ g[N] = t
               /\ \A k \in 1..N : g[k] = Scanned(g[k-1], line[k])
  BY DEF After
<1> DEFINE h == [k \in 0..Len(line) |-> g[k]]
           r == [k \in 0..Len(line) |-> IF k = 0 THEN BetweenWords(<< >>) ELSE Scanned(h[k-1], line[k])]
<1>3. LexedSoFar(line, h)
  <2>1. \A k \in 0..N : h[k] = g[k]
    OBVIOUS
  <2>2. \A k \in 0..N : r[k] = IF k = 0 THEN BetweenWords(<< >>) ELSE Scanned(h[k-1], line[k])
    OBVIOUS
  <2>3. \A k \in 0..N : k # 0 => k \in 1..N /\ k - 1 \in 0..N
    BY <1>1
  <2>4. DOMAIN h = 0..N /\ DOMAIN r = 0..N /\ h = [k \in 0..N |-> h[k]] /\ r = [k \in 0..N |-> r[k]]
    OBVIOUS
  <2>5. r = [k \in 0..Len(line) |-> IF k = 0 THEN BetweenWords(<< >>) ELSE Scanned(h[k-1], line[k])]
    OBVIOUS
  <2> HIDE DEF h, r
  <2>6. \A k \in 0..N : h[k] = r[k]
    BY <1>2, <2>1, <2>2, <2>3
  <2>7. h = r
    BY <2>4, <2>6
  <2> QED
    BY <2>5, <2>7 DEF LexedSoFar
<1> HIDE DEF h, r
<1> DEFINE f == CHOOSE e : LexedSoFar(line, e)
<1>4. LexedSoFar(line, f)
  BY <1>3
<1>5. Lexed(line) = f[N]
  BY DEF Lexed, LexedSoFar
<1> HIDE DEF f
<1>6. f[0] = BetweenWords(<< >>) /\ \A k \in 1..N : f[k] = Scanned(f[k-1], line[k])
  <2> DEFINE e == [k \in 0..Len(line) |-> IF k = 0 THEN BetweenWords(<< >>) ELSE Scanned(f[k-1], line[k])]
  <2>1. f = e
    BY <1>4 DEF LexedSoFar
  <2>2. 0 \in 0..N /\ \A k \in 1..N : k \in 0..N /\ k # 0
    BY <1>1
  <2>3. e[0] = BetweenWords(<< >>)
    BY <2>2
  <2>4. \A k \in 1..N : e[k] = Scanned(f[k-1], line[k])
    BY <2>2
  <2> HIDE DEF e
  <2> QED
    BY <2>1, <2>3, <2>4
<1> DEFINE T == {n \in Nat : n <= N => f[n] = g[n]}
<1>7. 0 \in T
  BY <1>2, <1>6
<1>8. ASSUME NEW n \in Nat, n \in T PROVE n + 1 \in T
  <2> SUFFICES ASSUME n + 1 <= N PROVE f[n + 1] = g[n + 1]
    OBVIOUS
  <2>1. n + 1 \in 1..N /\ (n + 1) - 1 = n /\ f[n] = g[n]
    BY <1>1, <1>8
  <2> QED
    BY <1>2, <1>6, <2>1
<1> HIDE DEF T
<1>9. N \in T
  BY <1>1, <1>7, <1>8, InductionOnSet
<1> QED
  BY <1>1, <1>2, <1>5, <1>9 DEF T

\* The splitting makes the word w of x.
Sound(x, w) ==
    /\ w \in Words
    /\ \A ws : After(BetweenWords(ws), x, [at |-> "bare", word |-> w, words |-> ws])

\* A word in which nothing needs quotes.
Unquoted(w) ==
    /\ w \in Words /\ w # << >>
    /\ \A k \in 1..Len(w) : w[k] \notin {" ", "'", "quote", "\\"}
    /\ w[1] # "#"

\* A word that needs no quotes is read as it stands.
LEMMA BareSound ==
    ASSUME NEW w, Unquoted(w)
    PROVE  Sound(w, w)
<1>1. w \in Seq(Characters) /\ Len(w) \in Nat /\ Len(w) # 0 /\ w \in Words
  <2>1. w \in Words /\ w # << >>
    BY DEF Unquoted
  <2>2. w \in Seq(Characters)
    BY <2>1 DEF Words, Characters
  <2> QED
    BY <2>1, <2>2, EmptySeq
<1> SUFFICES ASSUME NEW ws
             PROVE  After(BetweenWords(ws), w, [at |-> "bare", word |-> w, words |-> ws])
  BY <1>1 DEF Sound
<1> DEFINE f == [k \in 0..Len(w) |-> IF k = 0 THEN BetweenWords(ws)
                                     ELSE [at |-> "bare", word |-> SubSeq(w, 1, k), words |-> ws]]
<1>2. f[0] = BetweenWords(ws)
  BY <1>1
<1>3. \A k \in 1..Len(w) : f[k] = [at |-> "bare", word |-> SubSeq(w, 1, k), words |-> ws]
  BY <1>1
<1>4. SubSeq(w, 1, Len(w)) = w
  BY <1>1, PrefixEnds
<1> HIDE DEF f
<1>5. f[Len(w)] = [at |-> "bare", word |-> w, words |-> ws]
  BY <1>1, <1>3, <1>4
<1>6. ASSUME NEW k \in 1..Len(w) PROVE f[k] = Scanned(f[k-1], w[k])
  <2>1. w[k] \notin {" ", "'", "quote", "\\"}
    BY DEF Unquoted
  <2>2. CASE k = 1
    <3>1. k - 1 = 0 /\ SubSeq(w, 1, 1) = Append(<< >>, w[1])
      <4>1. 1 - 1 = 0 /\ 1 \in 1..Len(w)
        BY <1>1
      <4>2. Append(SubSeq(w, 1, 1 - 1), w[1]) = SubSeq(w, 1, 1)
        BY <1>1, <4>1, PrefixGrows
      <4>3. SubSeq(w, 1, 0) = << >>
        BY <1>1, PrefixEnds
      <4> QED
        BY <2>2, <4>1, <4>2, <4>3
    <3>2. w[1] # "#"
      BY DEF Unquoted
    <3>3. Scanned(BetweenWords(ws), w[1]) = [at |-> "bare", word |-> Append(<< >>, w[1]), words |-> ws]
      BY <2>1, <2>2, <3>2 DEF Scanned, BetweenWords, Push, Opened
    <3> QED
      BY <1>2, <1>3, <2>2, <3>1, <3>3
  <2>3. CASE k # 1
    <3>1. k - 1 \in 1..Len(w) /\ Append(SubSeq(w, 1, k - 1), w[k]) = SubSeq(w, 1, k)
      BY <1>1, <2>3, PrefixGrows
    <3>2. \A v : Scanned([at |-> "bare", word |-> v, words |-> ws], w[k])
                 = [at |-> "bare", word |-> Append(v, w[k]), words |-> ws]
      BY <2>1 DEF Scanned, Push, Opened
    <3> QED
      BY <1>3, <3>1, <3>2
  <2> QED
    BY <2>2, <2>3
<1> QED
  BY <1>1, <1>2, <1>5, <1>6 DEF After

Inside(w, ws) == [at |-> "single", word |-> w, words |-> ws]

\* Between single quotes, what Escaped makes of a character is read as that
\* character: a single quote closes them, is escaped, and opens them again.
LEMMA PieceRead ==
    ASSUME NEW c \in Characters, NEW v, NEW ws
    PROVE  After(Inside(v, ws),
                 IF c = "'" THEN << "'", "\\", "'", "'" >> ELSE << c >>,
                 Inside(Append(v, c), ws))
<1>1. CASE c # "'"
  <2>1. Scanned(Inside(v, ws), c) = Inside(Append(v, c), ws)
    BY <1>1 DEF Scanned, Inside, Push
  <2> QED
    BY <1>1, <2>1, AfterOne
<1>2. CASE c = "'"
  <2> DEFINE s1 == [at |-> "bare", word |-> v, words |-> ws]
             s2 == [at |-> "escape", word |-> v, words |-> ws]
             s3 == [at |-> "bare", word |-> Append(v, c), words |-> ws]
  <2>1. Scanned(Inside(v, ws), "'") = s1
    BY DEF Scanned, Inside
  <2>2. Scanned(s1, "\\") = s2
    BY DEF Scanned, Opened
  <2>3. Scanned(s2, "'") = s3
    BY <1>2 DEF Scanned, Push
  <2>4. Scanned(s3, "'") = Inside(Append(v, c), ws)
    BY DEF Scanned, Opened, Inside
  <2> DEFINE f == [k \in 0..4 |-> IF k = 0 THEN Inside(v, ws) ELSE IF k = 1 THEN s1
                                  ELSE IF k = 2 THEN s2 ELSE IF k = 3 THEN s3
                                  ELSE Inside(Append(v, c), ws)]
  <2>5. f[0] = Inside(v, ws) /\ f[1] = s1 /\ f[2] = s2 /\ f[3] = s3
        /\ f[4] = Inside(Append(v, c), ws)
    OBVIOUS
  <2> DEFINE x == << "'", "\\", "'", "'" >>
  <2>6. x \in Words
    BY DEF Words, Marks
  <2>7. Len(x) = 4 /\ x[1] = "'" /\ x[2] = "\\" /\ x[3] = "'" /\ x[4] = "'"
    OBVIOUS
  <2> HIDE DEF x, f, s1, s2, s3
  <2>8. ASSUME NEW k \in 1..4 PROVE f[k] = Scanned(f[k-1], x[k])
    <3>1. k = 1 \/ k = 2 \/ k = 3 \/ k = 4
      OBVIOUS
    <3>2. 1 - 1 = 0 /\ 2 - 1 = 1 /\ 3 - 1 = 2 /\ 4 - 1 = 3
      OBVIOUS
    <3> QED
      BY <2>1, <2>2, <2>3, <2>4, <2>5, <2>7, <3>1, <3>2
  <2>9. After(Inside(v, ws), x, Inside(Append(v, c), ws))
    BY <2>5, <2>6, <2>7, <2>8 DEF After
  <2> QED
    BY <1>2, <2>9 DEF x
<1> QED
  BY <1>1, <1>2

\* Quoting is undone by the splitting, whatever the word.
LEMMA QuotedSound ==
    ASSUME NEW w \in Words
    PROVE  Sound(Quoted(w), w)
<1>1. w \in Seq(Characters) /\ Len(w) \in Nat
  BY DEF Words, Characters
<1> SUFFICES ASSUME NEW ws
             PROVE  After(BetweenWords(ws), Quoted(w), [at |-> "bare", word |-> w, words |-> ws])
  BY DEF Sound
<1> DEFINE xs == [k \in 1..Len(w) |-> IF w[k] = "'" THEN << "'", "\\", "'", "'" >> ELSE << w[k] >>]
           st == [k \in 0..Len(w) |-> Inside(SubSeq(w, 1, k), ws)]
<1>2. \A k \in 1..Len(w) : xs[k] \in Words
  <2>1. "'" \in Characters /\ "\\" \in Characters /\ Words = Seq(Characters)
    BY DEF Words, Characters, Marks
  <2>2. << "'", "\\", "'", "'" >> \in Words
    BY <2>1
  <2>3. \A c \in Characters : << c >> \in Words
    BY <2>1
  <2> QED
    BY <1>1, <2>2, <2>3
<1>3. xs \in Seq(Words) /\ Len(xs) = Len(w)
  BY <1>1, <1>2
<1>4. \A k \in 0..Len(w) : st[k] = Inside(SubSeq(w, 1, k), ws)
  OBVIOUS
<1>5. \A k \in 1..Len(w) :
        xs[k] = IF w[k] = "'" THEN << "'", "\\", "'", "'" >> ELSE << w[k] >>
  OBVIOUS
<1>6. Escaped(w) = FlattenSeq(xs)
  BY DEF Escaped
<1> HIDE DEF xs, st
<1>7. ASSUME NEW k \in 1..Len(xs) PROVE After(st[k-1], xs[k], st[k])
  <2>1. k \in 1..Len(w) /\ w[k] \in Characters /\ k - 1 \in 0..Len(w) /\ k \in 0..Len(w)
    BY <1>1, <1>3
  <2>2. Append(SubSeq(w, 1, k - 1), w[k]) = SubSeq(w, 1, k)
    BY <1>1, <2>1, PrefixGrows
  <2> QED
    BY <1>4, <1>5, <2>1, <2>2, PieceRead
<1>8. After(st[0], FlattenSeq(xs), st[Len(xs)])
  BY <1>3, <1>7, AfterAll
<1>9. st[0] = Inside(<< >>, ws) /\ st[Len(xs)] = Inside(w, ws)
  <2>1. SubSeq(w, 1, 0) = << >> /\ SubSeq(w, 1, Len(w)) = w
    BY <1>1, PrefixEnds
  <2>2. 0 \in 0..Len(w) /\ Len(w) \in 0..Len(w)
    BY <1>1
  <2>3. st[0] = Inside(SubSeq(w, 1, 0), ws) /\ st[Len(w)] = Inside(SubSeq(w, 1, Len(w)), ws)
    BY <1>4, <2>2
  <2> QED
    BY <1>3, <2>1, <2>3
<1>10. "'" \in Characters
  BY DEF Characters, Marks
<1>11. After(BetweenWords(ws), << "'" >>, Inside(<< >>, ws))
  <2>1. Scanned(BetweenWords(ws), "'") = Inside(<< >>, ws)
    BY DEF Scanned, BetweenWords, Opened, Inside
  <2> QED
    BY <1>10, <2>1, AfterOne
<1>12. After(Inside(w, ws), << "'" >>, [at |-> "bare", word |-> w, words |-> ws])
  <2>1. Scanned(Inside(w, ws), "'") = [at |-> "bare", word |-> w, words |-> ws]
    BY DEF Scanned, Inside
  <2> QED
    BY <1>10, <2>1, AfterOne
<1>13. After(Inside(<< >>, ws), Escaped(w), Inside(w, ws))
  BY <1>6, <1>8, <1>9
<1>14. After(BetweenWords(ws), << "'" >> \o Escaped(w), Inside(w, ws))
  BY <1>11, <1>13, AfterThen
<1>15. After(BetweenWords(ws), (<< "'" >> \o Escaped(w)) \o << "'" >>,
             [at |-> "bare", word |-> w, words |-> ws])
  BY <1>12, <1>14, AfterThen
<1> QED
  BY <1>15 DEF Quoted

-----------------------------------------------------------------------------

\* The words args take the parsing from its beginning to p.
Took(args, p) ==
    \E f : /\ f[0] = Ready(EmptyCli) /\ f[Len(args)] = p
           /\ \A k \in 1..Len(args) : f[k] = Taken(f[k-1], args[k])

\* No words make the empty command line.
LEMMA TookNothing == Took(<< >>, Ready(EmptyCli))
<1> DEFINE f == [k \in 0..0 |-> Ready(EmptyCli)]
<1>1. f[0] = Ready(EmptyCli) /\ f[Len(<< >>)] = Ready(EmptyCli)
      /\ \A k \in 1..Len(<< >>) : f[k] = Taken(f[k-1], << >>[k])
  OBVIOUS
<1> HIDE DEF f
<1> QED
  BY <1>1 DEF Took

\* One word more is one step more.
LEMMA TookOneMore ==
    ASSUME NEW args \in Seq(Words), NEW w \in Words, NEW p, Took(args, p)
    PROVE  Took(Append(args, w), Taken(p, w))
<1> DEFINE N == Len(args)
           more == Append(args, w)
<1>1. N \in Nat /\ Len(more) = N + 1 /\ more[N + 1] = w /\ \A k \in 1..N : more[k] = args[k]
  OBVIOUS
<1>2. PICK f : /\ f[0] = Ready(EmptyCli) /\ f[N] = p
               /\ \A k \in 1..N : f[k] = Taken(f[k-1], args[k])
  BY DEF Took
<1> HIDE DEF more
<1> DEFINE g == [k \in 0..(N+1) |-> IF k = N + 1 THEN Taken(p, w) ELSE f[k]]
<1>3. g[N + 1] = Taken(p, w) /\ \A k \in 0..N : g[k] = f[k]
  <2>1. N + 1 \in 0..(N+1) /\ \A k \in 0..N : k \in 0..(N+1) /\ k # N + 1
    BY <1>1
  <2> QED
    BY <2>1
<1> HIDE DEF g
<1>4. ASSUME NEW k \in 1..Len(more) PROVE g[k] = Taken(g[k-1], more[k])
  <2>1. CASE k = N + 1
    <3>1. k - 1 = N /\ N \in 0..N
      BY <1>1, <2>1
    <3> QED
      BY <1>1, <1>2, <1>3, <2>1, <3>1
  <2>2. CASE k # N + 1
    <3>1. k \in 1..N /\ k \in 0..N /\ k - 1 \in 0..N
      BY <1>1, <2>2
    <3> QED
      BY <1>1, <1>2, <1>3, <3>1
  <2> QED
    BY <2>1, <2>2
<1>5. g[0] = Ready(EmptyCli)
  BY <1>1, <1>2, <1>3
<1> QED
  BY <1>1, <1>3, <1>4, <1>5 DEF Took, more

\* f is what the recursion of Filled makes of args.
FilledSoFar(args, f) ==
    f = [k \in 0..Len(args) |-> IF k = 0 THEN Ready(EmptyCli) ELSE Taken(f[k-1], args[k])]

\* The recursion of the parsing has one solution.
LEMMA FilledIsTook ==
    ASSUME NEW args \in Seq(Words), NEW p, Took(args, p)
    PROVE  Filled(args) = p
<1> DEFINE N == Len(args)
<1>1. N \in Nat
  OBVIOUS
<1>2. PICK g : /\ g[0] = Ready(EmptyCli) /\ g[N] = p
               /\ \A k \in 1..N : g[k] = Taken(g[k-1], args[k])
  BY DEF Took
<1> DEFINE h == [k \in 0..Len(args) |-> g[k]]
           r == [k \in 0..Len(args) |-> IF k = 0 THEN Ready(EmptyCli) ELSE Taken(h[k-1], args[k])]
<1>3. FilledSoFar(args, h)
  <2>1. \A k \in 0..N : h[k] = g[k]
    OBVIOUS
  <2>2. \A k \in 0..N : r[k] = IF k = 0 THEN Ready(EmptyCli) ELSE Taken(h[k-1], args[k])
    OBVIOUS
  <2>3. \A k \in 0..N : k # 0 => k \in 1..N /\ k - 1 \in 0..N
    BY <1>1
  <2>4. DOMAIN h = 0..N /\ DOMAIN r = 0..N /\ h = [k \in 0..N |-> h[k]] /\ r = [k \in 0..N |-> r[k]]
    OBVIOUS
  <2>5. r = [k \in 0..Len(args) |-> IF k = 0 THEN Ready(EmptyCli) ELSE Taken(h[k-1], args[k])]
    OBVIOUS
  <2> HIDE DEF h, r
  <2>6. \A k \in 0..N : h[k] = r[k]
    BY <1>2, <2>1, <2>2, <2>3
  <2>7. h = r
    BY <2>4, <2>6
  <2> QED
    BY <2>5, <2>7 DEF FilledSoFar
<1> HIDE DEF h, r
<1> DEFINE f == CHOOSE e : FilledSoFar(args, e)
<1>4. FilledSoFar(args, f)
  BY <1>3
<1>5. Filled(args) = f[N]
  BY DEF Filled, FilledSoFar
<1> HIDE DEF f
<1>6. f[0] = Ready(EmptyCli) /\ \A k \in 1..N : f[k] = Taken(f[k-1], args[k])
  <2> DEFINE e == [k \in 0..Len(args) |-> IF k = 0 THEN Ready(EmptyCli) ELSE Taken(f[k-1], args[k])]
  <2>1. f = e
    BY <1>4 DEF FilledSoFar
  <2>2. 0 \in 0..N /\ \A k \in 1..N : k \in 0..N /\ k # 0
    BY <1>1
  <2>3. e[0] = Ready(EmptyCli)
    BY <2>2
  <2>4. \A k \in 1..N : e[k] = Taken(f[k-1], args[k])
    BY <2>2
  <2> HIDE DEF e
  <2> QED
    BY <2>1, <2>3, <2>4
<1> DEFINE T == {n \in Nat : n <= N => f[n] = g[n]}
<1>7. 0 \in T
  BY <1>2, <1>6
<1>8. ASSUME NEW n \in Nat, n \in T PROVE n + 1 \in T
  <2> SUFFICES ASSUME n + 1 <= N PROVE f[n + 1] = g[n + 1]
    OBVIOUS
  <2>1. n + 1 \in 1..N /\ (n + 1) - 1 = n /\ f[n] = g[n]
    BY <1>1, <1>8
  <2> QED
    BY <1>2, <1>6, <2>1
<1> HIDE DEF T
<1>9. N \in T
  BY <1>1, <1>7, <1>8, InductionOnSet
<1> QED
  BY <1>1, <1>2, <1>5, <1>9 DEF T

-----------------------------------------------------------------------------

\* The splitting is at the end of a word, and the words so far make p.
Stands(s, p) ==
    \E ws \in Seq(Words), w \in Words :
      /\ s = [at |-> "bare", word |-> w, words |-> ws]
      /\ Took(Tail(Append(ws, w)), p)

\* Reading x, which begins with a blank if it is not empty, makes q of p.
Leads(x, p, q) ==
    x \in Words /\ \A s : Stands(s, p) => \E t : After(s, x, t) /\ Stands(t, q)

\* Nothing leads nowhere.
LEMMA LeadsNowhere == \A p : Leads(<< >>, p, p)
<1>1. << >> \in Words
  BY DEF Words
<1> QED
  BY <1>1, AfterNothing DEF Leads

\* What leads on in two parts leads on as a whole.
LEMMA LeadsJoined ==
    ASSUME NEW p, NEW q, NEW r, NEW x, NEW y, NEW z \in Words,
           Leads(x, p, q), Leads(y, q, r), Joined(x, y, z)
    PROVE  Leads(z, p, r)
<1> SUFFICES ASSUME NEW s, Stands(s, p) PROVE \E t : After(s, z, t) /\ Stands(t, r)
  BY DEF Leads
<1>1. PICK t : After(s, x, t) /\ Stands(t, q)
  BY DEF Leads
<1>2. PICK u : After(t, y, u) /\ Stands(u, r)
  BY <1>1 DEF Leads
<1>3. After(s, z, u)
  BY <1>1, <1>2, AfterBoth
<1> QED
  BY <1>2, <1>3

\* The same, for a concatenation.
LEMMA LeadsOn ==
    ASSUME NEW p, NEW q, NEW r, NEW x, NEW y, Leads(x, p, q), Leads(y, q, r)
    PROVE  Leads(x \o y, p, r)
<1>1. x \in Words /\ y \in Words
  BY DEF Leads
<1>2. x \o y \in Words /\ Joined(x, y, x \o y)
  BY <1>1, JoiningWorks DEF Words
<1> QED
  BY <1>2, LeadsJoined

\* The same, for any number of parts.
LEMMA LeadsAll ==
    ASSUME NEW xs \in Seq(Words), NEW st,
           \A k \in 1..Len(xs) : Leads(xs[k], st[k-1], st[k])
    PROVE  Leads(FlattenSeq(xs), st[0], st[Len(xs)])
<1> DEFINE G == {p \in (0..Len(xs)) \X Words : Leads(p[2], st[0], st[p[1]])}
<1>1. \A k \in 0..Len(xs) : \A y \in Words : << k, y >> \in G <=> Leads(y, st[0], st[k])
  OBVIOUS
<1>2. \A k, y : << k, y >> \in G => k \in 0..Len(xs) /\ y \in Words
  OBVIOUS
<1> HIDE DEF G
<1>3. << 0, << >> >> \in G
  <2>1. 0 \in 0..Len(xs) /\ << >> \in Words
    BY DEF Words
  <2> QED
    BY <1>1, <2>1, LeadsNowhere
<1>4. ASSUME NEW k \in 1..Len(xs), NEW y \in Words, NEW z \in Words,
             << k - 1, y >> \in G, Joined(y, xs[k], z)
      PROVE  << k, z >> \in G
  <2>1. k - 1 \in 0..Len(xs) /\ k \in 0..Len(xs)
    OBVIOUS
  <2>2. Leads(y, st[0], st[k-1])
    BY <1>1, <1>4, <2>1
  <2>3. Leads(xs[k], st[k-1], st[k])
    OBVIOUS
  <2>4. Leads(z, st[0], st[k])
    BY <1>4, <2>2, <2>3, LeadsJoined
  <2> QED
    BY <1>1, <2>1, <2>4
<1>5. << Len(xs), FlattenSeq(xs) >> \in G
  <2>1. xs \in Seq(Seq(Characters))
    BY DEF Words, Characters
  <2>2. \A k \in 1..Len(xs) : \A y, z \in Seq(Characters) :
          << k - 1, y >> \in G /\ Joined(y, xs[k], z) => << k, z >> \in G
    BY <1>4 DEF Words, Characters
  <2> QED
    BY <1>3, <2>1, <2>2, FlattenInduction
<1> QED
  BY <1>1, <1>2, <1>5

\* A word with a blank before it is the next word.
LEMMA WordLeads ==
    ASSUME NEW x \in Words, NEW w, Sound(x, w), NEW p
    PROVE  Leads(<< " " >> \o x, p, Taken(p, w))
<1>1. " " \in Characters /\ w \in Words
  BY DEF Characters, Marks, Sound
<1>2. << " " >> \o x \in Words
  <2>1. Words = Seq(Characters)
    BY DEF Words, Characters
  <2>2. << " " >> \in Seq(Characters)
    <3>1. After(0, << " " >>, Scanned(0, " "))
      BY <1>1, AfterOne
    <3> QED
      BY <2>1, <3>1 DEF After
  <2>3. x \in Seq(Characters)
    BY <2>1
  <2> QED
    BY <2>1, <2>2, <2>3, ConcatProperties
<1> SUFFICES ASSUME NEW s, Stands(s, p)
             PROVE  \E t : After(s, << " " >> \o x, t) /\ Stands(t, Taken(p, w))
  BY <1>2 DEF Leads
<1>3. PICK ws \in Seq(Words), v \in Words :
        /\ s = [at |-> "bare", word |-> v, words |-> ws]
        /\ Took(Tail(Append(ws, v)), p)
  BY DEF Stands
<1> DEFINE more == Append(ws, v)
           t == [at |-> "bare", word |-> w, words |-> more]
<1>4. more \in Seq(Words) /\ more # << >>
  BY AppendProperties
<1>5. After(s, << " " >>, BetweenWords(more))
  <2>1. Scanned(s, " ") = BetweenWords(more)
    BY <1>3 DEF Scanned, Opened
  <2> QED
    BY <1>1, <2>1, AfterOne
<1> HIDE DEF more
<1>6. After(BetweenWords(more), x, t)
  BY DEF Sound
<1>7. After(s, << " " >> \o x, t)
  BY <1>5, <1>6, AfterThen
<1>8. Tail(more) \in Seq(Words) /\ Tail(Append(more, w)) = Append(Tail(more), w)
  BY <1>1, <1>4, HeadTailProperties, TailOfAppend
<1>9. Took(Append(Tail(more), w), Taken(p, w))
  BY <1>1, <1>3, <1>8, TookOneMore DEF more
<1>10. Stands(t, Taken(p, w))
  BY <1>1, <1>4, <1>8, <1>9 DEF Stands
<1> QED
  BY <1>7, <1>10

\* Any number of words, each with a blank before it.
LEMMA WordsLead ==
    ASSUME NEW words \in Seq(Words), NEW means, NEW st,
           \A k \in 1..Len(words) : Sound(words[k], means[k]) /\ st[k] = Taken(st[k-1], means[k])
    PROVE  Leads(Spaced(words), st[0], st[Len(words)])
<1> DEFINE xs == [k \in 1..Len(words) |-> << " " >> \o words[k]]
<1>1. ASSUME NEW k \in 1..Len(words) PROVE Leads(<< " " >> \o words[k], st[k-1], st[k])
  <2>1. words[k] \in Words /\ Sound(words[k], means[k]) /\ st[k] = Taken(st[k-1], means[k])
    OBVIOUS
  <2> QED
    BY <2>1, WordLeads
<1>2. \A k \in 1..Len(words) : xs[k] \in Words
  BY <1>1 DEF Leads
<1>3. xs \in Seq(Words) /\ Len(xs) = Len(words)
  <2>1. Len(words) \in Nat
    OBVIOUS
  <2>2. DOMAIN xs = 1..Len(words) /\ xs = [k \in 1..Len(words) |-> xs[k]]
    OBVIOUS
  <2> HIDE DEF xs
  <2>3. xs \in [1..Len(words) -> Words]
    BY <1>2, <2>2
  <2> QED
    BY <2>1, <2>3
<1>4. \A k \in 1..Len(xs) : Leads(xs[k], st[k-1], st[k])
  BY <1>1, <1>3
<1>5. Spaced(words) = FlattenSeq(xs)
  BY DEF Spaced
<1> HIDE DEF xs
<1> QED
  BY <1>3, <1>4, <1>5, LeadsAll

\* One of them.
LEMMA OneWordLeads ==
    ASSUME NEW x \in Words, NEW w, NEW p, Sound(x, w)
    PROVE  Leads(Spaced(<< x >>), p, Taken(p, w))
<1> DEFINE st == [k \in 0..1 |-> IF k = 0 THEN p ELSE Taken(p, w)]
<1>1. st[0] = p /\ st[1] = Taken(p, w)
  OBVIOUS
<1> HIDE DEF st
<1>2. << x >> \in Seq(Words) /\ Len(<< x >>) = 1 /\ << x >>[1] = x
  OBVIOUS
<1>3. ASSUME NEW k \in 1..Len(<< x >>)
      PROVE  Sound(<< x >>[k], << w >>[k]) /\ st[k] = Taken(st[k-1], << w >>[k])
  <2>1. k = 1 /\ k - 1 = 0 /\ << w >>[1] = w
    BY <1>2
  <2> QED
    BY <1>1, <1>2, <2>1
<1>4. Leads(Spaced(<< x >>), st[0], st[Len(<< x >>)])
  BY <1>2, <1>3, WordsLead
<1> QED
  BY <1>1, <1>2, <1>4

\* Two of them: an option and its value.
LEMMA TwoWordsLead ==
    ASSUME NEW x \in Words, NEW y \in Words, NEW w, NEW v, NEW p, Sound(x, w), Sound(y, v)
    PROVE  Leads(Spaced(<< x, y >>), p, Taken(Taken(p, w), v))
<1> DEFINE st == [k \in 0..2 |-> IF k = 0 THEN p ELSE IF k = 1 THEN Taken(p, w)
                                 ELSE Taken(Taken(p, w), v)]
<1>1. st[0] = p /\ st[1] = Taken(p, w) /\ st[2] = Taken(Taken(p, w), v)
  OBVIOUS
<1> HIDE DEF st
<1>2. << x, y >> \in Seq(Words) /\ Len(<< x, y >>) = 2 /\ << x, y >>[1] = x /\ << x, y >>[2] = y
  OBVIOUS
<1>3. ASSUME NEW k \in 1..Len(<< x, y >>)
      PROVE  Sound(<< x, y >>[k], << w, v >>[k]) /\ st[k] = Taken(st[k-1], << w, v >>[k])
  <2>1. (k = 1 \/ k = 2) /\ 1 - 1 = 0 /\ 2 - 1 = 1 /\ << w, v >>[1] = w /\ << w, v >>[2] = v
    BY <1>2
  <2> QED
    BY <1>1, <1>2, <2>1
<1>4. Leads(Spaced(<< x, y >>), st[0], st[Len(<< x, y >>)])
  BY <1>2, <1>3, WordsLead
<1> QED
  BY <1>1, <1>2, <1>4

-----------------------------------------------------------------------------

\* The name of an option or of a command needs no quotes.
LEMMA NameSound ==
    ASSUME NEW n \in Names
    PROVE  << n >> \in Words /\ Sound(<< n >>, << n >>)
<1>1. n \in Characters /\ n \notin Marks
  BY CommandLineAssumption DEF Characters
<1>2. Words = Seq(Characters)
  BY DEF Words, Characters
<1>3. << n >> \in Words /\ Len(<< n >>) = 1 /\ << n >>[1] = n /\ << n >> # << >>
  BY <1>1, <1>2
<1>4. Unquoted(<< n >>)
  <2>1. \A k \in 1..Len(<< n >>) : << n >>[k] \notin {" ", "'", "quote", "\\"}
    <3>1. \A k \in 1..Len(<< n >>) : k = 1
      BY <1>3
    <3> QED
      BY <1>1, <1>3, <3>1 DEF Marks
  <2>2. << n >>[1] # "#"
    BY <1>1, <1>3 DEF Marks
  <2> QED
    BY <1>3, <2>1, <2>2 DEF Unquoted
<1> QED
  BY <1>3, <1>4, BareSound

\* A plain word needs none either, and clap does not take it for an option.
LEMMA PlainSound ==
    ASSUME NEW w \in Words, Plain(w)
    PROVE  Sound(w, w) /\ ~Dashed(w)
<1>1. w \in Seq(Characters)
  BY DEF Words, Characters
<1>2. w # << >> /\ ~Dashed(w) /\ Head(w) # "#"
  BY DEF Plain
<1>3. \A k \in 1..Len(w) : w[k] \notin {" ", "'", "quote", "\\"}
  <2>1. \A k \in 1..Len(w) : w[k] \in ToSet(w)
    BY <1>1 DEF ToSet
  <2> QED
    BY <2>1 DEF Plain
<1>4. Head(w) = w[1]
  BY <1>1, <1>2
<1>5. Unquoted(w)
  BY <1>2, <1>3, <1>4 DEF Unquoted
<1> QED
  BY <1>2, <1>5, BareSound

-----------------------------------------------------------------------------

\* A command line with a URL, or none yet; and one of a quick command.
Line(m, vs, ks, u) ==
    [quick |-> None, targets |-> << >>, method |-> m, values |-> vs, switches |-> ks, url |-> u]

QuickLine(q, ts) ==
    [quick |-> q, targets |-> ts, method |-> None, values |-> << >>, switches |-> << >>,
     url |-> None]

LEMMA NothingYet == EmptyCli = Line(None, << >>, << >>, None)
BY DEF EmptyCli, Line

\* What a word does to a command line that may go on.
LEMMA ReadyTakes ==
    ASSUME NEW c, NEW w
    PROVE  Taken(Ready(c), w) = IF Dashed(w) THEN OptionTaken(c, w) ELSE PlaceTaken(c, w)
<1>1. ~Ready(c).bad /\ Ready(c).pending = None /\ Ready(c).cli = c
  BY DEF Ready
<1> QED
  BY <1>1 DEF Taken

\* The name of a quick command, at the beginning.
LEMMA TakesQuick ==
    ASSUME NEW q \in DOMAIN Subcommands
    PROVE  Taken(Ready(EmptyCli), << q >>) = Ready(QuickLine(q, << >>))
<1> DEFINE w == << q >>
<1>1. Head(w) = q /\ Len(w) = 1 /\ w[1] = q
  OBVIOUS
<1>2. EmptyCli.quick = None /\ [EmptyCli EXCEPT !.quick = q] = QuickLine(q, << >>)
  BY DEF EmptyCli, QuickLine
<1> HIDE DEF w
<1>3. ~Dashed(w)
  BY <1>1, CommandLineAssumption DEF Dashed
<1>4. PlaceTaken(EmptyCli, w) = Ready(QuickLine(q, << >>))
  BY <1>1, <1>2 DEF PlaceTaken
<1> QED
  BY <1>3, <1>4, ReadyTakes DEF w

\* A target behind it.
LEMMA TakesTarget ==
    ASSUME NEW q \in DOMAIN Subcommands, NEW ts, NEW w, ~Dashed(w)
    PROVE  Taken(Ready(QuickLine(q, ts)), w) = Ready(QuickLine(q, Append(ts, w)))
<1> DEFINE c == QuickLine(q, ts)
<1>1. q # None
  BY CommandLineAssumption DEF Names
<1>2. c.quick = q /\ c.targets = ts /\ \A v : [c EXCEPT !.targets = v] = QuickLine(q, v)
  BY DEF QuickLine
<1> HIDE DEF c
<1>3. PlaceTaken(c, w) = Ready([c EXCEPT !.targets = Append(@, w)])
  BY <1>1, <1>2 DEF PlaceTaken
<1>4. [c EXCEPT !.targets = Append(@, w)] = [c EXCEPT !.targets = Append(ts, w)]
  BY <1>2
<1> QED
  BY <1>2, <1>3, <1>4, ReadyTakes DEF c

\* An option that waits for its value.
LEMMA TakesFlag ==
    ASSUME NEW m, NEW vs, NEW ks, NEW u, NEW flag \in ValueFlags
    PROVE  Taken(Ready(Line(m, vs, ks, u)), << flag >>) = Waits(Line(m, vs, ks, u), flag)
<1> DEFINE w == << flag >>
           c == Line(m, vs, ks, u)
<1>1. Head(w) = flag /\ Len(w) = 1 /\ w[1] = flag /\ w # << >>
  OBVIOUS
<1>2. c.quick = None
  BY DEF Line
<1> HIDE DEF w, c
<1>3. Dashed(w)
  BY <1>1 DEF Dashed
<1>4. OptionTaken(c, w) = Waits(c, flag)
  BY <1>1, <1>2 DEF OptionTaken
<1> QED
  BY <1>3, <1>4, ReadyTakes DEF w, c

\* Its value.
LEMMA TakesValue ==
    ASSUME NEW c, NEW flag \in ValueFlags, NEW w, ~Dashed(w)
    PROVE  Taken(Waits(c, flag), w) = Ready(WithValue(c, flag, w))
<1> DEFINE s == Waits(c, flag)
<1>1. flag # None
  BY CommandLineAssumption DEF Names
<1>2. ~s.bad /\ s.pending = flag /\ s.cli = c
  BY DEF Waits
<1> HIDE DEF s
<1>3. Taken(s, w) = Ready(WithValue(s.cli, s.pending, w))
  BY <1>1, <1>2 DEF Taken
<1> QED
  BY <1>2, <1>3 DEF s

\* An option without a value.
LEMMA TakesSwitch ==
    ASSUME NEW m, NEW vs, NEW ks, NEW u, NEW k \in Switches
    PROVE  Taken(Ready(Line(m, vs, ks, u)), << k >>) = Ready(Line(m, vs, Append(ks, k), u))
<1> DEFINE w == << k >>
           c == Line(m, vs, ks, u)
<1>1. Head(w) = k /\ Len(w) = 1 /\ w[1] = k /\ w # << >>
  OBVIOUS
<1>2. /\ c.quick = None /\ c.switches = ks
      /\ \A v : [c EXCEPT !.switches = v] = Line(m, vs, v, u)
  BY DEF Line
<1> HIDE DEF w, c
<1>3. Dashed(w) /\ k \notin ValueFlags
  BY <1>1, CommandLineAssumption DEF Dashed
<1>4. OptionTaken(c, w) = Ready([c EXCEPT !.switches = Append(@, w[1])])
  BY <1>1, <1>2, <1>3 DEF OptionTaken
<1>5. [c EXCEPT !.switches = Append(@, w[1])] = [c EXCEPT !.switches = Append(ks, k)]
  BY <1>1, <1>2
<1> QED
  BY <1>2, <1>3, <1>4, <1>5, ReadyTakes DEF w, c

\* The URL, which is no name of a quick command.
LEMMA TakesUrl ==
    ASSUME NEW m, NEW vs, NEW ks, NEW w \in Words, ~Dashed(w),
           w \notin {<< q >> : q \in DOMAIN Subcommands}
    PROVE  Taken(Ready(Line(m, vs, ks, None)), w) = Ready(Line(m, vs, ks, w))
<1> DEFINE c == Line(m, vs, ks, None)
<1>1. ~(Len(w) = 1 /\ w[1] \in DOMAIN Subcommands)
  <2> SUFFICES ASSUME Len(w) = 1 PROVE w = << w[1] >>
    OBVIOUS
  <2> QED
    BY DEF Words
<1>2. c.quick = None /\ c.url = None /\ [c EXCEPT !.url = w] = Line(m, vs, ks, w)
  BY DEF Line
<1> HIDE DEF c
<1>3. PlaceTaken(c, w) = Ready(Line(m, vs, ks, w))
  BY <1>1, <1>2 DEF PlaceTaken
<1> QED
  BY <1>3, ReadyTakes DEF c

-----------------------------------------------------------------------------

\* x is the beginning of a line, and makes p so far.
Begun(x, p) == \E s : After(BetweenWords(<< >>), x, s) /\ Stands(s, p)

\* Every line begins with the name of the program.
LEMMA BegunWithRcurl == Begun(<< "rcurl" >>, Ready(EmptyCli))
<1> DEFINE w == << "rcurl" >>
           s == [at |-> "bare", word |-> w, words |-> << >>]
<1>1. w \in Words /\ Sound(w, w)
  BY NameSound DEF Names
<1> HIDE DEF w
<1>2. After(BetweenWords(<< >>), w, s)
  BY <1>1 DEF Sound
<1>3. Tail(Append(<< >>, w)) = << >> /\ << >> \in Seq(Words)
  OBVIOUS
<1>4. Took(Tail(Append(<< >>, w)), Ready(EmptyCli))
  BY <1>3, TookNothing
<1>5. Stands(s, Ready(EmptyCli))
  BY <1>1, <1>3, <1>4 DEF Stands
<1> QED
  BY <1>2, <1>5 DEF Begun, w

\* A line goes on with what leads on.
LEMMA BegunOn ==
    ASSUME NEW x, NEW y, NEW p, NEW q, Begun(x, p), Leads(y, p, q)
    PROVE  Begun(x \o y, q)
<1>1. PICK s : After(BetweenWords(<< >>), x, s) /\ Stands(s, p)
  BY DEF Begun
<1>2. PICK t : After(s, y, t) /\ Stands(t, q)
  BY <1>1 DEF Leads
<1>3. After(BetweenWords(<< >>), x \o y, t)
  BY <1>1, <1>2, AfterThen
<1> QED
  BY <1>2, <1>3 DEF Begun

\* What a line makes that ends here.
LEMMA LineEnds ==
    ASSUME NEW x, NEW c, Begun(x, Ready(c)),
           c.quick # None => Len(c.targets) = Subcommands[c.quick]
    PROVE  Reread(x) = c
<1>1. PICK s : After(BetweenWords(<< >>), x, s) /\ Stands(s, Ready(c))
  BY DEF Begun
<1>2. PICK ws \in Seq(Words), w \in Words :
        /\ s = [at |-> "bare", word |-> w, words |-> ws]
        /\ Took(Tail(Append(ws, w)), Ready(c))
  BY <1>1 DEF Stands
<1> DEFINE words == Append(ws, w)
<1>3. words \in Seq(Words) /\ words # << >>
  BY AppendProperties
<1>4. Split(x) = words
  <2>1. Lexed(x) = s
    BY <1>1, LexedIsAfter
  <2>2. s.at = "bare" /\ s.words = ws /\ s.word = w
    BY <1>2
  <2> QED
    BY <2>1, <2>2 DEF Split
<1>5. Took(Tail(words), Ready(c))
  BY <1>2
<1> HIDE DEF words
<1>6. Filled(Tail(words)) = Ready(c)
  <2>1. Tail(words) \in Seq(Words)
    BY <1>3, HeadTailProperties
  <2> QED
    BY <1>5, <2>1, FilledIsTook
<1>7. words # None
  BY <1>3, CommandLineAssumption
<1>8. ~Ready(c).bad /\ Ready(c).pending = None /\ Ready(c).cli = c
  BY DEF Ready
<1>9. Parsed(words) = c
  BY <1>6, <1>8 DEF Parsed
<1> QED
  BY <1>4, <1>7, <1>9 DEF Reread

\* A quick command is read back with its targets.
LEMMA QuickReplayed ==
    ASSUME NEW c \in Clis, c.quick # None, Rereadable(c)
    PROVE  Reread(Rendered(c)) = Remembered(c)
<1> DEFINE q == c.quick
           ts == c.targets
           words == << << q >> >> \o ts
           N == Len(ts)
           st == [k \in 0..(N + 1) |-> IF k = 0 THEN Ready(EmptyCli)
                                       ELSE Ready(QuickLine(q, SubSeq(ts, 1, k - 1)))]
<1>1. q \in DOMAIN Subcommands /\ ts \in Seq(Words) /\ N = Subcommands[q] /\ N \in Nat
  BY DEF Clis
<1>2. \A k \in 1..N : Plain(ts[k])
  BY DEF Rereadable
<1>3. << q >> \in Words /\ Sound(<< q >>, << q >>)
  BY <1>1, NameSound DEF Names
<1> HIDE DEF q, ts
<1>4. /\ words \in Seq(Words) /\ Len(words) = N + 1 /\ words[1] = << q >>
      /\ \A k \in 1..N : words[k + 1] = ts[k]
  <2>1. << << q >> >> \in Seq(Words) /\ Len(<< << q >> >>) = 1 /\ << << q >> >>[1] = << q >>
    BY <1>3
  <2> HIDE DEF N
  <2>2. Joined(<< << q >> >>, ts, words) /\ words \in Seq(Words)
    BY <1>1, <2>1, JoiningWorks
  <2> HIDE DEF words
  <2>3. Len(words) = 1 + N /\ \A k \in 1..N : words[1 + k] = ts[k]
    BY <2>1, <2>2 DEF Joined, N
  <2>4. words[1] = << q >>
    BY <2>1, <2>2 DEF Joined
  <2> QED
    BY <1>1, <2>2, <2>3, <2>4
<1>5. /\ st[0] = Ready(EmptyCli)
      /\ \A k \in 1..(N + 1) : st[k] = Ready(QuickLine(q, SubSeq(ts, 1, k - 1)))
  BY <1>1
<1>6. Spaced(words) = Spaced(<< << c.quick >> >> \o c.targets)
  BY DEF q, ts
<1> HIDE DEF words, st
<1>7. ASSUME NEW k \in 1..Len(words)
      PROVE  Sound(words[k], words[k]) /\ st[k] = Taken(st[k-1], words[k])
  <2>1. CASE k = 1
    <3>1. SubSeq(ts, 1, 1 - 1) = << >> /\ 1 - 1 = 0 /\ 1 \in 1..(N + 1)
      BY <1>1, PrefixEnds
    <3>2. st[1] = Ready(QuickLine(q, << >>))
      BY <1>5, <3>1
    <3>3. st[1] = Taken(st[1 - 1], words[1])
      BY <1>1, <1>4, <1>5, <3>1, <3>2, TakesQuick
    <3> QED
      BY <1>3, <1>4, <2>1, <3>3
  <2>2. CASE k # 1
    <3> DEFINE j == k - 1
    <3>1. j \in 1..N /\ k = j + 1 /\ j \in 1..(N + 1) /\ k \in 1..(N + 1) /\ k - 1 = j
      BY <1>1, <1>4, <2>2
    <3> HIDE DEF j
    <3>2. words[k] = ts[j] /\ ts[j] \in Words /\ Plain(ts[j])
      BY <1>1, <1>2, <1>4, <3>1
    <3>3. Sound(ts[j], ts[j]) /\ ~Dashed(ts[j])
      BY <3>2, PlainSound
    <3>4. Append(SubSeq(ts, 1, j - 1), ts[j]) = SubSeq(ts, 1, j)
      BY <1>1, <3>1, PrefixGrows
    <3>5. st[j] = Ready(QuickLine(q, SubSeq(ts, 1, j - 1))) /\ st[k] = Ready(QuickLine(q, SubSeq(ts, 1, j)))
      BY <1>5, <3>1
    <3>6. Taken(st[j], ts[j]) = st[k]
      <4> DEFINE before == SubSeq(ts, 1, j - 1)
      <4>1. Taken(Ready(QuickLine(q, before)), ts[j]) = Ready(QuickLine(q, Append(before, ts[j])))
        BY <1>1, <3>3, TakesTarget
      <4> QED
        BY <3>4, <3>5, <4>1
    <3> QED
      BY <3>1, <3>2, <3>3, <3>6
  <2> QED
    BY <2>1, <2>2
<1>8. Leads(Spaced(words), st[0], st[Len(words)])
  BY <1>4, <1>7, WordsLead
<1>9. st[Len(words)] = Ready(QuickLine(q, ts))
  <2>1. N + 1 \in 1..(N + 1) /\ (N + 1) - 1 = N
    BY <1>1
  <2>2. SubSeq(ts, 1, N) = ts
    BY <1>1, PrefixEnds
  <2> QED
    BY <1>4, <1>5, <2>1, <2>2
<1>10. Begun(<< "rcurl" >> \o Spaced(words), Ready(QuickLine(q, ts)))
  BY <1>5, <1>8, <1>9, BegunWithRcurl, BegunOn
<1>11. Rendered(c) = << "rcurl" >> \o Spaced(words)
  BY <1>6 DEF Rendered
<1>12. QuickLine(q, ts).quick = q /\ QuickLine(q, ts).targets = ts
  BY DEF QuickLine
<1>13. Reread(Rendered(c)) = QuickLine(q, ts)
  BY <1>1, <1>10, <1>11, <1>12, LineEnds
<1>14. Remembered(c) = QuickLine(q, ts)
  BY DEF Remembered, EmptyCli, QuickLine, q, ts
<1> QED
  BY <1>13, <1>14

Valued == [flag : ValueFlags \ {"-X"}, word : Words]

\* The values of the options, in quotes, are read back one after the other.
LEMMA ValuesLead ==
    ASSUME NEW m, NEW vs \in Seq(Valued), \A k \in 1..Len(vs) : ~Dashed(vs[k].word)
    PROVE  Leads(FlattenSeq([k \in 1..Len(vs) |-> Spaced(<< << vs[k].flag >>, Quoted(vs[k].word) >>)]),
                 Ready(Line(m, << >>, << >>, None)), Ready(Line(m, vs, << >>, None)))
<1> DEFINE xs == [k \in 1..Len(vs) |-> Spaced(<< << vs[k].flag >>, Quoted(vs[k].word) >>)]
           st == [k \in 0..Len(vs) |-> Ready(Line(m, SubSeq(vs, 1, k), << >>, None))]
           N == Len(vs)
<1>1. N \in Nat
  OBVIOUS
<1>2. \A k \in 0..N : st[k] = Ready(Line(m, SubSeq(vs, 1, k), << >>, None))
  OBVIOUS
<1>3. \A k \in 1..N : xs[k] = Spaced(<< << vs[k].flag >>, Quoted(vs[k].word) >>)
  OBVIOUS
<1>4. DOMAIN xs = 1..N /\ xs = [k \in 1..N |-> xs[k]]
  OBVIOUS
<1> HIDE DEF xs, st
<1>5. ASSUME NEW k \in 1..N PROVE Leads(xs[k], st[k-1], st[k])
  <2> DEFINE flag == vs[k].flag
             w == vs[k].word
             before == SubSeq(vs, 1, k - 1)
  <2>1. vs[k] \in Valued
    OBVIOUS
  <2>2. flag \in ValueFlags /\ flag # "-X" /\ w \in Words /\ vs[k] = [flag |-> flag, word |-> w]
    BY <2>1 DEF Valued
  <2>3. ~Dashed(w) /\ k - 1 \in 0..N /\ k \in 0..N
    OBVIOUS
  <2>4. Append(before, [flag |-> flag, word |-> w]) = SubSeq(vs, 1, k)
    BY <2>2, PrefixGrows
  <2> HIDE DEF flag, w, before
  <2>5. << flag >> \in Words /\ Sound(<< flag >>, << flag >>)
    BY <2>2, NameSound DEF Names
  <2>6. Sound(Quoted(w), w) /\ Quoted(w) \in Words
    <3>1. Sound(Quoted(w), w)
      BY <2>2, QuotedSound
    <3> QED
      BY <3>1 DEF Sound, After
  <2> DEFINE p == Ready(Line(m, before, << >>, None))
  <2>7. Taken(p, << flag >>) = Waits(Line(m, before, << >>, None), flag)
    BY <2>2, TakesFlag
  <2>8. Taken(Taken(p, << flag >>), w) = Ready(WithValue(Line(m, before, << >>, None), flag, w))
    BY <2>2, <2>3, <2>7, TakesValue
  <2>9. WithValue(Line(m, before, << >>, None), flag, w)
        = Line(m, Append(before, [flag |-> flag, word |-> w]), << >>, None)
    <3> DEFINE c == Line(m, before, << >>, None)
               e == [flag |-> flag, word |-> w]
    <3>1. c.values = before /\ \A v : [c EXCEPT !.values = v] = Line(m, v, << >>, None)
      BY DEF Line
    <3> HIDE DEF c
    <3>2. WithValue(c, flag, w) = [c EXCEPT !.values = Append(@, e)]
      BY <2>2 DEF WithValue
    <3> HIDE DEF e
    <3>3. [c EXCEPT !.values = Append(@, e)] = [c EXCEPT !.values = Append(before, e)]
      BY <3>1
    <3> QED
      BY <3>1, <3>2, <3>3 DEF c, e
  <2>10. st[k] = Taken(Taken(p, << flag >>), w) /\ st[k-1] = p
    BY <1>2, <2>3, <2>4, <2>8, <2>9 DEF before
  <2> HIDE DEF p
  <2>11. Leads(Spaced(<< << flag >>, Quoted(w) >>), p, Taken(Taken(p, << flag >>), w))
    BY <2>5, <2>6, TwoWordsLead
  <2> QED
    BY <1>3, <2>10, <2>11 DEF flag, w
<1>6. xs \in Seq(Words) /\ Len(xs) = N
  <2>1. \A k \in 1..N : xs[k] \in Words
    BY <1>5 DEF Leads
  <2>2. xs \in [1..N -> Words]
    BY <1>4, <2>1
  <2> QED
    BY <1>1, <2>2
<1>7. Leads(FlattenSeq(xs), st[0], st[Len(xs)])
  BY <1>5, <1>6, LeadsAll
<1>8. st[0] = Ready(Line(m, << >>, << >>, None)) /\ st[N] = Ready(Line(m, vs, << >>, None))
  <2>1. SubSeq(vs, 1, 0) = << >> /\ SubSeq(vs, 1, N) = vs
    BY PrefixEnds
  <2>2. 0 \in 0..N /\ N \in 0..N
    BY <1>1
  <2> QED
    BY <1>2, <2>1, <2>2
<1> QED
  BY <1>6, <1>7, <1>8 DEF xs

\* So are the switches.
LEMMA SwitchesLead ==
    ASSUME NEW m, NEW vs, NEW ks \in Seq(Switches)
    PROVE  Leads(Spaced([k \in 1..Len(ks) |-> << ks[k] >>]),
                 Ready(Line(m, vs, << >>, None)), Ready(Line(m, vs, ks, None)))
<1> DEFINE words == [k \in 1..Len(ks) |-> << ks[k] >>]
           st == [k \in 0..Len(ks) |-> Ready(Line(m, vs, SubSeq(ks, 1, k), None))]
           N == Len(ks)
<1>1. N \in Nat
  OBVIOUS
<1>2. \A k \in 0..N : st[k] = Ready(Line(m, vs, SubSeq(ks, 1, k), None))
  OBVIOUS
<1>3. \A k \in 1..N : words[k] = << ks[k] >>
  OBVIOUS
<1>4. DOMAIN words = 1..N /\ words = [k \in 1..N |-> words[k]]
  OBVIOUS
<1> HIDE DEF words, st
<1>5. ASSUME NEW k \in 1..N
      PROVE  words[k] \in Words /\ Sound(words[k], words[k]) /\ st[k] = Taken(st[k-1], words[k])
  <2> DEFINE before == SubSeq(ks, 1, k - 1)
  <2>1. ks[k] \in Switches /\ k - 1 \in 0..N /\ k \in 0..N
    OBVIOUS
  <2>2. Append(before, ks[k]) = SubSeq(ks, 1, k)
    BY PrefixGrows
  <2>3. << ks[k] >> \in Words /\ Sound(<< ks[k] >>, << ks[k] >>)
    BY <2>1, NameSound DEF Names
  <2>4. Taken(Ready(Line(m, vs, before, None)), << ks[k] >>)
        = Ready(Line(m, vs, Append(before, ks[k]), None))
    BY <2>1, TakesSwitch
  <2>5. st[k-1] = Ready(Line(m, vs, before, None)) /\ st[k] = Ready(Line(m, vs, SubSeq(ks, 1, k), None))
    BY <1>2, <2>1
  <2> QED
    BY <1>3, <2>2, <2>3, <2>4, <2>5
<1>6. words \in Seq(Words) /\ Len(words) = N
  <2>1. words \in [1..N -> Words]
    BY <1>4, <1>5
  <2> QED
    BY <1>1, <2>1
<1>7. Leads(Spaced(words), st[0], st[Len(words)])
  BY <1>5, <1>6, WordsLead
<1>8. st[0] = Ready(Line(m, vs, << >>, None)) /\ st[N] = Ready(Line(m, vs, ks, None))
  <2>1. SubSeq(ks, 1, 0) = << >> /\ SubSeq(ks, 1, N) = ks
    BY PrefixEnds
  <2>2. 0 \in 0..N /\ N \in 0..N
    BY <1>1
  <2> QED
    BY <1>2, <2>1, <2>2
<1> QED
  BY <1>6, <1>7, <1>8 DEF words

\* So is the method.
LEMMA MethodLeads ==
    ASSUME NEW m \in Words, Plain(m)
    PROVE  Leads(Spaced(<< << "-X" >>, m >>), Ready(Line(None, << >>, << >>, None)),
                 Ready(Line(m, << >>, << >>, None)))
<1> DEFINE c == Line(None, << >>, << >>, None)
<1>1. "-X" \in ValueFlags
  BY CommandLineAssumption
<1>2. << "-X" >> \in Words /\ Sound(<< "-X" >>, << "-X" >>)
  BY <1>1, NameSound DEF Names
<1>3. Sound(m, m) /\ ~Dashed(m)
  BY PlainSound
<1>4. WithValue(c, "-X", m) = Line(m, << >>, << >>, None)
  BY DEF WithValue, Line
<1>5. Taken(Ready(c), << "-X" >>) = Waits(c, "-X")
  BY <1>1, TakesFlag
<1> HIDE DEF c
<1>6. Taken(Taken(Ready(c), << "-X" >>), m) = Ready(Line(m, << >>, << >>, None))
  BY <1>1, <1>3, <1>4, <1>5, TakesValue
<1>7. Leads(Spaced(<< << "-X" >>, m >>), Ready(c), Taken(Taken(Ready(c), << "-X" >>), m))
  BY <1>2, <1>3, TwoWordsLead
<1> QED
  BY <1>6, <1>7 DEF c

\* A command line with a URL is read back as it was given.
LEMMA UrlReplayed ==
    ASSUME NEW c \in Clis, c.quick = None, Rereadable(c)
    PROVE  Reread(Rendered(c)) = Remembered(c)
<1> DEFINE m == c.method
           vs == c.values
           ks == c.switches
           u == c.url
<1>1. /\ m \in Words \cup {None} /\ vs \in Seq(Valued) /\ ks \in Seq(Switches)
      /\ u \in Words \cup {None} /\ c.targets = << >>
  BY DEF Clis, Valued
<1>2. c = Line(m, vs, ks, u)
  <2>1. c = [quick |-> c.quick, targets |-> c.targets, method |-> c.method, values |-> c.values,
             switches |-> c.switches, url |-> c.url]
    BY DEF Clis
  <2> QED
    BY <1>1, <2>1 DEF Line
<1>3. /\ m # None => Plain(m)
      /\ u # None => Plain(u) /\ u \notin {<< q >> : q \in DOMAIN Subcommands}
      /\ \A k \in 1..Len(vs) : ~Dashed(vs[k].word)
  BY DEF Rereadable
<1> DEFINE A == IF m = None THEN << >> ELSE Spaced(<< << "-X" >>, m >>)
           B == FlattenSeq([k \in 1..Len(vs) |-> Spaced(<< << vs[k].flag >>, Quoted(vs[k].word) >>)])
           C == Spaced([k \in 1..Len(ks) |-> << ks[k] >>])
           D == IF u = None THEN << >> ELSE Spaced(<< u >>)
<1>4. Rendered(c) = << "rcurl" >> \o A \o B \o C \o D
  BY DEF Rendered
<1>5. Remembered(c) = c
  BY DEF Remembered
<1> HIDE DEF m, vs, ks, u
<1>6. Leads(A, Ready(EmptyCli), Ready(Line(m, << >>, << >>, None)))
  <2>1. CASE m = None
    BY <2>1, LeadsNowhere, NothingYet
  <2>2. CASE m # None
    BY <1>1, <1>3, <2>2, MethodLeads, NothingYet
  <2> QED
    BY <2>1, <2>2
<1>7. Leads(B, Ready(Line(m, << >>, << >>, None)), Ready(Line(m, vs, << >>, None)))
  BY <1>1, <1>3, ValuesLead
<1>8. Leads(C, Ready(Line(m, vs, << >>, None)), Ready(Line(m, vs, ks, None)))
  BY <1>1, SwitchesLead
<1>9. Leads(D, Ready(Line(m, vs, ks, None)), Ready(Line(m, vs, ks, u)))
  <2>1. CASE u = None
    BY <2>1, LeadsNowhere
  <2>2. CASE u # None
    <3>1. u \in Words /\ Sound(u, u) /\ ~Dashed(u)
      BY <1>1, <1>3, <2>2, PlainSound
    <3>2. Taken(Ready(Line(m, vs, ks, None)), u) = Ready(Line(m, vs, ks, u))
      BY <1>3, <2>2, <3>1, TakesUrl
    <3>3. Leads(Spaced(<< u >>), Ready(Line(m, vs, ks, None)), Taken(Ready(Line(m, vs, ks, None)), u))
      BY <3>1, OneWordLeads
    <3> QED
      BY <2>2, <3>2, <3>3
  <2> QED
    BY <2>1, <2>2
<1> HIDE DEF A, B, C, D
<1>10. Begun(<< "rcurl" >> \o A, Ready(Line(m, << >>, << >>, None)))
  BY <1>6, BegunWithRcurl, BegunOn
<1>11. Begun(<< "rcurl" >> \o A \o B, Ready(Line(m, vs, << >>, None)))
  BY <1>7, <1>10, BegunOn
<1>12. Begun(<< "rcurl" >> \o A \o B \o C, Ready(Line(m, vs, ks, None)))
  BY <1>8, <1>11, BegunOn
<1>13. Begun(<< "rcurl" >> \o A \o B \o C \o D, Ready(Line(m, vs, ks, u)))
  BY <1>9, <1>12, BegunOn
<1>14. Begun(Rendered(c), Ready(c))
  BY <1>2, <1>4, <1>13
<1>15. Reread(Rendered(c)) = c
  BY <1>14, LineEnds
<1> QED
  BY <1>5, <1>15

\* Every line of the history that can be written down and read again is.
LEMMA EveryLineReplayed ==
    ASSUME NEW c \in PastClis, Rereadable(c)
    PROVE  Reread(Rendered(c)) = Remembered(c) /\ Remembered(c) # None
<1>1. c \in Clis
  BY AppAssumption
<1>2. Reread(Rendered(c)) = Remembered(c)
  BY <1>1, QuickReplayed, UrlReplayed
<1>3. Remembered(c) \in Clis
  <2>1. CASE c.quick = None
    BY <1>1, <2>1 DEF Remembered
  <2>2. CASE c.quick # None
    <3> DEFINE d == QuickLine(c.quick, c.targets)
    <3>1. d = Remembered(c)
      BY <2>2 DEF Remembered, EmptyCli, QuickLine
    <3>2. /\ c.quick \in DOMAIN Subcommands \cup {None} /\ c.targets \in Seq(Words)
          /\ Len(c.targets) = Subcommands[c.quick]
      BY <1>1, <2>2 DEF Clis
    <3>3. << >> \in Seq([flag : ValueFlags \ {"-X"}, word : Words]) /\ << >> \in Seq(Switches)
      OBVIOUS
    <3>4. d \in Clis
      BY <2>2, <3>2, <3>3 DEF QuickLine, Clis
    <3> QED
      BY <3>1, <3>4
  <2> QED
    BY <2>1, <2>2
<1> QED
  BY <1>2, <1>3, CommandLineAssumption

\* Before a line is picked, there is nothing to compare.
Replayed ==
    /\ handler \in Handlers
    /\ pc \in {"start", "menu"} => chosen = None /\ cli = None
    /\ ReplayExact

\* Every step keeps it: only picking a line sets what is compared.
LEMMA ReplayedStep ==
    ASSUME Replayed, [AppNext]_vars
    PROVE  Replayed'
<1> USE DEF Replayed, Goto, EndWith
<1>0. handler' = handler
  BY DEF AppNext, AppStep, UsageError, CommandGiven, NoHistory, OpenMenu, InitLogging, Save, Dispatch,
         Exit, CancelMenu, SelectLine, LineRefused, Elsewhere, Http, Https, FtpRun, PingRun, DiskRun,
         WhoisRun, PortRun, appVars, vars
<1>1. CASE \E c \in PastClis : SelectLine(c)
  <2>1. PICK c \in PastClis : SelectLine(c)
    BY <1>1
  <2>2. chosen' = c /\ cli' = Reread(Rendered(c)) /\ pc' = "logging"
    BY <2>1 DEF SelectLine
  <2> QED
    BY <1>0, <2>2, EveryLineReplayed DEF ReplayExact
<1>2. CASE \E c \in PastClis : LineRefused(c)
  <2>1. PICK c \in PastClis : LineRefused(c)
    BY <1>2
  <2>2. chosen' = c /\ Reread(Rendered(c)) = None /\ pc' = "done"
    BY <2>1 DEF LineRefused
  <2>3. ~Rereadable(c)
    BY <2>2, EveryLineReplayed
  <2> QED
    BY <1>0, <2>2, <2>3 DEF ReplayExact
<1>3. CASE InitLogging
  BY <1>0, <1>3 DEF InitLogging, ReplayExact
<1>4. CASE UNCHANGED <<chosen, cli>> /\ pc' \notin {"start", "menu"}
  BY <1>0, <1>4 DEF ReplayExact
<1>5. CASE OpenMenu \/ UNCHANGED vars
  BY <1>0, <1>5 DEF OpenMenu, vars, appVars, ReplayExact
<1>6. CASE UsageError \/ CommandGiven \/ NoHistory \/ CancelMenu \/ Save \/ Elsewhere \/ Exit
  <2>1. UNCHANGED <<chosen, cli>> /\ pc' \notin {"start", "menu"}
    BY <1>6 DEF UsageError, CommandGiven, NoHistory, CancelMenu, Save, Elsewhere, Exit, appVars
  <2> QED
    BY <1>4, <2>1
<1>7. CASE Dispatch
  <2>1. Entrance \notin {"start", "menu"} \/ handler = "none"
    BY DEF Entrance, Handlers
  <2> QED
    BY <1>4, <1>7, <2>1 DEF Dispatch, appVars
<1>8. CASE Http \/ Https \/ FtpRun \/ PingRun \/ DiskRun \/ WhoisRun \/ PortRun
  <2>1. UNCHANGED appVars
    BY <1>8 DEF Http, Https, FtpRun, PingRun, DiskRun, WhoisRun, PortRun
  <2>2. pc' \notin {"start", "menu"}
    BY <1>8, HandlersAreInside
  <2> QED
    BY <1>4, <2>1, <2>2 DEF appVars
<1> QED
  BY <1>1, <1>2, <1>3, <1>5, <1>6, <1>7, <1>8 DEF AppNext, AppStep

\* interactive_mode: what is run from the menu is what was saved, for every line
\* that can be written down and read again, and no such line is refused.
THEOREM LinesAlwaysReplayed == AppSpec => []ReplayExact
<1>1. AppInit => Replayed
  BY DEF AppInit, Replayed, ReplayExact
<1>2. Replayed /\ [AppNext]_vars => Replayed'
  BY ReplayedStep
<1>3. Replayed => ReplayExact
  BY DEF Replayed
<1> QED
  BY <1>1, <1>2, <1>3, PTL DEF AppSpec
=============================================================================
