-------------------------------- MODULE Ftp --------------------------------
(***************************************************************************)
(* One ftp:, ftps: or sftp: request (ftp/handler.rs): connect, secure the  *)
(* control connection, log in, change directory, and then one of three     *)
(* things: store a local file, send a SITE command, or list the directory  *)
(* and deliver the listing.                                                *)
(*                                                                         *)
(* The suppaftp crate and the server are external: a command is accepted   *)
(* or it is not.  A stored file is the number of its bytes; what is        *)
(* delivered of the listing is the segments it is put together from, each  *)
(* the positions from one up to another that is not in it.                 *)
(***************************************************************************)
EXTENDS Naturals, Sequences, Task

CONSTANTS
    FtpOptions,  \* the command lines of interest
    Ranges,      \* lists of inclusive byte ranges that -r may ask for
    NoRange,     \* -r was not given
    Lengths,     \* how long a listing may be
    UploadSize   \* bytes of the local file

Schemes == {"ftp", "ftps", "sftp"}

\* -u was not given, is "name:password", or has no colon.
UserOptions == {"absent", "pair", "single"}

Options ==
    [scheme : Schemes, user : UserOptions, urlPassword : BOOLEAN,
     upload : BOOLEAN, quote : BOOLEAN, range : Ranges \cup {NoRange},
     output : BOOLEAN]

ASSUME FtpAssumption ==
    /\ FtpOptions \subseteq Options /\ FtpOptions # {}
    /\ NoRange \notin Ranges
    /\ Ranges \subseteq Seq([first : Nat, last : Nat]) \ {<< >>}
    /\ Lengths \subseteq Nat
    /\ UploadSize \in Nat

VARIABLES
    opts,     \* the parsed command line (cli)
    secured,  \* the control connection speaks TLS
    binary,   \* the transfer type is binary
    listing,  \* bytes of the listing
    piece,    \* item: the segments of the listing that are to be delivered
    local,    \* the -o file: created or truncated, and written to the end
    remote,   \* the file on the server
    shown,    \* the segments that were printed
    clear,    \* ghost: credentials travelled without TLS
    message   \* the text the progress bar finishes with

ftpVars == <<opts, secured, binary, listing, piece, local, remote, shown,
             clear, message>>

session == <<opts, secured, binary, clear>>

Positions == 0..(listing - 1)

Segments == Seq([from : Nat, to : Nat])

Whole == << [from |-> 0, to |-> listing] >>

Untouched == [new |-> FALSE, whole |-> FALSE]

FtpPlaces ==
    {"connect", "secure", "login", "cwd", "type", "transfer", "put", "storing",
     "finish", "cut", "deliver", "write"}

FtpTypeOK ==
    /\ opts \in FtpOptions
    /\ secured \in BOOLEAN /\ binary \in BOOLEAN /\ clear \in BOOLEAN
    /\ listing \in Lengths \cup {0}
    /\ piece \in Segments
    /\ local \in [new : BOOLEAN, whole : BOOLEAN]
    /\ remote \in [new : BOOLEAN, len : 0..UploadSize]
    /\ shown \in Segments
    /\ message \in {"none", "upload success"}

FtpInit(options) ==
    /\ opts \in options
    /\ secured = FALSE
    /\ binary = FALSE
    /\ listing = 0
    /\ piece = << >>
    /\ local = Untouched
    /\ remote = [new |-> FALSE, len |-> 0]
    /\ shown = << >>
    /\ clear = FALSE
    /\ message = "none"

\* What a step on the control connection leaves alone.
DataUnchanged == UNCHANGED <<listing, piece, local, remote, shown, message>>

-----------------------------------------------------------------------------
(* The session *)

\* Faulty variant: TLS is set up after the login.
ConnectLoginFirst ==
    /\ pc = "connect"
    /\ pc' = "login"
    /\ DataUnchanged /\ UNCHANGED <<opts, secured, binary, clear, result>>

\* RustlsFtpStream::connect.  Only the scheme "ftps" is set apart: "sftp" is
\* spoken as plain FTP.
Connect ==
    /\ pc = "connect"
    /\ pc' = IF opts.scheme = "ftps" THEN "secure" ELSE "login"
    /\ DataUnchanged /\ UNCHANGED <<opts, secured, binary, clear, result>>

\* into_secure: AUTH TLS and the handshake.
Secure ==
    /\ pc = "secure"
    /\ secured' = TRUE
    /\ pc' = "login"
    /\ DataUnchanged /\ UNCHANGED <<opts, binary, clear, result>>

\* -u must have a colon; without -u the URL must have a password, because an
\* absolute URL always has an authority.
HasCredentials ==
    \/ opts.user = "pair"
    \/ opts.user = "absent" /\ opts.urlPassword

\* USER and PASS are sent.
Login ==
    /\ pc = "login"
    /\ HasCredentials
    /\ clear' = (clear \/ ~secured)
    /\ pc' = "cwd"
    /\ DataUnchanged /\ UNCHANGED <<opts, secured, binary, result>>

\* "User data error" or "Password is empty!"
NoCredentials ==
    /\ pc = "login"
    /\ ~HasCredentials
    /\ EndWith("failed")
    /\ DataUnchanged /\ UNCHANGED session

ChangeDirectory ==
    /\ pc = "cwd"
    /\ pc' = "type"
    /\ DataUnchanged /\ UNCHANGED <<opts, secured, binary, clear, result>>

\* TYPE I is accepted.
SetBinary ==
    /\ pc = "type"
    /\ binary' = TRUE
    /\ pc' = "transfer"
    /\ DataUnchanged /\ UNCHANGED <<opts, secured, clear, result>>

\* Faulty variant: the result of transfer_type is ignored.
BinaryRefusedIgnored ==
    /\ pc = "type"
    /\ pc' = "transfer"
    /\ DataUnchanged /\ UNCHANGED <<opts, secured, binary, clear, result>>

\* TYPE I is refused, or the connection is gone: the assert! fails.
BinaryRefused ==
    /\ pc = "type"
    /\ EndWith("panicked")
    /\ DataUnchanged /\ UNCHANGED session

\* The connection cannot be made, breaks, or the server says no.
Refused ==
    /\ \/ pc \in {"connect", "secure", "cwd"}
       \/ pc = "login" /\ HasCredentials
       \/ pc = "transfer" /\ ~opts.upload
    /\ clear' = (clear \/ (pc = "login" /\ ~secured))
    /\ EndWith("failed")
    /\ DataUnchanged /\ UNCHANGED <<opts, secured, binary>>

-----------------------------------------------------------------------------
(* -T: store a file *)

\* File::open, its metadata and its name.
OpenUpload ==
    /\ pc = "transfer"
    /\ opts.upload
    /\ pc' = "put"
    /\ DataUnchanged /\ UNCHANGED <<opts, secured, binary, clear, result>>

UploadMissing ==
    /\ pc = "transfer"
    /\ opts.upload
    /\ EndWith("failed")
    /\ DataUnchanged /\ UNCHANGED session

\* put_file begins: the server accepts STOR and empties the file, or refuses.
Store ==
    /\ pc = "put"
    /\ \/ /\ remote' = [new |-> TRUE, len |-> 0]
          /\ pc' = "storing"
       \/ /\ pc' = "finish"
          /\ UNCHANGED remote
    /\ UNCHANGED <<opts, secured, binary, listing, piece, local, shown, clear, message, result>>

\* Faulty variant: a byte more than the file has.
StoreByteOneMore ==
    /\ pc = "storing"
    /\ remote.len <= UploadSize
    /\ remote' = [remote EXCEPT !.len = @ + 1]
    /\ UNCHANGED <<opts, pc, secured, binary, listing, piece, local, shown, clear, message, result>>

\* ProgressBarIter::read hands put_file another byte.
StoreByte ==
    /\ pc = "storing"
    /\ remote.len < UploadSize
    /\ remote' = [remote EXCEPT !.len = @ + 1]
    /\ UNCHANGED <<opts, pc, secured, binary, listing, piece, local, shown, clear, message, result>>

\* put_file returns: everything was sent, or reading the file, the data
\* connection or the server's final reply failed.
StoreReturns ==
    /\ pc = "storing"
    /\ pc' = "finish"
    /\ DataUnchanged /\ UNCHANGED <<opts, secured, binary, clear, result>>

\* let _ = put_file(..), and the progress bar finishes.
FinishUpload ==
    /\ pc = "finish"
    /\ message' = "upload success"
    /\ EndWith("ok")
    /\ UNCHANGED <<opts, secured, binary, listing, piece, local, remote, shown, clear>>

-----------------------------------------------------------------------------
(* -Q, and listing *)

\* SITE is sent in place of a transfer.
Quote ==
    /\ pc = "transfer"
    /\ ~opts.upload /\ opts.quote
    /\ EndWith("ok")
    /\ DataUnchanged /\ UNCHANGED session

\* The whole listing came, and the final reply was good.
List(n) ==
    /\ pc = "transfer"
    /\ ~opts.upload /\ ~opts.quote
    /\ listing' = n
    /\ pc' = "cut"
    /\ UNCHANGED <<opts, secured, binary, piece, local, remote, shown, clear, message, result>>

\* http_range_header clips a range to the listing.  Of every range there must
\* be something left, and no two of them may overlap.
Clipped(r) == [r EXCEPT !.last = IF @ < listing THEN @ ELSE listing - 1]

Apart(r, s) == Clipped(r).last < s.first \/ Clipped(s).last < r.first

Satisfiable(ranges) ==
    /\ \A k \in DOMAIN ranges : ranges[k].first < listing /\ ranges[k].first <= ranges[k].last
    /\ \A j, k \in DOMAIN ranges : j # k => Apart(ranges[j], ranges[k])

\* Faulty variant: the end of the range is passed by one.
SegmentPastEnd(r) == [from |-> r.first, to |-> Clipped(r).last + 2]

\* item[start..end]: the inclusive end of the range is used as an exclusive one.
Segment(r) == [from |-> r.first, to |-> Clipped(r).last]

\* output: everything, or one range after the other.
Cut ==
    /\ pc = "cut"
    /\ opts.range # NoRange => Satisfiable(opts.range)
    /\ piece' = IF opts.range = NoRange THEN Whole
                ELSE [k \in DOMAIN opts.range |-> Segment(opts.range[k])]
    /\ pc' = "deliver"
    /\ UNCHANGED <<opts, secured, binary, listing, local, remote, shown, clear, message, result>>

\* The ranges cannot be satisfied.  One that does not parse takes this way too,
\* and is represented by one that no listing satisfies.
RangeRefused ==
    /\ pc = "cut"
    /\ opts.range # NoRange
    /\ ~Satisfiable(opts.range)
    /\ EndWith("failed")
    /\ DataUnchanged /\ UNCHANGED session

\* println!
ShowListing ==
    /\ pc = "deliver"
    /\ ~opts.output
    /\ shown' = piece
    /\ EndWith("ok")
    /\ UNCHANGED <<opts, secured, binary, listing, piece, local, remote, clear, message>>

\* println! panics when standard output is closed.
PrintPanics ==
    /\ pc = "deliver"
    /\ ~opts.output
    /\ EndWith("panicked")
    /\ DataUnchanged /\ UNCHANGED session

\* Faulty variant: the file is opened, and truncated, before the range is seen.
OpenOutputBeforeCut ==
    /\ pc \in {"cut", "deliver"}
    /\ opts.output
    /\ local' = [new |-> TRUE, whole |-> FALSE]
    /\ pc' = IF pc = "cut" THEN "cut" ELSE "write"
    /\ UNCHANGED <<opts, secured, binary, listing, piece, remote, shown, clear, message, result>>

\* The -o file is created or truncated.
OpenOutput ==
    /\ pc = "deliver"
    /\ opts.output
    /\ local' = [new |-> TRUE, whole |-> FALSE]
    /\ pc' = "write"
    /\ UNCHANGED <<opts, secured, binary, listing, piece, remote, shown, clear, message, result>>

OpenFails ==
    /\ pc = "deliver"
    /\ opts.output
    /\ EndWith("failed")
    /\ DataUnchanged /\ UNCHANGED session

\* let _ = write_all: a full disk goes unnoticed.
WriteOutput ==
    /\ pc = "write"
    /\ \E all \in BOOLEAN : local' = [local EXCEPT !.whole = all]
    /\ EndWith("ok")
    /\ UNCHANGED <<opts, secured, binary, listing, piece, remote, shown, clear, message>>

-----------------------------------------------------------------------------

FtpNext ==
    \/ Connect
    \/ Secure
    \/ Login
    \/ NoCredentials
    \/ ChangeDirectory
    \/ SetBinary
    \/ BinaryRefused
    \/ Refused
    \/ OpenUpload
    \/ UploadMissing
    \/ Store
    \/ StoreByte
    \/ StoreReturns
    \/ FinishUpload
    \/ Quote
    \/ \E n \in Lengths : List(n)
    \/ Cut
    \/ RangeRefused
    \/ ShowListing
    \/ PrintPanics
    \/ OpenOutput
    \/ OpenFails
    \/ WriteOutput

FtpSpec ==
    /\ pc = "connect" /\ result = "none" /\ FtpInit(FtpOptions)
    /\ [][FtpNext]_<<ftpVars, pc, result>>

-----------------------------------------------------------------------------
(* Properties *)

\* With ftps: no user name and no password leaves before TLS is up, on any
\* path and whichever step fails.
CredentialsCovered == opts.scheme = "ftps" => ~clear

\* The old -o file survives until there is something to put in its place: it is
\* truncated only after the session, the listing and the range have succeeded.
OutputOpenedLast ==
    local.new =>
      /\ binary
      /\ opts.range # NoRange => Satisfiable(opts.range)

\* A file is only ever stored in binary mode.
StoredInBinary == remote.new => binary

\* A session ended well whose command was to print the listing.
Listed == result = "ok" /\ binary /\ ~opts.upload /\ ~opts.quote /\ ~opts.output

Within(s) == s.from .. (s.to - 1)

Asked(r) == Positions \cap (r.first .. r.last)

\* As many pieces as ranges, in the same order and each within its range: no
\* byte from outside of the ranges or from beyond the listing, none twice, and of
\* each range at most the last byte is missing.
PiecesOf(ranges, pieces) ==
    /\ DOMAIN pieces = DOMAIN ranges
    /\ \A k \in DOMAIN ranges :
         /\ Within(pieces[k]) \subseteq Asked(ranges[k])
         /\ \A x, y \in Asked(ranges[k]) : x < y => x \in Within(pieces[k])
    /\ \A j, k \in DOMAIN ranges : j # k => Within(pieces[j]) \cap Within(pieces[k]) = {}

\* What is printed is the listing, or with -r the bytes within the ranges, less
\* the last one of each at most, in the order the ranges were asked for.
DeliveredWithinRange ==
    Listed => IF opts.range = NoRange THEN shown = Whole ELSE PiecesOf(opts.range, shown)

\* -r: "Retrieve only the bytes within RANGE".  What is printed is every byte of
\* the listing that is in one of the ranges.
RangeRetrieved ==
    Listed /\ opts.range # NoRange =>
      \A k \in DOMAIN opts.range :
        Asked(opts.range[k]) \subseteq UNION {Within(shown[j]) : j \in DOMAIN shown}

\* "upload success": the file is on the server, all of it.
UploadSuccess ==
    message = "upload success" => remote = [new |-> TRUE, len |-> UploadSize]
=============================================================================
