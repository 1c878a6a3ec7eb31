---------------------------- MODULE BuildRequest ----------------------------
(***************************************************************************)
(* The requests of one http command (build_request of http/handler.rs, and *)
(* the redirect loop that calls it again on every hop): which method,      *)
(* headers and body the options of the command line add up to, and which   *)
(* files they are read from.  How a request travels is HttpTransfer.       *)
(*                                                                         *)
(* A header value, a body or the content of a file is a member of a small  *)
(* set.  Files may be written or removed by others while the command runs. *)
(***************************************************************************)
EXTENDS Naturals, Sequences, SequencesExt, Lists, Task

CONSTANTS
    Payloads,   \* the command lines of interest
    Paths,      \* arguments that name files
    BareName,   \* [Paths -> Paths]: Path::file_name, taken as a path of its own
    Contents,   \* what a file may hold
    Absent,     \* a file that is not there, or an option that was not given
    MaxHops     \* MAX_REDIRECTS

HeaderNames == {"content-type", "accept", "user-agent", "cookie"}

\* A -F argument: a field, a file, or something without "=".
FormItems ==
    [kind : {"field"}, text : Contents] \cup [kind : {"file"}, path : Paths]
    \cup {[kind |-> "malformed"]}

\* A -H argument: a pair, or something without ":".  The latter stands for all
\* that is not legal in a header: a name, a value, the text of -A, -b or -X.
Headers ==
    [kind : {"pair"}, name : HeaderNames, value : Contents]
    \cup {[kind |-> "malformed"]}

ASSUME BuildAssumption ==
    /\ BareName \in [Paths -> Paths]
    /\ Absent \notin Contents \cup Paths \cup {"urlencoded", "type of file"}
    /\ MaxHops \in Nat \ {0}
    /\ Payloads # {}
    /\ \A o \in Payloads :
         /\ o.data \in Contents \cup {Absent}
         /\ o.form \in Seq(FormItems)
         /\ o.upload \in Paths \cup {Absent}
         /\ o.headers \in Seq(Headers)
         /\ o.head \in BOOLEAN
         /\ o.method \in STRING \cup {Absent}

VARIABLES
    payload,   \* the options of the command line
    disk,      \* disk[f]: what file f holds, or Absent
    built,     \* the requests of the chain so far
    rewritten  \* ghost: a file changed after the chain began

buildVars == <<payload, disk, built, rewritten>>

Disks == [Paths -> Contents \cup {Absent}]

BuildInit(payloads, disks) ==
    /\ payload \in payloads
    /\ disk \in disks
    /\ built = << >>
    /\ rewritten = FALSE

-----------------------------------------------------------------------------
(* build_request *)

\* Later tests overwrite earlier ones, and the form sets POST once more on the
\* builder that already has the method.
Method(o) ==
    IF o.form # << >> THEN "POST"
    ELSE IF o.head THEN "HEAD"
    ELSE IF o.method # Absent THEN o.method
    ELSE IF o.upload # Absent THEN "PUT"
    ELSE IF o.data # Absent THEN "POST" ELSE "GET"

\* header_map before the loop over -H.  An upload is given a type only when it
\* is the body, that is with neither -F nor -d.
DefaultHeaders(o) ==
    [h \in HeaderNames |->
       CASE h = "accept" -> "*/*"
         [] h = "user-agent" -> o.agent
         [] h = "cookie" -> o.cookie
         [] h = "content-type" ->
              IF o.data # Absent THEN "urlencoded"
              ELSE IF o.form = << >> /\ o.upload # Absent THEN "type of file"
              ELSE Absent]

\* Faulty variant: a header of the user only fills a gap.
HeaderMapFirstWins(o) ==
    [h \in HeaderNames |->
       LET given == {k \in 1..Len(o.headers) : o.headers[k].name = h}
       IN  IF DefaultHeaders(o)[h] # Absent \/ given = {} THEN DefaultHeaders(o)[h]
           ELSE o.headers[CHOOSE k \in given : \A j \in given : j <= k].value]

\* insert: the last -H of a name replaces the others and the default.
HeaderMap(o) ==
    [h \in HeaderNames |->
       LET given == {k \in 1..Len(o.headers) : o.headers[k].name = h}
       IN  IF given = {} THEN DefaultHeaders(o)[h]
           ELSE o.headers[CHOOSE k \in given : \A j \in given : j <= k].value]

\* The Content-Type lines of the request: the form's own comes first and the
\* one of the map is appended to it.
ContentTypes(o) ==
    (IF o.form # << >> THEN << "multipart" >> ELSE << >>)
    \o (IF HeaderMap(o)["content-type"] # Absent
        THEN << HeaderMap(o)["content-type"] >> ELSE << >>)

\* The files that are read for the body: those of the form by their bare name.
FormFiles(o) == {BareName[it.path] : it \in {f \in ToSet(o.form) : f.kind = "file"}}

BodyFiles(o) ==
    IF o.form # << >> THEN FormFiles(o)
    ELSE IF o.data = Absent /\ o.upload # Absent THEN {o.upload} ELSE {}

\* Fields as they are, files as they are found on the disk now.
FormPart(item) ==
    IF item.kind = "file" THEN [file |-> item.path, holds |-> disk[BareName[item.path]]]
    ELSE [file |-> Absent, holds |-> item.text]

Body(o) ==
    IF o.form # << >> THEN [k \in 1..Len(o.form) |-> FormPart(o.form[k])]
    ELSE IF o.data # Absent THEN << [file |-> Absent, holds |-> o.data] >>
    ELSE IF o.upload # Absent THEN << [file |-> o.upload, holds |-> disk[o.upload]] >>
    ELSE << >>

\* None of the early returns of build_request is taken.
Buildable(o) ==
    /\ \A it \in ToSet(o.form) : it.kind # "malformed"
    /\ \A h \in ToSet(o.headers) : h.kind # "malformed"
    /\ \A f \in BodyFiles(o) : disk[f] # Absent

Built(o) ==
    [method |-> Method(o), types |-> ContentTypes(o),
     headers |-> [HeaderMap(o) EXCEPT !["content-type"] = Absent], body |-> Body(o)]

-----------------------------------------------------------------------------
(* The chain of requests *)

\* Faulty variant: a redirect is followed without the body.
BuildBodyOnce ==
    /\ pc = "build"
    /\ Len(built) < MaxHops
    /\ Buildable(payload)
    /\ built' = Append(built, IF built = << >> THEN Built(payload)
                              ELSE [Built(payload) EXCEPT !.body = << >>])
    /\ Goto("exchange")
    /\ UNCHANGED <<payload, disk, rewritten>>

\* One round of the redirect loop: the same options, the files of this moment.
Build ==
    /\ pc = "build"
    /\ Len(built) < MaxHops
    /\ Buildable(payload)
    /\ built' = Append(built, Built(payload))
    /\ Goto("exchange")
    /\ UNCHANGED <<payload, disk, rewritten>>

Unbuildable ==
    /\ pc = "build"
    /\ Len(built) < MaxHops
    /\ ~Buildable(payload)
    /\ EndWith("unbuildable")
    /\ UNCHANGED buildVars

\* The response is a redirect, and the loop goes round, or is exhausted.
Redirected ==
    /\ pc = "exchange"
    /\ Goto("build")
    /\ UNCHANGED buildVars

Exhausted ==
    /\ pc = "build"
    /\ Len(built) = MaxHops
    /\ EndWith("failed")
    /\ UNCHANGED buildVars

\* The final response was handled, or the exchange failed (HttpTransfer).
Exchanged ==
    /\ pc = "exchange"
    /\ EndWith("ok") \/ EndWith("failed")
    /\ UNCHANGED buildVars

\* Another program writes or removes a file.
FileChanges ==
    /\ pc \in {"build", "exchange"}
    /\ \E f \in Paths, c \in Contents \cup {Absent} :
         /\ c # disk[f]
         /\ disk' = [disk EXCEPT ![f] = c]
    /\ rewritten' = TRUE
    /\ UNCHANGED <<payload, built, pc, result>>

BuildNext ==
    \/ Build
    \/ Unbuildable
    \/ Redirected
    \/ Exhausted
    \/ Exchanged
    \/ FileChanges

BuildSpec ==
    /\ pc = "build" /\ result = "none" /\ BuildInit(Payloads, Disks)
    /\ [][BuildNext]_<<buildVars, pc, result>>

-----------------------------------------------------------------------------
(* Properties *)

\* A redirect repeats the request: every hop sends the same method, headers and
\* body, and no hop after the first can fail to be built, except where another
\* program has written to the files in between.
SameRequestEveryHop ==
    ~rewritten =>
      /\ \A j, k \in 1..Len(built) : built[j] = built[k]
      /\ result = "unbuildable" => built = << >>

\* The Content-Type a request carries first is the one of its body, unless the
\* user wrote one; and it carries a second one only when -F meets -d or -H.
BodyLabelled ==
    \A k \in 1..Len(built) :
      LET o == payload
          mine == Picked(o.headers, {i \in 1..Len(o.headers) : o.headers[i].name = "content-type"})
          own == mine # << >>
          types == built[k].types
      IN  /\ o.form # << >> => types[1] = "multipart"
          /\ o.form = << >> /\ own => types = << Last(mine).value >>
          /\ o.form = << >> /\ ~own =>
               types = CASE built[k].body = << >> -> << >>
                         [] o.data # Absent -> << "urlencoded" >>
                         [] OTHER -> << "type of file" >>
          /\ Len(types) = 2 => o.form # << >> /\ (own \/ o.data # Absent)

\* "rcurl -F 'file=@/path/to/file' # Upload as multipart form": the file that
\* is sent is the one that was named.
NamedFileIsSent ==
    ~rewritten =>
      \A k \in 1..Len(built) : \A part \in ToSet(built[k].body) :
        part.file # Absent => part.holds = disk[part.file]
=============================================================================
