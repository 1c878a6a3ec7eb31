------------------------------- MODULE MCApp -------------------------------
(***************************************************************************)
(* A small instance of App.  Each handler has its own inputs, chosen so    *)
(* that every branch of it is taken; they add up, they do not multiply.    *)
(***************************************************************************)
EXTENDS App, TLC

WordsOver(S, n) == UNION {[1..k -> S] : k \in 0..n}

-----------------------------------------------------------------------------
(* http: two files, one of them outside of the current directory *)

MCBareName == ("far" :> "near") @@ ("near" :> "near")

Bare ==
    [data |-> Absent, form |-> << >>, upload |-> Absent, headers |-> << >>,
     head |-> FALSE, method |-> Absent, agent |-> "x", cookie |-> Absent]

Field == [kind |-> "field", text |-> "x"]
File(f) == [kind |-> "file", path |-> f]
Pair(h, v) == [kind |-> "pair", name |-> h, value |-> v]
Malformed == [kind |-> "malformed"]

MCPayloads ==
    { Bare, [Bare EXCEPT !.data = "x"], [Bare EXCEPT !.upload = "far", !.cookie = "y"],
      [Bare EXCEPT !.upload = "near", !.data = "y"],
      [Bare EXCEPT !.form = << Field, File("near") >>, !.head = TRUE],
      [Bare EXCEPT !.form = << File("far") >>, !.data = "x"],
      [Bare EXCEPT !.form = << Field, Malformed >>], [Bare EXCEPT !.headers = << Malformed >>],
      [Bare EXCEPT !.upload = "far", !.method = "PATCH",
                   !.headers = << Pair("content-type", "x"), Pair("content-type", "y") >>],
      [Bare EXCEPT !.data = "x", !.headers = << Pair("accept", "x"), Pair("content-type", "y") >>],
      [Bare EXCEPT !.form = << Field >>, !.headers = << Pair("content-type", "y") >>] }

-----------------------------------------------------------------------------
(* https: days of three hours, and a certificate is expiring two days ahead *)

MCOrders ==
    [show : BOOLEAN, insecure : BOOLEAN, bracketed : {FALSE},
     roots : {NoFile, [good |-> TRUE, has |-> {"private"}], [good |-> TRUE, has |-> {}]}]
    \cup [show : BOOLEAN, insecure : {FALSE}, bracketed : {TRUE}, roots : {NoFile}]
    \cup [show : BOOLEAN, insecure : {FALSE}, bracketed : {FALSE},
          roots : {[good |-> FALSE, has |-> {}]}]

Good ==
    [authority |-> "public", named |-> TRUE, from |-> 1, until |-> 3,
     readable |-> TRUE, holdsKey |-> TRUE, key |-> "ec"]

MCServers ==
    { Good, [Good EXCEPT !.authority = "private"], [Good EXCEPT !.named = FALSE],
      [Good EXCEPT !.until = 9, !.key = "rsa"], [Good EXCEPT !.readable = FALSE],
      [Good EXCEPT !.holdsKey = FALSE, !.key = "ed448"] }

-----------------------------------------------------------------------------
(* ftp: every scheme with every form of credentials; one range within,     *)
(* across and beyond the end of the listing, two apart, out of order, and  *)
(* with a byte in common                                                   *)

Bytes(first, last) == [first |-> first, last |-> last]

MCRanges ==
    { << Bytes(0, 0) >>, << Bytes(1, 5) >>, << Bytes(4, 5) >>, << Bytes(0, 0), Bytes(1, 2) >>,
      << Bytes(2, 9), Bytes(0, 1) >>, << Bytes(0, 1), Bytes(1, 2) >> }

\* -T, -Q and -r together are legal; the first of them that applies wins.
MCFtpOptions ==
    {o \in Options : o.upload \/ o.quote => ~o.output /\ o.range = NoRange}

-----------------------------------------------------------------------------
(* disk: all names of up to six characters for a column of five, all       *)
(* sizes around three borders between units, and trees that shrink         *)

Node(k, name, sizes) == [kind |-> k, name |-> name, sizes |-> sizes]

MCTrees ==
    {<< Node("file", w, << 1 >>) >> : w \in WordsOver({1, 2}, 6) \ {<< >>}}
    \cup {<< Node("file", << 1 >>, << n >>) >> : n \in 0..70 \cup 250..260}
    \cup { << Node("file", << 1, 1 >>, << 2 >>), Node("dir", << 2 >>, << 1, 3 >>),
              Node("link", << 1 >>, << 9 >>), Node("dir", << 1 >>, << 2 >>),
              Node("file", << 2, 1 >>, << 5 >>) >>,
           << Node("dir", << 1 >>, << >>), Node("dir", << 2 >>, << 4, 0, 1 >>) >>, << >> }

-----------------------------------------------------------------------------
(* whois: answers with characters of one and of two bytes, whole and broken *)

MCRegistry == "com" :> "whois.verisign-grs.com"
MCAddress(t) == Len(t) = 4
MCTargets == {<< "example", "com" >>, << "192", "0", "2", "1" >>, << "example", "" >>}
MCAnswers ==
    { << >>, << "c" >>, << "c", "l", "t" >>, << "l", "t", "l", "t" >>, << "l", "c", "t", "c" >> }

-----------------------------------------------------------------------------
(* port: a client with the same local port as the server, a socket whose   *)
(* owner cannot be seen, and one that two processes share                  *)

Socket(kind, far, listen, pids) ==
    [proto |-> kind, port |-> 80, remote |-> far, listen |-> listen, pids |-> pids]

MCPortJobs ==
    { [kind |-> "list", port |-> 0], [kind |-> "find", port |-> 80],
      [kind |-> "kill", port |-> 80], [kind |-> "kill", port |-> 81] }

MCTables ==
    { << >>, << Socket("tcp", 443, FALSE, << 1 >>), Socket("tcp", 0, TRUE, << 2 >>) >>,
      << Socket("tcp", 0, TRUE, << >>), Socket("tcp", 0, TRUE, << 1 >>) >>,
      << Socket("udp", 0, FALSE, << 1, 2 >>) >> }

-----------------------------------------------------------------------------
(* the history: every word of up to two characters wherever one may stand *)

MCSubcommands == ("ping" :> 1) @@ ("telnet" :> 2) @@ ("port" :> 0)

Words2 == WordsOver({"a", " ", "'", "quote", "\\", "#", "-", "ping"}, 2)

MCPastClis ==
    {[EmptyCli EXCEPT !.url = w] : w \in Words2}
    \cup {[EmptyCli EXCEPT !.quick = "ping", !.targets = << w >>, !.switches = << "-v" >>] : w \in Words2}
    \cup {[EmptyCli EXCEPT !.quick = "telnet", !.targets = << w, << "a" >> >>] : w \in Words2}
    \cup {[EmptyCli EXCEPT !.method = w, !.url = << "a" >>] : w \in Words2}
    \cup {[EmptyCli EXCEPT !.values = << [flag |-> "-d", word |-> w], [flag |-> "-o", word |-> v] >>,
                           !.switches = << "-k", "-v" >>, !.url = << "a" >>] :
            w \in Words2, v \in {<< >>, << "'", "a", "'" >>}}
=============================================================================
