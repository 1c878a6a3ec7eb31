------------------------------- MODULE Whois -------------------------------
(***************************************************************************)
(* rcurl whois name (whois/handler.rs): connect to the server of the top   *)
(* level domain under a timeout, send the query, and read until the end    *)
(* with a timeout for each read.  Every read is decoded on its own.        *)
(*                                                                         *)
(* An answer is a sequence of bytes: "c" is a character of one byte, "l"   *)
(* and "t" are the two bytes of a longer one.  Text is a sequence of "c",  *)
(* "w" (the longer character) and "?" (U+FFFD, a byte that fits nothing).  *)
(***************************************************************************)
EXTENDS Naturals, Sequences, SequencesExt, Task

CONSTANTS
    Targets,   \* domain names and addresses, as sequences of labels
    Registry,  \* the table of determine_whois_server: [last label -> server]
    Address(_), \* a target that parses as an IP address
    Answers,   \* what the server may say, as byte sequences
    BufferSize \* 8192 bytes

ASSUME WhoisAssumption ==
    /\ Targets # {}
    /\ Answers \subseteq Seq({"c", "l", "t"}) /\ Answers # {}
    /\ BufferSize \in Nat \ {0}

VARIABLES
    target,   \* the argument, in lower case
    server,   \* the server that is asked
    answer,   \* bytes the server still has to send, as far as they are of interest
    ending,   \* what the server does after that: see Endings
    quiet,    \* the timer of the read in progress is about to go off
    response, \* the text read so far
    received, \* ghost: the bytes read so far
    split,    \* ghost: a read ended inside a character
    output    \* what was printed

whoisVars == <<target, server, answer, ending, quiet, response, received, split, output>>

WhoisPlaces == {"dial", "query", "reading"}

\* It closes the connection, falls silent, or goes on for ever.
Endings == {"close", "silence", "trickle"}

WhoisInit(targets, answers, endings) ==
    /\ target \in targets
    /\ server = "none"
    /\ answer \in answers
    /\ ending \in endings
    /\ quiet = FALSE
    /\ response = << >>
    /\ received = << >>
    /\ split = FALSE
    /\ output = << >>

\* String::from_utf8_lossy: complete characters are kept, and a byte that is
\* not part of one is replaced.
Decode(bytes) ==
    LET text[k \in 0..Len(bytes)] ==
          IF k = 0 THEN << >>
          ELSE IF bytes[k] = "c" THEN Append(text[k-1], "c")
          ELSE IF bytes[k] = "t" /\ k > 1 /\ bytes[k-1] = "l"
               THEN Append(Front(text[k-1]), "w")
          ELSE Append(text[k-1], "?")
    IN  text[Len(bytes)]

-----------------------------------------------------------------------------

\* determine_whois_server: by the last label, which of an address is never in
\* the table.  A trailing dot makes it empty, and asks IANA.
ServerFor(t) ==
    IF Last(t) \in DOMAIN Registry THEN Registry[Last(t)]
    ELSE IF Address(t) THEN "whois.arin.net" ELSE "whois.iana.org"

\* TcpStream::connect to port 43 of the server.
Dial ==
    /\ pc = "dial"
    /\ server' = ServerFor(target)
    /\ quiet' = FALSE
    /\ Goto("query")
    /\ UNCHANGED <<target, answer, ending, response, received, split, output>>

\* The query is written and flushed.
SendQuery ==
    /\ pc = "query"
    /\ Goto("reading")
    /\ UNCHANGED whoisVars

\* The name of the server does not resolve, or it refuses or resets.
WhoisFails ==
    /\ pc \in WhoisPlaces
    /\ EndWith("failed")
    /\ UNCHANGED whoisVars

\* Faulty variant: what is in the buffer from earlier reads is decoded again.
ReadKeepsBuffer(n) ==
    /\ pc = "reading"
    /\ n <= Len(answer) /\ n <= BufferSize
    /\ response' = Decode(received \o SubSeq(answer, 1, n)) \o response
    /\ received' = received \o SubSeq(answer, 1, n)
    /\ split' = (split \/ (answer[n] = "l" /\ n < Len(answer) /\ answer[n+1] = "t"))
    /\ answer' = SubSeq(answer, n + 1, Len(answer))
    /\ quiet' = FALSE
    /\ UNCHANGED <<target, server, ending, output, pc, result>>

\* A read returns between one byte and a full buffer; the timer starts anew.
Read(n) ==
    /\ pc = "reading"
    /\ n <= Len(answer) /\ n <= BufferSize
    /\ response' = response \o Decode(SubSeq(answer, 1, n))
    /\ received' = received \o SubSeq(answer, 1, n)
    /\ split' = (split \/ (answer[n] = "l" /\ n < Len(answer) /\ answer[n+1] = "t"))
    /\ answer' = SubSeq(answer, n + 1, Len(answer))
    /\ quiet' = FALSE
    /\ UNCHANGED <<target, server, ending, output, pc, result>>

\* A server that never ends: the bytes beyond those of interest are read like
\* the others, and not represented.
ReadOn ==
    /\ pc = "reading"
    /\ ending = "trickle" /\ answer = << >>
    /\ quiet' = FALSE
    /\ UNCHANGED <<target, server, answer, ending, response, received, split, output, pc, result>>

\* Time passes without a byte.
Wait ==
    /\ pc \in {"dial", "reading"}
    /\ quiet' = TRUE
    /\ UNCHANGED <<target, server, answer, ending, response, received, split, output, pc, result>>

\* Faulty variant: a read that times out ends the answer.
FinishOrTimeout ==
    /\ pc = "reading"
    /\ output' = response
    /\ EndWith("ok")
    /\ UNCHANGED <<target, server, answer, ending, quiet, response, received, split>>

\* read returns 0: the response is printed, all of it at once.
Finish ==
    /\ pc = "reading"
    /\ ending = "close" /\ answer = << >>
    /\ output' = response
    /\ EndWith("ok")
    /\ UNCHANGED <<target, server, answer, ending, quiet, response, received, split>>

\* print! panics when standard output is closed, or when it fails on the way.
WhoisPrintPanics(n) ==
    /\ pc = "reading"
    /\ ending = "close" /\ answer = << >>
    /\ output' = SubSeq(response, 1, n)
    /\ EndWith("panicked")
    /\ UNCHANGED <<target, server, answer, ending, quiet, response, received, split>>

\* Faulty variant: only the connection has a timeout.
TimesOutDialing ==
    /\ pc = "dial"
    /\ quiet
    /\ EndWith("failed")
    /\ UNCHANGED whoisVars

\* The timer of the connection (10 s), or of one read (30 s), goes off: the ?
\* returns, and what has been read is dropped.
WhoisTimesOut ==
    /\ pc \in {"dial", "reading"}
    /\ quiet
    /\ EndWith("failed")
    /\ UNCHANGED whoisVars

\* What happens without the server: the query fits into the socket's buffer,
\* time passes, and the end of the connection or of a timer is noticed.
WhoisSelf == SendQuery \/ Wait \/ Finish \/ WhoisTimesOut

WhoisNext ==
    \/ Dial
    \/ SendQuery
    \/ WhoisFails
    \/ \E n \in 1..Len(answer) : Read(n)
    \/ ReadOn
    \/ Wait
    \/ Finish
    \/ \E n \in 0..Len(response) : WhoisPrintPanics(n)
    \/ WhoisTimesOut

WhoisSpec ==
    /\ pc = "dial" /\ result = "none" /\ WhoisInit(Targets, Answers, Endings)
    /\ [][WhoisNext]_<<whoisVars, pc, result>>

-----------------------------------------------------------------------------
(* Properties *)

WhoisTypeOK ==
    /\ target \in Targets
    /\ server \in {"none", "whois.arin.net", "whois.iana.org"} \cup
                 {Registry[label] : label \in DOMAIN Registry}
    /\ answer \in Seq({"c", "l", "t"}) /\ received \in Seq({"c", "l", "t"})
    /\ quiet \in BOOLEAN /\ ending \in Endings /\ split \in BOOLEAN
    /\ response \in Seq({"c", "w", "?"}) /\ output \in Seq({"c", "w", "?"})

\* Nothing is printed of an answer that did not come to its end.  What is printed
\* is the whole of it, to the last byte and in order, or as much as standard
\* output took before it failed; and it reads as the server wrote it unless the
\* end of a read fell between the two bytes of a character.
WholeAnswerOrNone ==
    output # << >> =>
      /\ result \in {"ok", "panicked"} /\ ending = "close" /\ answer = << >>
      /\ ~split => IsPrefix(output, Decode(received))
      /\ result = "ok" => Len(output) >= Len(Decode(received))
=============================================================================
