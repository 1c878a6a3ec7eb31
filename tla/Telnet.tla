------------------------------- MODULE Telnet -------------------------------
(***************************************************************************)
(* The telnet quick command (telnet/handler.rs): a thread that reads       *)
(* standard input and a loop that polls the connection and the thread's    *)
(* channel in turn.                                                        *)
(*                                                                         *)
(* A line of text is << >> (blank) or << w >> for a word w.  What travels  *)
(* on the channel is a byte vector, and the empty vector is the mark that  *)
(* the user is done, so a blank line must not encode to it.                *)
(*                                                                         *)
(* The telnet crate and the remote peer are external: a read yields the    *)
(* next event the peer caused, nothing, or an error.                       *)
(***************************************************************************)
EXTENDS Naturals, Sequences, SequencesExt

CONSTANTS
    Words,       \* contents of a non-blank line
    QuitWords,   \* "quit" and "exit"
    CRLF,
    Options,     \* telnet options the peer may negotiate
    MaxTyped,    \* bound: lines the user types
    MaxOffers,   \* bound: negotiations the peer opens by itself
    MaxInbox     \* bound: events in flight from the peer

ASSUME TelnetAssumption ==
    /\ QuitWords \subseteq Words
    /\ CRLF \notin Words
    /\ MaxTyped \in Nat /\ MaxOffers \in Nat /\ MaxInbox \in Nat

VARIABLES
    sPc,     \* the stdin thread: "reading" or "exited"
    chan,    \* the mpsc channel
    mPc,     \* the main loop
    inbox,   \* events from the peer that the loop has not read yet
    out,     \* negotiation replies on their way to the peer
    up,      \* the connection still carries what is written
    offers,  \* negotiations opened by the peer so far
    typed,   \* ghost: the lines the user entered to be sent
    handed,  \* ghost: what telnet.write was given, in order
    failed   \* ghost: the loop ended on a read error

vars == <<sPc, chan, mPc, inbox, out, up, offers, typed, handed, failed>>

Quit == << >>

Texts == {<< >>} \cup {<< w >> : w \in Words}

QuitTexts == {<< w >> : w \in QuitWords}

Actions == {"do", "will", "dont", "wont"}

Negotiations == [kind : Actions, option : Options]

\* Data, and the events the loop ignores (Subnegotiation, UnknownIAC).
Events == Negotiations \cup [kind : {"data", "ignored"}]

\* Faulty variant: the line goes out as it is, so a blank one is the mark.
EncodeBare(text) == text

\* line.as_bytes() followed by \r\n.
Encode(text) == Append(text, CRLF)

Messages == {Encode(t) : t \in Texts}

TypeOK ==
    /\ sPc \in {"reading", "exited"}
    /\ chan \in Seq(Messages \cup {Quit})
    /\ mPc \in {"read", "recv", "join", "done", "panicked"}
    /\ inbox \in Seq(Events)
    /\ out \in Seq(Negotiations)
    /\ up \in BOOLEAN
    /\ offers \in 0..MaxOffers
    /\ typed \in Seq(Texts)
    /\ handed \in Seq(Messages)
    /\ failed \in BOOLEAN

Init ==
    /\ sPc = "reading"
    /\ chan = << >>
    /\ mPc = "read"
    /\ inbox = << >>
    /\ out = << >>
    /\ up = TRUE
    /\ offers = 0
    /\ typed = << >>
    /\ handed = << >>
    /\ failed = FALSE

-----------------------------------------------------------------------------
(* The stdin thread *)

\* run_telnet owns the receiver until it returns or unwinds.
ReceiverAlive == mPc \notin {"done", "panicked"}

\* A line that is not a quit word.  A line that is not UTF-8 makes read_line
\* fail with input still empty, and is handled as a blank one.
Line(text) ==
    /\ sPc = "reading"
    /\ text \notin QuitTexts
    /\ Len(typed) < MaxTyped
    /\ IF ReceiverAlive
       THEN /\ chan' = Append(chan, Encode(text))
            /\ typed' = Append(typed, text)
            /\ sPc' = sPc
       ELSE /\ sPc' = "exited"
            /\ UNCHANGED <<chan, typed>>
    /\ UNCHANGED <<mPc, inbox, out, up, offers, handed, failed>>

\* "quit", "exit" or end of file: the mark, and the thread ends.
Stop ==
    /\ sPc = "reading"
    /\ sPc' = "exited"
    /\ chan' = IF ReceiverAlive THEN Append(chan, Quit) ELSE chan
    /\ UNCHANGED <<mPc, inbox, out, up, offers, typed, handed, failed>>

-----------------------------------------------------------------------------
(* The main loop *)

\* Faulty variant: refusals are acknowledged too.
ReplyToAll(event) ==
    CASE event.kind \in {"do", "dont"} -> << [kind |-> "wont", option |-> event.option] >>
      [] event.kind \in {"will", "wont"} -> << [kind |-> "dont", option |-> event.option] >>
      [] OTHER -> << >>

\* The reply a negotiation calls for: every option is refused, and a refusal
\* of the peer is not answered.
Reply(event) ==
    CASE event.kind = "do" -> << [kind |-> "wont", option |-> event.option] >>
      [] event.kind = "will" -> << [kind |-> "dont", option |-> event.option] >>
      [] OTHER -> << >>

\* read_nonblocking returns an event.  A reply the connection cannot carry is
\* dropped (let _ = telnet.negotiate).
ReadEvent ==
    /\ mPc = "read"
    /\ inbox # << >>
    /\ inbox' = Tail(inbox)
    /\ out' = IF up THEN out \o Reply(Head(inbox)) ELSE out
    /\ mPc' = "recv"
    /\ UNCHANGED <<sPc, chan, up, offers, typed, handed, failed>>

\* read_nonblocking returns NoData or TimedOut.
ReadNothing ==
    /\ mPc = "read"
    /\ inbox = << >>
    /\ mPc' = "recv"
    /\ UNCHANGED <<sPc, chan, inbox, out, up, offers, typed, handed, failed>>

\* An error event or a failed read leaves the loop.
ReadFails ==
    /\ mPc = "read"
    /\ ~up
    /\ mPc' = "join"
    /\ failed' = TRUE
    /\ UNCHANGED <<sPc, chan, inbox, out, up, offers, typed, handed>>

\* print! panics when standard output is closed; the receiver is dropped.
Panic ==
    /\ mPc = "read"
    /\ inbox # << >> /\ Head(inbox).kind = "data"
    /\ mPc' = "panicked"
    /\ UNCHANGED <<sPc, chan, inbox, out, up, offers, typed, handed, failed>>

\* Faulty variant: the end is not looked for while the peer is talking.
StopRequestedUnlessBusy ==
    /\ inbox = << >>
    /\ IF chan = << >> THEN sPc = "exited" ELSE Head(chan) = Quit

\* What makes try_recv end the loop: the mark, or no sender left.
StopRequested ==
    IF chan = << >> THEN sPc = "exited" ELSE Head(chan) = Quit

\* Faulty variant: the newest line is served first.
TryRecvNewest ==
    /\ mPc = "recv"
    /\ ~StopRequested
    /\ IF chan = << >> \/ Last(chan) = Quit THEN UNCHANGED <<chan, handed>>
       ELSE /\ chan' = Front(chan)
            /\ handed' = Append(handed, Last(chan))
    /\ mPc' = "read"
    /\ UNCHANGED <<sPc, inbox, out, up, offers, typed, failed>>

\* Faulty variant: standard input is served only when the peer is silent.
TryRecvWhenIdle ==
    /\ mPc = "recv"
    /\ ~StopRequested
    /\ IF chan = << >> \/ inbox # << >> THEN UNCHANGED <<chan, handed>>
       ELSE /\ chan' = Tail(chan)
            /\ handed' = Append(handed, Head(chan))
    /\ mPc' = "read"
    /\ UNCHANGED <<sPc, inbox, out, up, offers, typed, failed>>

\* try_recv yields a line, or nothing; then 10 ms of sleep and round again.
\* An error of telnet.write is ignored.
TryRecv ==
    /\ mPc = "recv"
    /\ ~StopRequested
    /\ IF chan = << >> THEN UNCHANGED <<chan, handed>>
       ELSE /\ chan' = Tail(chan)
            /\ handed' = Append(handed, Head(chan))
    /\ mPc' = "read"
    /\ UNCHANGED <<sPc, inbox, out, up, offers, typed, failed>>

LeaveLoop ==
    /\ mPc = "recv"
    /\ StopRequested
    /\ chan' = IF chan = << >> THEN chan ELSE Tail(chan)
    /\ mPc' = "join"
    /\ UNCHANGED <<sPc, inbox, out, up, offers, typed, handed, failed>>

\* stdin_thread.join(), then run_telnet returns.
Join ==
    /\ mPc = "join"
    /\ sPc = "exited"
    /\ mPc' = "done"
    /\ UNCHANGED <<sPc, chan, inbox, out, up, offers, typed, handed, failed>>

-----------------------------------------------------------------------------
(* The peer: external *)

PeerSends(event) ==
    /\ up
    /\ Len(inbox) < MaxInbox
    /\ event \in Negotiations => offers < MaxOffers
    /\ offers' = IF event \in Negotiations THEN offers + 1 ELSE offers
    /\ inbox' = Append(inbox, event)
    /\ UNCHANGED <<sPc, chan, mPc, out, up, typed, handed, failed>>

\* A peer that acknowledges every refusal it receives.
PeerAcknowledges ==
    /\ up
    /\ out # << >>
    /\ inbox' = Append(inbox, [kind |-> IF Head(out).kind = "wont" THEN "dont" ELSE "wont",
                               option |-> Head(out).option])
    /\ out' = Tail(out)
    /\ UNCHANGED <<sPc, chan, mPc, up, offers, typed, handed, failed>>

PeerCloses ==
    /\ up
    /\ up' = FALSE
    /\ UNCHANGED <<sPc, chan, mPc, inbox, out, offers, typed, handed, failed>>

-----------------------------------------------------------------------------

Loop == ReadEvent \/ ReadNothing \/ TryRecv \/ LeaveLoop \/ Join

Next ==
    \/ Loop
    \/ \E t \in Texts : Line(t)
    \/ Stop
    \/ ReadFails
    \/ Panic
    \/ \E e \in Events : PeerSends(e)
    \/ PeerAcknowledges
    \/ PeerCloses

Spec == Init /\ [][Next]_vars

\* The loop never waits except in join, and the peer acknowledges what it is
\* told.  The user may never type again.
FairSpec == Spec /\ WF_vars(Loop) /\ WF_vars(PeerAcknowledges)

-----------------------------------------------------------------------------
(* Properties *)

\* The channel keeps the order: what has been handed to telnet.write is the
\* encoding of the first lines typed, none lost, doubled or swapped.
HandedInOrder ==
    /\ Len(handed) <= Len(typed)
    /\ \A k \in 1..Len(handed) : handed[k] = Encode(typed[k])

\* The loop ends for one of two reasons: the connection failed, or the user
\* asked for it, and then every line typed before was handed over first.
\* A blank line is not a request to end.
QuitFlushes ==
    mPc \in {"join", "done"} /\ ~failed =>
      /\ sPc = "exited"
      /\ Len(handed) = Len(typed)

\* Neither side keeps the other busy with refusals for ever: whatever options
\* the peer asks for, no negotiation reply remains to be acknowledged.
NegotiationSettles == <>[](out = << >> \/ ~up)

\* A peer that never stops sending does not starve the user: every line is
\* handed over unless the loop ends.
LineServed ==
    \A n \in 1..MaxTyped :
      Len(typed) >= n ~> (Len(handed) >= n \/ mPc \in {"join", "done", "panicked"})

\* Once the user has ended the input the command returns.
SessionEnds == sPc = "exited" ~> mPc \in {"done", "panicked"}
=============================================================================
