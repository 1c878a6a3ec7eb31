---------------------------- MODULE TelnetProofs ----------------------------
(***************************************************************************)
(* The telnet command hands every typed line to the connection in order,   *)
(* and ends only on an error or on request, with nothing left behind: for  *)
(* any number of lines, offers and events, and any words.                  *)
(*                                                                         *)
(* The channel is not a variable of those statements, so the invariant     *)
(* says what it holds: the encodings of the typed lines that have not been *)
(* handed over, then the mark if the stdin thread has ended.               *)
(***************************************************************************)
EXTENDS Telnet, SequenceTheorems, TLAPS

\* Types first: nothing but whole messages and the mark is ever sent, and
\* replies are refusals.

\* A blank line or a word is a sequence of words.
LEMMA TextIsSequence == Texts \subseteq Seq(Words)
<1>1. << >> \in Seq(Words)
  OBVIOUS
<1>2. \A w \in Words : << w >> \in Seq(Words)
  OBVIOUS
<1> QED
  BY <1>1, <1>2 DEF Texts

\* The CRLF keeps an encoded line, a blank one too, from being the mark.
LEMMA EncodeIsNotQuit == \A t \in Texts : Encode(t) # Quit
<1> SUFFICES ASSUME NEW t \in Texts PROVE Append(t, CRLF) # << >>
  BY DEF Encode, Quit
<1>1. t \in Seq(Words)
  BY TextIsSequence
<1>2. Len(t) \in Nat /\ t \in Seq(Words \cup {CRLF}) /\ CRLF \in Words \cup {CRLF}
  BY <1>1
<1>3. Len(Append(t, CRLF)) = Len(t) + 1
  BY <1>2, AppendProperties
<1>4. Len(<< >>) = 0
  OBVIOUS
<1> QED
  BY <1>2, <1>3, <1>4

\* The reply to an event is a sequence of at most one negotiation.
LEMMA ReplyType == \A e \in Events : Reply(e) \in Seq(Negotiations)
<1> SUFFICES ASSUME NEW e \in Events PROVE Reply(e) \in Seq(Negotiations)
  OBVIOUS
<1>1. CASE e \in Negotiations
  <2>1. e.option \in Options
    BY <1>1 DEF Negotiations
  <2>2. /\ [kind |-> "wont", option |-> e.option] \in Negotiations
        /\ [kind |-> "dont", option |-> e.option] \in Negotiations
    BY <2>1 DEF Negotiations, Actions
  <2> QED
    BY <2>2 DEF Reply
<1>2. CASE e \in [kind : {"data", "ignored"}]
  BY <1>2 DEF Reply
<1> QED
  BY <1>1, <1>2 DEF Events

\* The state keeps its types.
THEOREM TypeCorrect == Spec => []TypeOK
<1>1. Init => TypeOK
  <2> SUFFICES ASSUME Init PROVE TypeOK
    OBVIOUS
  <2>1. offers \in 0..MaxOffers
    BY TelnetAssumption DEF Init
  <2>2. /\ chan \in Seq(Messages \cup {Quit}) /\ inbox \in Seq(Events)
        /\ out \in Seq(Negotiations) /\ typed \in Seq(Texts) /\ handed \in Seq(Messages)
    BY DEF Init
  <2> QED
    BY <2>1, <2>2 DEF Init, TypeOK
<1>2. TypeOK /\ [Next]_vars => TypeOK'
  <2> SUFFICES ASSUME TypeOK, [Next]_vars PROVE TypeOK'
    OBVIOUS
  <2> USE DEF TypeOK
  <2>1. ASSUME NEW t \in Texts, Line(t) PROVE TypeOK'
    <3>1. Encode(t) \in Messages \cup {Quit}
      BY DEF Messages
    <3>2. CASE ReceiverAlive
      <4>1. chan' = Append(chan, Encode(t)) /\ typed' = Append(typed, t)
        BY <2>1, <3>2 DEF Line
      <4>2. chan' \in Seq(Messages \cup {Quit}) /\ typed' \in Seq(Texts)
        BY <3>1, <4>1
      <4> QED
        BY <2>1, <3>2, <4>2 DEF Line
    <3>3. CASE ~ReceiverAlive
      BY <2>1, <3>3 DEF Line
    <3> QED
      BY <3>2, <3>3
  <2>2. CASE Stop
    <3>1. chan' \in Seq(Messages \cup {Quit})
      BY <2>2 DEF Stop
    <3> QED
      BY <2>2, <3>1 DEF Stop
  <2>3. CASE ReadEvent
    <3>1. Head(inbox) \in Events /\ inbox' \in Seq(Events)
      BY <2>3 DEF ReadEvent
    <3>2. out' \in Seq(Negotiations)
      BY <2>3, <3>1, ReplyType DEF ReadEvent
    <3> QED
      BY <2>3, <3>1, <3>2 DEF ReadEvent
  <2>4. CASE ReadNothing
    BY <2>4 DEF ReadNothing
  <2>5. CASE ReadFails
    BY <2>5 DEF ReadFails
  <2>6. CASE Panic
    BY <2>6 DEF Panic
  <2>7. CASE TryRecv
    <3>1. CASE chan = << >>
      BY <2>7, <3>1 DEF TryRecv
    <3>2. CASE chan # << >>
      <4>1. Head(chan) # Quit
        BY <2>7, <3>2 DEF TryRecv, StopRequested
      <4>2. Head(chan) \in Messages /\ Tail(chan) \in Seq(Messages \cup {Quit})
        BY <3>2, <4>1
      <4>3. chan' = Tail(chan) /\ handed' = Append(handed, Head(chan))
        BY <2>7, <3>2 DEF TryRecv
      <4>4. handed' \in Seq(Messages)
        BY <4>2, <4>3
      <4> QED
        BY <2>7, <4>2, <4>3, <4>4 DEF TryRecv
    <3> QED
      BY <3>1, <3>2
  <2>8. CASE LeaveLoop
    <3>1. chan' \in Seq(Messages \cup {Quit})
      BY <2>8 DEF LeaveLoop
    <3> QED
      BY <2>8, <3>1 DEF LeaveLoop
  <2>9. CASE Join
    BY <2>9 DEF Join
  <2>10. ASSUME NEW e \in Events, PeerSends(e) PROVE TypeOK'
    <3>1. inbox' \in Seq(Events)
      BY <2>10 DEF PeerSends
    <3>2. offers' \in 0..MaxOffers
      BY <2>10, TelnetAssumption DEF PeerSends
    <3> QED
      BY <2>10, <3>1, <3>2 DEF PeerSends
  <2>11. CASE PeerAcknowledges
    <3>1. Head(out) \in Negotiations /\ out' \in Seq(Negotiations)
      BY <2>11 DEF PeerAcknowledges
    <3> DEFINE answer == [kind |-> IF Head(out).kind = "wont" THEN "dont" ELSE "wont",
                          option |-> Head(out).option]
    <3>2. Head(out).option \in Options
      BY <3>1 DEF Negotiations
    <3>3. answer \in Events
      BY <3>2 DEF Negotiations, Actions, Events
    <3>4. inbox' = Append(inbox, answer)
      BY <2>11 DEF PeerAcknowledges
    <3> HIDE DEF answer
    <3>5. inbox' \in Seq(Events)
      BY <3>3, <3>4
    <3> QED
      BY <2>11, <3>1, <3>5 DEF PeerAcknowledges
  <2>12. CASE PeerCloses
    BY <2>12 DEF PeerCloses
  <2>13. CASE UNCHANGED vars
    BY <2>13 DEF vars
  <2> QED
    BY <2>1, <2>2, <2>3, <2>4, <2>5, <2>6, <2>7, <2>8, <2>9, <2>10, <2>11, <2>12, <2>13
    DEF Next, Loop
<1> QED
  BY <1>1, <1>2, PTL DEF Spec

-----------------------------------------------------------------------------

\* What the k-th message ever sent on the channel is.
Sent(k) == IF k <= Len(typed) THEN Encode(typed[k]) ELSE Quit

\* The channel holds what was sent and not yet received.
ChanHolds == \A k \in 1..Len(chan) : chan[k] = Sent(Len(handed) + k)

\* The mark has not been received: the loop runs, or it failed.
Listening == mPc \in {"read", "recv"} \/ (mPc = "join" /\ failed)

\* Nothing sent is missing.
Balanced ==
    /\ sPc = "reading" => Len(handed) + Len(chan) = Len(typed)
    /\ sPc = "exited" => Len(handed) + Len(chan) = Len(typed) + 1

Conserved ==
    /\ mPc \in {"read", "recv"} => ~failed
    /\ Listening => Balanced

Inv == TypeOK /\ HandedInOrder /\ QuitFlushes /\ ChanHolds /\ Conserved

-----------------------------------------------------------------------------

\* The first message decides between a line and the mark.
LEMMA HeadOfChan ==
    ASSUME Inv, chan # << >>
    PROVE  /\ Len(chan) >= 1
           /\ Head(chan) = Sent(Len(handed) + 1)
           /\ Head(chan) # Quit => Len(handed) + 1 <= Len(typed)
           /\ Head(chan) = Quit => Len(handed) = Len(typed)
<1>1. Len(chan) \in Nat /\ Len(chan) >= 1 /\ Head(chan) = chan[1]
  BY DEF Inv, TypeOK
<1>2. Head(chan) = Sent(Len(handed) + 1)
  BY <1>1 DEF Inv, ChanHolds
<1>3. Len(handed) \in Nat /\ Len(typed) \in Nat /\ Len(handed) <= Len(typed)
  BY DEF Inv, TypeOK, HandedInOrder
<1>4. Head(chan) # Quit => Len(handed) + 1 <= Len(typed)
  BY <1>2 DEF Sent
<1>5. ASSUME Len(handed) + 1 <= Len(typed) PROVE Head(chan) # Quit
  <2>1. typed[Len(handed) + 1] \in Texts
    BY <1>3, <1>5 DEF Inv, TypeOK
  <2>2. Head(chan) = Encode(typed[Len(handed) + 1])
    BY <1>2, <1>5 DEF Sent
  <2> QED
    BY <2>1, <2>2, EncodeIsNotQuit
<1>6. Head(chan) = Quit => Len(handed) = Len(typed)
  BY <1>3, <1>5
<1> QED
  BY <1>1, <1>2, <1>4, <1>6

\* Nothing was sent, handed over or typed at the start.
LEMMA InvInit == Init /\ TypeOK => Inv
  BY DEF Init, Inv, HandedInOrder, QuitFlushes, ChanHolds, Conserved, Balanced

\* A line lengthens the channel and the typed lines alike, so earlier positions
\* keep their meaning.
LEMMA LineStep ==
    ASSUME Inv, TypeOK', NEW t \in Texts, Line(t)
    PROVE  Inv'
<1> USE DEF Inv, TypeOK
<1>1. CASE ~ReceiverAlive
  BY <1>1 DEF Line, ReceiverAlive, HandedInOrder, QuitFlushes, ChanHolds, Conserved,
     Listening, Sent
<1>2. CASE ReceiverAlive
  <2>1. /\ sPc = "reading" /\ sPc' = "reading"
        /\ chan' = Append(chan, Encode(t))
        /\ typed' = Append(typed, t)
        /\ UNCHANGED <<mPc, handed, failed>>
    BY <1>2 DEF Line
  <2>2. /\ Len(chan) \in Nat /\ Len(typed) \in Nat /\ Len(handed) \in Nat
        /\ Len(chan') = Len(chan) + 1 /\ Len(typed') = Len(typed) + 1
    BY <2>1
  <2>3. /\ \A k \in 1..Len(typed) : typed'[k] = typed[k]
        /\ typed'[Len(typed) + 1] = t
        /\ \A k \in 1..Len(chan) : chan'[k] = chan[k]
        /\ chan'[Len(chan) + 1] = Encode(t)
    BY <2>1, <2>2
  <2>4. HandedInOrder'
    BY <2>1, <2>2, <2>3 DEF HandedInOrder
  <2>5. QuitFlushes'
    BY <2>1 DEF QuitFlushes
  <2>6. Listening /\ Balanced
    BY <1>2, <2>1 DEF Conserved, QuitFlushes, ReceiverAlive, Listening
  <2>10. Len(handed) + Len(chan) = Len(typed)
    BY <2>1, <2>6 DEF Balanced
  <2>7. Balanced'
    BY <2>1, <2>2, <2>10 DEF Balanced
  <2>8. Conserved'
    BY <2>1, <2>7 DEF Conserved
  <2>9. ChanHolds'
    <3> SUFFICES ASSUME NEW k \in 1..Len(chan') PROVE chan'[k] = Sent(Len(handed) + k)'
      BY <2>1 DEF ChanHolds
    <3>1. CASE k <= Len(chan)
      <4>1. chan'[k] = Sent(Len(handed) + k)
        BY <2>2, <2>3, <3>1 DEF ChanHolds
      <4>2. Len(handed) + k <= Len(typed)
        BY <2>2, <2>10, <3>1
      <4> QED
        BY <2>1, <2>2, <2>3, <4>1, <4>2 DEF Sent
    <3>2. CASE k = Len(chan) + 1
      <4>1. Len(handed) + k = Len(typed) + 1
        <5> HIDE DEF Inv, TypeOK
        <5>1. Len(handed) + (Len(chan) + 1) = Len(typed) + 1
          BY <2>2, <2>10
        <5> QED
          BY <3>2, <5>1
      <4> QED
        BY <2>1, <2>2, <2>3, <3>2, <4>1 DEF Sent
    <3> QED
      BY <2>2, <3>1, <3>2
  <2> QED
    BY <2>4, <2>5, <2>8, <2>9
<1> QED
  BY <1>1, <1>2

\* The mark is the message after the last line.
LEMMA StopStep ==
    ASSUME Inv, TypeOK', Stop
    PROVE  Inv'
<1> USE DEF Inv, TypeOK
<1>1. CASE ~ReceiverAlive
  BY <1>1 DEF Stop, ReceiverAlive, HandedInOrder, QuitFlushes, ChanHolds, Conserved,
     Listening, Sent
<1>2. CASE ReceiverAlive
  <2>1. /\ sPc = "reading" /\ sPc' = "exited"
        /\ chan' = Append(chan, Quit)
        /\ UNCHANGED <<mPc, typed, handed, failed>>
    BY <1>2 DEF Stop
  <2>2. /\ Len(chan) \in Nat /\ Len(typed) \in Nat /\ Len(handed) \in Nat
        /\ Len(chan') = Len(chan) + 1
        /\ \A k \in 1..Len(chan) : chan'[k] = chan[k]
        /\ chan'[Len(chan) + 1] = Quit
    BY <2>1
  <2>6. Listening
    BY <1>2, <2>1 DEF QuitFlushes, ReceiverAlive, Listening
  <2>3. Len(handed) + Len(chan) = Len(typed)
    BY <2>1, <2>6 DEF Conserved, Balanced
  <2>8. HandedInOrder'
    BY <2>1 DEF HandedInOrder
  <2>9. Len(handed) + Len(chan') = Len(typed) + 1
    <3> HIDE DEF Inv, TypeOK
    <3>1. Len(handed) + (Len(chan) + 1) = Len(typed) + 1
      BY <2>2, <2>3
    <3> QED
      BY <2>2, <3>1
  <2>7. Balanced'
    BY <2>1, <2>9 DEF Balanced
  <2>4. QuitFlushes' /\ Conserved'
    BY <2>1, <2>6, <2>7 DEF QuitFlushes, Conserved, Listening
  <2>5. ChanHolds'
    <3> SUFFICES ASSUME NEW k \in 1..Len(chan') PROVE chan'[k] = Sent(Len(handed) + k)
      BY <2>1 DEF ChanHolds, Sent
    <3>1. CASE k <= Len(chan)
      BY <2>2, <3>1 DEF ChanHolds
    <3>2. CASE k = Len(chan) + 1
      BY <2>2, <2>3, <3>2 DEF Sent
    <3> QED
      BY <2>2, <3>1, <3>2
  <2> QED
    BY <2>4, <2>5, <2>8
<1> QED
  BY <1>1, <1>2

\* The loop takes the first message: a line is handed over, and everything
\* behind it moves up by one.
LEMMA TryRecvStep ==
    ASSUME Inv, TypeOK', TryRecv
    PROVE  Inv'
<1> USE DEF Inv, TypeOK
<1>1. mPc = "recv" /\ mPc' = "read" /\ UNCHANGED <<sPc, typed, failed>> /\ ~StopRequested
  BY DEF TryRecv
<1>2. CASE chan = << >>
  <2>1. UNCHANGED <<chan, handed>>
    BY <1>2 DEF TryRecv
  <2> QED
    BY <1>1, <2>1 DEF HandedInOrder, QuitFlushes, ChanHolds, Conserved, Listening, Balanced, Sent
<1>3. CASE chan # << >>
  <2>1. chan' = Tail(chan) /\ handed' = Append(handed, Head(chan))
    BY <1>3 DEF TryRecv
  <2>2. Head(chan) # Quit
    BY <1>1, <1>3 DEF StopRequested
  <2>3. /\ Len(chan) >= 1 /\ Head(chan) = Sent(Len(handed) + 1)
        /\ Len(handed) + 1 <= Len(typed)
    BY <1>3, <2>2, HeadOfChan
  <2>4. /\ Len(chan) \in Nat /\ Len(typed) \in Nat /\ Len(handed) \in Nat
        /\ Len(chan') = Len(chan) - 1 /\ Len(handed') = Len(handed) + 1
        /\ \A k \in 1..Len(chan') : chan'[k] = chan[k + 1]
        /\ \A k \in 1..Len(handed) : handed'[k] = handed[k]
        /\ handed'[Len(handed) + 1] = Head(chan)
    BY <2>1, <2>3
  <2>5. Head(chan) = Encode(typed[Len(handed) + 1])
    BY <2>3 DEF Sent
  <2>6. HandedInOrder'
    <3>1. Len(handed') <= Len(typed')
      BY <1>1, <2>3, <2>4
    <3>2. \A k \in 1..Len(handed') : k = Len(handed) + 1 \/ k \in 1..Len(handed)
      BY <2>4
    <3>3. \A k \in 1..Len(handed') : handed'[k] = Encode(typed[k])
      BY <2>4, <2>5, <3>2 DEF HandedInOrder
    <3> QED
      BY <1>1, <3>1, <3>3 DEF HandedInOrder
  <2>10. Balanced
    BY <1>1 DEF Conserved, Listening
  <2>11. Len(handed') + Len(chan') = Len(handed) + Len(chan)
    BY <2>4
  <2>9. Balanced'
    BY <1>1, <2>10, <2>11 DEF Balanced
  <2>7. QuitFlushes' /\ Conserved'
    BY <1>1, <2>9 DEF QuitFlushes, Conserved
  <2>8. ChanHolds'
    <3> SUFFICES ASSUME NEW k \in 1..Len(chan') PROVE chan'[k] = Sent(Len(handed') + k)
      BY <1>1 DEF ChanHolds, Sent
    <3>1. k \in Nat /\ k + 1 \in 1..Len(chan) /\ chan'[k] = chan[k + 1]
      <4> HIDE DEF Inv, TypeOK
      <4>1. \A n \in Nat : \A j \in 1..(n - 1) : j \in Nat /\ j + 1 \in 1..n
        OBVIOUS
      <4> QED
        BY <2>4, <4>1
    <3>2. chan[k + 1] = Sent(Len(handed) + (k + 1))
      BY <3>1 DEF ChanHolds
    <3>3. Len(handed) + (k + 1) = Len(handed') + k
      BY <2>4, <3>1
    <3> QED
      BY <3>1, <3>2, <3>3
  <2> QED
    BY <2>6, <2>7, <2>8
<1> QED
  BY <1>2, <1>3

\* The loop ends on the mark, which is behind the last line.  The other reason
\* the code allows for, a channel without a sender, never arises.
LEMMA LeaveLoopStep ==
    ASSUME Inv, TypeOK', LeaveLoop
    PROVE  Inv'
<1> USE DEF Inv, TypeOK
<1>1. /\ mPc = "recv" /\ mPc' = "join" /\ StopRequested
      /\ UNCHANGED <<sPc, typed, handed, failed>>
  BY DEF LeaveLoop
<1>2. Len(chan) \in Nat /\ Len(typed) \in Nat /\ Len(handed) \in Nat
  OBVIOUS
<1>3. chan # << >>
  <2> SUFFICES ASSUME chan = << >> PROVE FALSE
    OBVIOUS
  <2>1. sPc = "exited" /\ Len(chan) = 0
    BY <1>1 DEF StopRequested
  <2> QED
    BY <1>1, <1>2, <2>1 DEF Conserved, Listening, Balanced, HandedInOrder
<1>4. Head(chan) = Quit
  BY <1>1, <1>3 DEF StopRequested
<1>5. Len(handed) = Len(typed) /\ Len(chan) >= 1
  BY <1>3, <1>4, HeadOfChan
<1>6. Balanced /\ ~failed
  BY <1>1 DEF Conserved, Listening
<1>7. sPc = "exited" /\ Len(chan) = 1
  <2>1. sPc = "exited"
    <3> SUFFICES ASSUME sPc = "reading" PROVE FALSE
      OBVIOUS
    <3>1. Len(handed) + Len(chan) = Len(typed)
      BY <1>6 DEF Balanced
    <3> QED
      BY <1>2, <1>5, <3>1
  <2>2. Len(handed) + Len(chan) = Len(typed) + 1
    BY <1>6, <2>1 DEF Balanced
  <2>3. Len(chan) = 1
    <3>1. \A a, b, c \in Nat : a + b = c + 1 /\ a = c => b = 1
      OBVIOUS
    <3> HIDE DEF Inv, TypeOK
    <3> QED
      BY <1>2, <1>5, <2>2, <3>1
  <2> QED
    BY <2>1, <2>3
<1>8. chan' = Tail(chan)
  BY <1>3 DEF LeaveLoop
<1>9. ChanHolds'
  <2>1. Len(chan') = 0
    BY <1>3, <1>7, <1>8
  <2> QED
    BY <2>1 DEF ChanHolds
<1>10. HandedInOrder' /\ QuitFlushes' /\ Conserved'
  BY <1>1, <1>5, <1>6, <1>7 DEF HandedInOrder, QuitFlushes, Conserved, Listening
<1> QED
  BY <1>9, <1>10

\* Every other step leaves the lines and the channel alone.
LEMMA InvStep ==
    ASSUME Inv, TypeOK', [Next]_vars
    PROVE  Inv'
<1>1. ASSUME UNCHANGED <<chan, typed, handed>>,
             UNCHANGED <<sPc, mPc, failed>> \/ ReadEvent \/ ReadNothing \/ ReadFails \/ Panic \/ Join
      PROVE  Inv'
  <2>1. UNCHANGED sPc
    BY <1>1 DEF ReadEvent, ReadNothing, ReadFails, Panic, Join
  <2>2. HandedInOrder' /\ ChanHolds'
    BY <1>1 DEF Inv, HandedInOrder, ChanHolds, Sent
  <2>3. Balanced' = Balanced
    BY <1>1, <2>1 DEF Balanced
  <2>4. QuitFlushes' /\ Conserved'
    BY <1>1, <2>1, <2>3 DEF Inv, TypeOK, QuitFlushes, Conserved, Listening, ReadEvent, ReadNothing,
       ReadFails, Panic, Join
  <2> QED
    BY <1>1, <2>2, <2>4 DEF Inv
<1>2. ASSUME NEW t \in Texts, Line(t) PROVE Inv'
  BY <1>2, LineStep
<1>3. CASE Stop
  BY <1>3, StopStep
<1>4. CASE TryRecv
  BY <1>4, TryRecvStep
<1>5. CASE LeaveLoop
  BY <1>5, LeaveLoopStep
<1>6. CASE ReadEvent \/ ReadNothing \/ ReadFails \/ Panic \/ Join
  BY <1>1, <1>6 DEF ReadEvent, ReadNothing, ReadFails, Panic, Join
<1>7. ASSUME NEW e \in Events, PeerSends(e) PROVE Inv'
  BY <1>1, <1>7 DEF PeerSends
<1>8. CASE PeerAcknowledges \/ PeerCloses \/ UNCHANGED vars
  BY <1>1, <1>8 DEF PeerAcknowledges, PeerCloses, vars
<1> QED
  BY <1>2, <1>3, <1>4, <1>5, <1>6, <1>7, <1>8 DEF Next, Loop

\* Lines are handed over in the order they were typed.
THEOREM LinesInOrder == Spec => []HandedInOrder
<1>1. Inv /\ TypeOK' /\ [Next]_vars => Inv'
  BY InvStep
<1>2. Inv => HandedInOrder
  BY DEF Inv
<1> QED
  BY <1>1, <1>2, InvInit, TypeCorrect, PTL DEF Spec

\* A session that ends without an error was asked to, and lost no line.
THEOREM NothingLeftBehind == Spec => []QuitFlushes
<1>1. Inv /\ TypeOK' /\ [Next]_vars => Inv'
  BY InvStep
<1>2. Inv => QuitFlushes
  BY DEF Inv
<1> QED
  BY <1>1, <1>2, InvInit, TypeCorrect, PTL DEF Spec
=============================================================================
