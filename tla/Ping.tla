-------------------------------- MODULE Ping --------------------------------
(***************************************************************************)
(* rcurl ping host (ping/handler.rs): resolve the host, send a fixed       *)
(* number of probes one after the other, print the statistics.  A probe    *)
(* comes back after some milliseconds or fails; the ping crate gives up on *)
(* it by itself.                                                           *)
(***************************************************************************)
EXTENDS Integers, Sequences, SequencesExt, FiniteSetsExt, Lists, Task

CONSTANTS
    Probes, \* count
    Rtts    \* round trip times, in whole milliseconds

\* count is 4.  Of more than a hundred probes one could be lost at 0%.
ASSUME PingAssumption ==
    /\ Probes \in 1..100
    /\ Rtts \subseteq Nat

VARIABLES
    transmitted, \* probes sent
    rtts,        \* the times of those that came back
    lost,        \* ghost: probes that failed
    summary      \* the printed statistics, or << >>

pingVars == <<transmitted, rtts, lost, summary>>

PingPlaces == {"resolve", "probe"}

PingInit ==
    /\ transmitted = 0
    /\ rtts = << >>
    /\ lost = 0
    /\ summary = << >>

\* to_socket_addrs: the first address is pinged from then on, or there is none.
Resolve ==
    /\ pc = "resolve"
    /\ Goto("probe") \/ EndWith("failed")
    /\ UNCHANGED pingVars

\* Faulty variant: a probe counts once it has come back.
AnsweredOnly(t) ==
    /\ pc = "probe"
    /\ transmitted < Probes
    /\ transmitted' = transmitted + 1
    /\ rtts' = IF t > 0 THEN Append(rtts, t) ELSE rtts
    /\ UNCHANGED <<lost, summary, pc, result>>

\* send returned after t milliseconds: 0 is the time of a very near host.
Answered(t) ==
    /\ pc = "probe"
    /\ transmitted < Probes
    /\ transmitted' = transmitted + 1
    /\ rtts' = Append(rtts, t)
    /\ UNCHANGED <<lost, summary, pc, result>>

\* Any error of send, shown as "Request timed out."
ProbeLost ==
    /\ pc = "probe"
    /\ transmitted < Probes
    /\ transmitted' = transmitted + 1
    /\ lost' = lost + 1
    /\ UNCHANGED <<rtts, summary, pc, result>>

\* The percentage and the average are rounded down; there is no line of times
\* when nothing came back.
Summarise ==
    /\ pc = "probe"
    /\ transmitted = Probes
    /\ LET received == Len(rtts)
       IN  summary' = << [lost |-> transmitted - received,
                          loss |-> ((transmitted - received) * 100) \div transmitted,
                          times |-> IF received = 0 THEN << >>
                                    ELSE << Min(ToSet(rtts)), Total(rtts) \div received,
                                            Max(ToSet(rtts)) >>] >>
    /\ EndWith("ok")
    /\ UNCHANGED <<transmitted, rtts, lost>>

PingNext ==
    \/ Resolve
    \/ \E t \in Rtts : Answered(t)
    \/ ProbeLost
    \/ Summarise

PingSpec ==
    /\ pc = "resolve" /\ result = "none" /\ PingInit
    /\ [][PingNext]_<<pingVars, pc, result>>

-----------------------------------------------------------------------------
(* Properties *)

PingTypeOK ==
    /\ transmitted \in 0..Probes /\ lost \in 0..Probes
    /\ rtts \in Seq(Rtts)
    /\ summary \in Seq([lost : 0..Probes, loss : 0..100, times : Seq(Nat)])

\* The statistics are those of the probes: what is reported lost failed and
\* nothing else, 0% and 100% are reported only when all and when none came
\* back, and the average lies between the minimum and the maximum, also when
\* every answer took less than a millisecond.
StatisticsSound ==
    summary # << >> =>
      LET s == summary[1]
      IN  /\ s.lost = lost /\ lost + Len(rtts) = Probes
          /\ s.loss = 0 <=> lost = 0
          /\ s.loss = 100 <=> rtts = << >>
          /\ s.times = << >> <=> rtts = << >>
          /\ rtts # << >> => s.times[1] <= s.times[2] /\ s.times[2] <= s.times[3]
=============================================================================
