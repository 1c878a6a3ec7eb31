----------------------------- MODULE QuickProofs -----------------------------
(***************************************************************************)
(* What rcurl promises of its quick commands, for all inputs: whom --kill  *)
(* reaches, what whois prints, what ping reports, what disk lists.         *)
(***************************************************************************)
EXTENDS Port, Ping, Whois, Disk, ListProofs, FiniteSetTheorems, TLAPS

-----------------------------------------------------------------------------
(* port: the socket table *)

\* What a filter returns is made of what it is given.
LEMMA PickedFrom ==
    ASSUME NEW S, NEW s \in Seq(S), NEW I
    PROVE  /\ Picked(s, I) \in Seq(S)
           /\ \A k \in 1..Len(Picked(s, I)) :
                \E i \in 1..Len(s) : i \in I /\ Picked(s, I)[k] = s[i]
<1>1. Picked(s, I) \in Seq(S) /\ \E at : PickedAt(s, I, Picked(s, I), at)
  BY PickedInOrder
<1>2. PICK at : PickedAt(s, I, Picked(s, I), at)
  BY <1>1
<1> QED
  BY <1>1, <1>2 DEF PickedAt, PickedAtUpTo

\* The table stays one of sockets when a process ends, and when one starts.
LEMMA BuriedType ==
    ASSUME NEW p \in Pids, sockets \in Seq(Sockets), living \in SUBSET Pids, Buried(p)
    PROVE  sockets' \in Seq(Sockets) /\ living' \in SUBSET Pids
<1> DEFINE kept == Picked(sockets, {k \in 1..Len(sockets) : sockets[k].pids # << p >>})
           others(s) == Picked(s.pids, {i \in 1..Len(s.pids) : s.pids[i] # p})
           closed == [k \in 1..Len(kept) |-> [kept[k] EXCEPT !.pids = others(kept[k])]]
<1>1. kept \in Seq(Sockets)
  BY PickedFrom
<1>2. ASSUME NEW s \in Sockets PROVE [s EXCEPT !.pids = others(s)] \in Sockets
  <2>1. s.pids \in Seq(Pids)
    BY DEF Sockets
  <2>2. others(s) \in Seq(Pids)
    BY <2>1, PickedFrom
  <2> HIDE DEF others
  <2> QED
    BY <2>2 DEF Sockets
<1>3. sockets' = closed /\ living' = living \ {p}
  BY DEF Buried
<1> HIDE DEF kept, others
<1>4. \A k \in 1..Len(kept) : [kept[k] EXCEPT !.pids = others(kept[k])] \in Sockets
  BY <1>1, <1>2
<1>5. Len(kept) \in Nat
  BY <1>1
<1>6. closed \in Seq(Sockets)
  BY <1>4, <1>5
<1> QED
  BY <1>3, <1>6

\* The first entry of a port is one of its entries.
LEMMA FirstEntryIsOne ==
    ASSUME NEW n, entries \in Seq([port : Nat, pid : Pids \cup {0}]), EntriesOf(n) # {}
    PROVE  \E k \in 1..Len(entries) : entries[k].port = n /\ FirstEntry(n) = entries[k]
<1> DEFINE M == EntriesOf(n)
           first == CHOOSE k \in M : \A i \in M : k <= i
<1>1. M \in SUBSET Nat /\ M # {}
  BY DEF EntriesOf
<1> HIDE DEF M
<1>2. first \in M
  BY <1>1, LeastExists
<1> QED
  BY <1>2 DEF M, EntriesOf, FirstEntry

LEMMA FirstEntryIsOneLater ==
    (entries \in Seq([port : Nat, pid : Pids \cup {0}]) /\ EntriesOf(job.port) # {} =>
       \E k \in 1..Len(entries) : entries[k].port = job.port /\ Target = entries[k].pid)'
<1>1. entries \in Seq([port : Nat, pid : Pids \cup {0}]) /\ EntriesOf(job.port) # {} =>
        \E k \in 1..Len(entries) : entries[k].port = job.port /\ Target = entries[k].pid
  BY FirstEntryIsOne DEF Target
<1> QED
  BY <1>1, PTL

-----------------------------------------------------------------------------
(* port: the inductive invariant *)

\* The first entry of the port, if it has a pid, is that of a process that held
\* the port when it was scanned; since then it may have ended, and others may
\* have been given the pid.
Announced ==
    EntriesOf(job.port) # {} /\ Target # 0 =>
      \E h \in holders : h.pid = Target /\ h.birth <= born[h.pid]

\* A target is looked for and signalled only by --kill and only when there is
\* one, and the command ends with the signal.
Aiming ==
    /\ pc \in {"lookup", "signal"} =>
         job.kind = "kill" /\ EntriesOf(job.port) # {} /\ Target # 0
    /\ pc \notin {"done", "exited"} => victim = {}

PortInv == PortTypeOK /\ Announced /\ Aiming /\ VictimServedPort

\* Steps that leave alone what the invariant is about, but for the place and
\* for what is told.
LEMMA PortQuiet ==
    ASSUME PortInv, UNCHANGED <<job, sockets, born, living, entries, holders, victim>>,
           told' \in Messages, pc \in {"done", "exited"} => pc' \in {pc, "exited"},
           pc' \in {"lookup", "signal"} =>
             job.kind = "kill" /\ EntriesOf(job.port) # {} /\ Target # 0
    PROVE  PortInv'
<1> USE DEF PortInv
<1>1. PortTypeOK'
  BY DEF PortTypeOK
<1>2. Announced'
  <2>1. EntriesOf(job.port)' = EntriesOf(job.port) /\ Target' = Target
    BY DEF EntriesOf, FirstEntry, Target
  <2> QED
    BY <2>1 DEF Announced
<1>3. Aiming'
  BY DEF Aiming, EntriesOf, FirstEntry, Target
<1>4. VictimServedPort'
  BY DEF VictimServedPort
<1> QED
  BY <1>1, <1>2, <1>3, <1>4

LEMMA ScanStep ==
    ASSUME PortInv, Scan
    PROVE  PortInv'
<1> USE DEF PortInv
<1> DEFINE I == {k \in 1..Len(sockets) : Listening(sockets[k])}
           open == Picked(sockets, I)
           scanned == [k \in 1..Len(open) |-> [port |-> open[k].port, pid |-> FirstPid(open[k])]]
           serving == {r \in ToSet(sockets) : Serves(r, job.port)}
           held == UNION {{[pid |-> p, birth |-> born[p]] : p \in ToSet(s.pids)} : s \in serving}
<1>1. /\ pc = "scan" /\ pc' = "found" /\ result' = result
      /\ entries' = scanned /\ holders' = held
      /\ UNCHANGED <<job, sockets, born, living, told, victim>>
  BY DEF Scan, Goto
<1>2. sockets \in Seq(Sockets) /\ born \in [Pids -> 1..MaxBirths] /\ MaxBirths \in Nat
  BY PortAssumption DEF PortTypeOK
<1>3. /\ open \in Seq(Sockets)
      /\ \A k \in 1..Len(open) : \E i \in 1..Len(sockets) : i \in I /\ open[k] = sockets[i]
  <2> HIDE DEF I
  <2> QED
    BY <1>2, PickedFrom
<1>4. \A k \in 1..Len(open) : open[k] \in ToSet(sockets) /\ Listening(open[k])
  <2>1. DOMAIN sockets = 1..Len(sockets) /\ \A i \in I : i \in 1..Len(sockets) /\ Listening(sockets[i])
    BY <1>2
  <2> HIDE DEF I, open
  <2> QED
    BY <1>3, <2>1 DEF ToSet
<1> HIDE DEF I, open
<1>5. Len(open) \in Nat
  BY <1>3
<1>6. ASSUME NEW s \in Sockets
      PROVE  /\ s.port \in Nat
             /\ FirstPid(s) = 0 \/ (FirstPid(s) \in Pids /\ FirstPid(s) \in ToSet(s.pids))
  <2>1. s.pids \in Seq(Pids) /\ s.port \in Nat
    BY DEF Sockets
  <2>2. CASE s.pids = << >>
    BY <2>1, <2>2 DEF FirstPid
  <2>3. CASE s.pids # << >>
    <3>1. Head(s.pids) = s.pids[1] /\ 1 \in DOMAIN s.pids /\ s.pids[1] \in Pids
      BY <2>1, <2>3
    <3> QED
      BY <2>1, <2>3, <3>1 DEF FirstPid, ToSet
  <2> QED
    BY <2>2, <2>3
<1>7. \A k \in 1..Len(open) : open[k] \in Sockets
  BY <1>3
<1>8. scanned \in Seq([port : Nat, pid : Pids \cup {0}])
  <2>1. \A k \in 1..Len(open) :
          [port |-> open[k].port, pid |-> FirstPid(open[k])] \in [port : Nat, pid : Pids \cup {0}]
    BY <1>6, <1>7
  <2> QED
    BY <1>5, <2>1
<1>9. held \subseteq [pid : Pids, birth : 1..MaxBirths]
  <2>1. \A s \in serving : \A p \in ToSet(s.pids) : p \in Pids
    <3>1. \A s \in ToSet(sockets) : s \in Sockets
      BY <1>2 DEF ToSet
    <3>2. \A s \in Sockets : \A p \in ToSet(s.pids) : p \in Pids
      <4> SUFFICES ASSUME NEW s \in Sockets, NEW p \in ToSet(s.pids) PROVE p \in Pids
        OBVIOUS
      <4>1. s.pids \in Seq(Pids)
        BY DEF Sockets
      <4> QED
        BY <4>1 DEF ToSet
    <3> QED
      BY <3>1, <3>2
  <2>2. \A p \in Pids : [pid |-> p, birth |-> born[p]] \in [pid : Pids, birth : 1..MaxBirths]
    BY <1>2
  <2> QED
    BY <2>1, <2>2
<1>10. PortTypeOK'
  BY <1>1, <1>8, <1>9 DEF PortTypeOK
<1>11. Announced'
  <2> SUFFICES ASSUME EntriesOf(job.port)' # {}, Target' # 0
               PROVE  \E h \in holders' : h.pid = Target' /\ h.birth <= born'[h.pid]
    BY <1>1 DEF Announced
  <2>1. PICK k \in 1..Len(entries') : entries'[k].port = job.port /\ Target' = entries'[k].pid
    BY <1>1, <1>8, FirstEntryIsOneLater
  <2>2. k \in 1..Len(open) /\ entries'[k] = [port |-> open[k].port, pid |-> FirstPid(open[k])]
    BY <1>1, <1>5, <2>1
  <2> DEFINE s == open[k]
             p == FirstPid(s)
  <2>3. s \in ToSet(sockets) /\ Listening(s) /\ s.port = job.port /\ p # 0 /\ s \in Sockets
    BY <1>4, <1>7, <2>1, <2>2
  <2>4. p \in Pids /\ p \in ToSet(s.pids)
    BY <1>6, <2>3
  <2>5. Serves(s, job.port)
    <3>1. s.proto \in {"tcp", "udp"}
      BY <2>3 DEF Sockets
    <3> QED
      BY <2>3, <3>1 DEF Serves, Listening
  <2>6. [pid |-> p, birth |-> born[p]] \in held
    BY <2>3, <2>4, <2>5
  <2>7. born[p] <= born[p]
    BY <1>2, <2>4
  <2>8. Target' = p
    BY <2>1, <2>2
  <2> HIDE DEF held, p, s
  <2> QED
    BY <1>1, <2>6, <2>7, <2>8
<1>12. Aiming'
  BY <1>1 DEF Aiming
<1>13. VictimServedPort'
  BY <1>1 DEF VictimServedPort, Aiming
<1> QED
  BY <1>10, <1>11, <1>12, <1>13

\* SIGKILL goes to the pid that was announced, whoever has it now.
LEMMA SignalStep ==
    ASSUME PortInv, Signal
    PROVE  PortInv'
<1> USE DEF PortInv
<1>1. /\ pc = "signal" /\ pc' = "done" /\ Target \in living /\ Buried(Target)
      /\ victim' = victim \cup {[pid |-> Target, birth |-> born[Target]]}
      /\ UNCHANGED <<job, born, entries, holders, told>>
  BY DEF Signal, EndWith
<1>2. job.kind = "kill" /\ EntriesOf(job.port) # {} /\ Target # 0 /\ victim = {}
  BY <1>1 DEF Aiming
<1>3. Target \in Pids /\ born[Target] \in 1..MaxBirths
  BY <1>1 DEF PortTypeOK
<1>4. sockets' \in Seq(Sockets) /\ living' \in SUBSET Pids
  BY <1>1, <1>3, BuriedType DEF PortTypeOK
<1>5. PortTypeOK'
  BY <1>1, <1>2, <1>3, <1>4 DEF PortTypeOK
<1>6. EntriesOf(job.port)' = EntriesOf(job.port) /\ Target' = Target
  BY <1>1 DEF EntriesOf, FirstEntry, Target
<1>7. PICK h \in holders : h.pid = Target /\ h.birth <= born[Target]
  BY <1>2 DEF Announced
<1>8. Announced'
  BY <1>1, <1>6 DEF Announced
<1>9. VictimServedPort'
  BY <1>1, <1>2, <1>7 DEF VictimServedPort
<1>10. Aiming'
  BY <1>1 DEF Aiming
<1> QED
  BY <1>5, <1>8, <1>9, <1>10

\* Processes end, and others begin, perhaps with their pids.
LEMMA MachineStep ==
    ASSUME PortInv, NEW p \in Pids, ProcessEnds(p) \/ ProcessStarts(p)
    PROVE  PortInv'
<1> USE DEF PortInv
<1>1. UNCHANGED <<job, entries, holders, told, victim, pc, result>>
  BY DEF ProcessEnds, ProcessStarts
<1>2. EntriesOf(job.port)' = EntriesOf(job.port) /\ Target' = Target
  BY <1>1 DEF EntriesOf, FirstEntry, Target
<1>3. born \in [Pids -> 1..MaxBirths] /\ sockets \in Seq(Sockets) /\ living \in SUBSET Pids /\ job \in PortJobs
  BY DEF PortTypeOK
<1>4. /\ born' \in [Pids -> 1..MaxBirths] /\ \A q \in Pids : born[q] <= born'[q]
      /\ sockets' \in Seq(Sockets) /\ living' \in SUBSET Pids
  <2>1. CASE ProcessEnds(p)
    BY <1>3, <2>1, BuriedType DEF ProcessEnds
  <2>2. CASE ProcessStarts(p)
    <3>1. /\ born[p] < MaxBirths /\ living' = living \cup {p}
          /\ born' = [born EXCEPT ![p] = @ + 1]
      BY <2>2 DEF ProcessStarts
    <3>2. born' \in [Pids -> 1..MaxBirths] /\ \A q \in Pids : born[q] <= born'[q]
      BY <1>3, <3>1, PortAssumption
    <3> DEFINE s == [proto |-> "tcp", port |-> job.port, remote |-> 0, listen |-> TRUE, pids |-> << p >>]
    <3>3. s \in Sockets
      BY <1>3, PortAssumption DEF Sockets
    <3>4. sockets' = sockets \/ sockets' = Append(sockets, s)
      BY <2>2 DEF ProcessStarts
    <3> HIDE DEF s
    <3>5. sockets' \in Seq(Sockets)
      BY <1>3, <3>3, <3>4
    <3> QED
      BY <1>3, <3>1, <3>2, <3>5
  <2> QED
    BY <2>1, <2>2
<1>5. PortTypeOK'
  BY <1>1, <1>4 DEF PortTypeOK
<1>6. Announced'
  <2> SUFFICES ASSUME EntriesOf(job.port)' # {}, Target' # 0
               PROVE  \E h \in holders' : h.pid = Target' /\ h.birth <= born'[h.pid]
    BY DEF Announced
  <2>1. PICK h \in holders : h.pid = Target /\ h.birth <= born[h.pid]
    BY <1>2 DEF Announced
  <2>2. h.pid \in Pids /\ h.birth \in 1..MaxBirths
    BY DEF PortTypeOK
  <2>3. h.birth <= born'[h.pid]
    <3>1. born[h.pid] \in 1..MaxBirths /\ born'[h.pid] \in 1..MaxBirths
      BY <1>3, <1>4, <2>2
    <3>2. born[h.pid] <= born'[h.pid]
      BY <1>4, <2>2
    <3> QED
      BY <2>1, <2>2, <3>1, <3>2, PortAssumption
  <2> QED
    BY <1>1, <1>2, <2>1, <2>3
<1>7. Aiming' /\ VictimServedPort'
  BY <1>1, <1>2 DEF Aiming, VictimServedPort
<1> QED
  BY <1>5, <1>6, <1>7

LEMMA PortInvStep ==
    ASSUME PortInv, [PortNext]_<<portVars, pc, result>>
    PROVE  PortInv'
<1> USE DEF portVars, Goto, EndWith
<1>1. CASE Scan
  BY <1>1, ScanStep
<1>2. CASE ScanFails \/ ShowAll \/ NothingKnown \/ Describe
  <2>1. /\ UNCHANGED <<job, sockets, born, living, entries, holders, victim>>
        /\ pc \in {"scan", "found", "describe"} /\ pc' = "done"
    BY <1>2 DEF ScanFails, ShowAll, NothingKnown, Describe
  <2>2. told' \in Messages
    BY <1>2 DEF ScanFails, ShowAll, NothingKnown, Describe, Messages, PortInv, PortTypeOK
  <2> QED
    BY <2>1, <2>2, PortQuiet
<1>3. CASE PidKnown
  <2>1. /\ UNCHANGED <<job, sockets, born, living, entries, holders, victim>>
        /\ pc = "found" /\ pc' \in {"lookup", "describe"} /\ (pc' = "lookup" => job.kind = "kill")
        /\ EntriesOf(job.port) # {} /\ Target > 0 /\ told' = "in use"
    BY <1>3 DEF PidKnown, Target
  <2>2. Target # 0
    <3>1. ~(0 > 0)
      OBVIOUS
    <3> QED
      BY <2>1, <3>1
  <2> QED
    BY <2>1, <2>2, PortQuiet DEF Messages
<1>4. CASE LookUp
  <2>1. /\ UNCHANGED <<job, sockets, born, living, entries, holders, told, victim>>
        /\ pc = "lookup" /\ pc' \in {"signal", "done"}
    BY <1>4 DEF LookUp
  <2>2. told' \in Messages /\ job.kind = "kill" /\ EntriesOf(job.port) # {} /\ Target # 0
    BY <2>1 DEF PortInv, PortTypeOK, Aiming
  <2> QED
    BY <2>1, <2>2, PortQuiet
<1>5. CASE Signal
  BY <1>5, SignalStep
<1>6. CASE SignalFails
  <2>1. /\ UNCHANGED <<job, sockets, born, living, entries, holders, told, victim>>
        /\ pc = "signal" /\ pc' = "done"
    BY <1>6 DEF SignalFails
  <2>2. told' \in Messages
    BY <2>1 DEF PortInv, PortTypeOK
  <2> QED
    BY <2>1, <2>2, PortQuiet
<1>7. ASSUME NEW p \in Pids, ProcessEnds(p) \/ ProcessStarts(p) PROVE PortInv'
  BY <1>7, MachineStep
<1>8. CASE UNCHANGED <<portVars, pc, result>>
  <2>1. EntriesOf(job.port)' = EntriesOf(job.port) /\ Target' = Target
    BY <1>8 DEF EntriesOf, FirstEntry, Target
  <2> QED
    BY <1>8, <2>1 DEF PortInv, PortTypeOK, Announced, Aiming, VictimServedPort
<1> QED
  BY <1>1, <1>2, <1>3, <1>4, <1>5, <1>6, <1>7, <1>8 DEF PortNext

\* What PortInit leaves for get_listening_ports to begin with.
LEMMA PortInvInit ==
    ASSUME NEW jobs, NEW tables, jobs \subseteq PortJobs, tables \subseteq Tables,
           PortInit(jobs, tables), pc \notin {"lookup", "signal"}
    PROVE  PortInv
<1>1. PortTypeOK
  BY PortAssumption DEF PortInit, PortTypeOK, Messages
<1>2. EntriesOf(job.port) = {}
  BY DEF PortInit, EntriesOf
<1> QED
  BY <1>1, <1>2 DEF PortInv, PortInit, Announced, Aiming, VictimServedPort

\* port --kill signals one process at most, and one that served the port, or
\* was given the pid of one that did: for any socket tables, pids and processes
\* that come and go.
THEOREM VictimAlwaysServed == PortSpec => [](PortTypeOK /\ VictimServedPort)
<1>1. pc = "scan" /\ result = "none" /\ PortInit(PortJobs, Tables) => PortInv
  BY PortInvInit
<1>2. PortInv => PortTypeOK /\ VictimServedPort
  BY DEF PortInv
<1> QED
  BY <1>1, <1>2, PortInvStep, PTL DEF PortSpec

-----------------------------------------------------------------------------
(* ping *)

\* Every probe came back or was lost; nothing is printed before the end.
Counted ==
    /\ lost + Len(rtts) = transmitted
    /\ pc \notin {"done", "exited"} => summary = << >>

PingInv == PingTypeOK /\ Counted /\ StatisticsSound

\* A percentage rounded down is 0 and 100 only where it should be, as long as
\* one in n is a percent at least.
LEMMA Percentage ==
    ASSUME NEW n \in 1..100, NEW l \in 0..n
    PROVE  /\ (l * 100) \div n \in 0..100
           /\ (l * 100) \div n = 0 <=> l = 0
           /\ (l * 100) \div n = 100 <=> l = n
<1> DEFINE q == (l * 100) \div n
           r == (l * 100) % n
<1>1. n \in Nat /\ n > 0 /\ l * 100 \in Nat
  OBVIOUS
<1>2. q \in Int /\ r \in 0..(n-1) /\ l * 100 = n * q + r
  BY <1>1
<1> HIDE DEF q, r
<1>3. q >= 0
  <2> SUFFICES ASSUME q <= -1 PROVE FALSE
    BY <1>2
  <2>1. n * q <= n * (-1)
    BY <1>1, <1>2
  <2> QED
    BY <1>1, <1>2, <2>1
<1>4. q <= 100
  <2> SUFFICES ASSUME q >= 101 PROVE FALSE
    BY <1>2
  <2>1. n * q >= n * 101
    BY <1>1, <1>2
  <2> QED
    BY <1>1, <1>2, <2>1
<1>5. q = 0 <=> l = 0
  <2>1. ASSUME q = 0 PROVE l = 0
    BY <1>2, <2>1
  <2>2. ASSUME l = 0, q >= 1 PROVE FALSE
    <3>1. n * q >= n
      BY <1>1, <1>2, <2>2
    <3> QED
      BY <1>1, <1>2, <2>2, <3>1
  <2> QED
    BY <1>2, <1>3, <2>1, <2>2
<1>6. q = 100 <=> l = n
  <2>1. ASSUME q = 100 PROVE l = n
    BY <1>1, <1>2, <2>1
  <2>2. ASSUME l = n, q <= 99 PROVE FALSE
    <3>1. n * q <= n * 99
      BY <1>1, <1>2, <2>2
    <3> QED
      BY <1>1, <1>2, <2>2, <3>1
  <2> QED
    BY <1>2, <1>4, <2>1, <2>2
<1> QED
  BY <1>2, <1>3, <1>4, <1>5, <1>6 DEF q

\* An average rounded down lies between any bounds of the numbers.
LEMMA AverageBetween ==
    ASSUME NEW t \in Nat, NEW n \in Nat \ {0}, NEW lo \in Nat, NEW hi \in Nat,
           lo * n <= t, t <= hi * n
    PROVE  t \div n \in Nat /\ lo <= t \div n /\ t \div n <= hi
<1> DEFINE q == t \div n
           r == t % n
<1>1. q \in Int /\ r \in 0..(n-1) /\ t = n * q + r
  OBVIOUS
<1> HIDE DEF q, r
<1>2. lo <= q
  <2> SUFFICES ASSUME q <= lo - 1 PROVE FALSE
    BY <1>1
  <2>1. n * q <= n * (lo - 1)
    BY <1>1
  <2>2. n * (lo - 1) = lo * n - n
    OBVIOUS
  <2> QED
    BY <1>1, <2>1, <2>2
<1>3. q <= hi
  <2> SUFFICES ASSUME q >= hi + 1 PROVE FALSE
    BY <1>1
  <2>1. n * q >= n * (hi + 1)
    BY <1>1
  <2>2. n * (hi + 1) = hi * n + n
    OBVIOUS
  <2> QED
    BY <1>1, <2>1, <2>2
<1> QED
  BY <1>1, <1>2, <1>3 DEF q

\* The line of times is in order.
LEMMA TimesInOrder ==
    ASSUME NEW s \in Seq(Rtts), s # << >>
    PROVE  LET lo == Min(ToSet(s))
               mid == Total(s) \div Len(s)
               hi == Max(ToSet(s))
           IN  lo \in Nat /\ mid \in Nat /\ hi \in Nat /\ lo <= mid /\ mid <= hi
<1> DEFINE M == ToSet(s)
           lo == Min(M)
           hi == Max(M)
<1>1. s \in Seq(Nat) /\ Len(s) \in Nat \ {0}
  <2>1. s = [k \in 1..Len(s) |-> s[k]] /\ Len(s) \in Nat \ {0}
    OBVIOUS
  <2>2. \A k \in 1..Len(s) : s[k] \in Nat
    <3>1. \A k \in 1..Len(s) : s[k] \in Rtts
      OBVIOUS
    <3>2. \A t \in Rtts : t \in Nat
      BY PingAssumption
    <3> QED
      BY <3>1, <3>2
  <2>3. [k \in 1..Len(s) |-> s[k]] \in Seq(Nat)
    BY <2>1, <2>2
  <2> QED
    BY <2>1, <2>3
<1>2. M \in SUBSET Nat /\ M # {} /\ \A k \in 1..Len(s) : s[k] \in M
  <2>1. DOMAIN s = 1..Len(s) /\ 1 \in 1..Len(s)
    BY <1>1
  <2> QED
    BY <1>1, <2>1 DEF ToSet
<1> HIDE DEF M
<1>3. lo \in M /\ \A x \in M : lo <= x
  <2>1. \E x \in M : \A y \in M : x <= y
    BY <1>2, LeastExists
  <2> QED
    BY <2>1 DEF Min
<1>4. hi \in M /\ \A x \in M : x <= hi
  <2>1. \A k \in 1..Len(s) : s[k] <= Total(s)
    BY <1>1, ElementBelowTotal
  <2>2. \A x \in M : \E k \in 1..Len(s) : x = s[k]
    BY <1>1 DEF M, ToSet
  <2>3. \A x \in M : x <= Total(s)
    BY <2>1, <2>2
  <2>4. \E x \in M : \A y \in M : y <= x
    BY <1>1, <1>2, <2>3, GreatestExists, TotalType
  <2> QED
    BY <2>4 DEF Max
<1>5. lo \in Nat /\ hi \in Nat
  BY <1>2, <1>3, <1>4
<1>6. \A k \in 1..Len(s) : lo <= s[k] /\ s[k] <= hi
  BY <1>2, <1>3, <1>4
<1> HIDE DEF lo, hi
<1>7. lo * Len(s) <= Total(s) /\ Total(s) <= hi * Len(s) /\ Total(s) \in Nat
  BY <1>1, <1>5, <1>6, TotalBounds, TotalType
<1>8. Total(s) \div Len(s) \in Nat /\ lo <= Total(s) \div Len(s) /\ Total(s) \div Len(s) <= hi
  BY <1>1, <1>5, <1>7, AverageBetween
<1> QED
  BY <1>5, <1>8 DEF lo, hi, M

LEMMA SummariseStep ==
    ASSUME PingInv, Summarise
    PROVE  PingInv'
<1> DEFINE n == Len(rtts)
           l == transmitted - n
           loss == (l * 100) \div transmitted
           times == IF n = 0 THEN << >>
                    ELSE << Min(ToSet(rtts)), Total(rtts) \div n, Max(ToSet(rtts)) >>
           line == [lost |-> l, loss |-> loss, times |-> times]
<1>1. /\ summary' = << line >> /\ transmitted = Probes
      /\ UNCHANGED <<transmitted, rtts, lost>> /\ pc' = "done"
  BY DEF Summarise, EndWith
<1>2. /\ rtts \in Seq(Rtts) /\ n \in Nat /\ transmitted \in 0..Probes /\ lost \in 0..Probes
      /\ lost + n = transmitted /\ (n = 0 <=> rtts = << >>)
  BY DEF PingInv, PingTypeOK, Counted
<1>3. Probes \in 1..100
  BY PingAssumption
<1>4. l = lost /\ l \in 0..transmitted /\ transmitted \in 1..100 /\ (l = transmitted <=> n = 0)
  BY <1>1, <1>2, <1>3
<1>5. loss \in 0..100 /\ (loss = 0 <=> l = 0) /\ (loss = 100 <=> l = transmitted)
  BY <1>4, Percentage
<1>6. /\ times \in Seq(Nat) /\ (times = << >> <=> n = 0)
      /\ n # 0 => times[1] <= times[2] /\ times[2] <= times[3]
  <2>1. CASE n = 0
    BY <2>1
  <2>2. CASE n # 0
    <3> DEFINE lo == Min(ToSet(rtts))
               mid == Total(rtts) \div n
               hi == Max(ToSet(rtts))
    <3>1. lo \in Nat /\ mid \in Nat /\ hi \in Nat /\ lo <= mid /\ mid <= hi
      BY <1>2, <2>2, TimesInOrder
    <3> HIDE DEF lo, mid, hi
    <3>2. << lo, mid, hi >> \in Seq(Nat) /\ << lo, mid, hi >> # << >>
      BY <3>1
    <3>3. times = << lo, mid, hi >>
      BY <2>2 DEF lo, mid, hi
    <3> QED
      BY <2>2, <3>1, <3>2, <3>3
  <2> QED
    BY <2>1, <2>2
<1> HIDE DEF loss, times, l
<1>7. line \in [lost : 0..Probes, loss : 0..100, times : Seq(Nat)]
  BY <1>1, <1>4, <1>5, <1>6
<1> HIDE DEF line
<1>8. << line >> \in Seq([lost : 0..Probes, loss : 0..100, times : Seq(Nat)])
  BY <1>7
<1>9. PingTypeOK' /\ Counted'
  BY <1>1, <1>2, <1>8 DEF PingTypeOK, Counted
<1>10. StatisticsSound'
  <2>1. summary'[1] = line /\ Probes = transmitted
    BY <1>1
  <2>2. line.lost = l /\ line.loss = loss /\ line.times = times
    BY DEF line
  <2>3. rtts' = rtts /\ lost' = lost
    BY <1>1
  <2> QED
    BY <1>2, <1>4, <1>5, <1>6, <2>1, <2>2, <2>3 DEF StatisticsSound
<1> QED
  BY <1>9, <1>10 DEF PingInv

LEMMA PingInvStep ==
    ASSUME PingInv, [PingNext]_<<pingVars, pc, result>>
    PROVE  PingInv'
<1> USE DEF pingVars, Goto, EndWith
<1>1. CASE Resolve
  BY <1>1 DEF Resolve, PingInv, PingTypeOK, Counted, StatisticsSound
<1>2. ASSUME NEW t \in Rtts, Answered(t) PROVE PingInv'
  <2>1. /\ rtts \in Seq(Rtts) /\ rtts' = Append(rtts, t) /\ summary' = summary
        /\ transmitted < Probes /\ transmitted' = transmitted + 1
        /\ pc = "probe" /\ pc' = "probe" /\ lost' = lost
    BY <1>2 DEF Answered, PingInv, PingTypeOK
  <2>2. rtts' \in Seq(Rtts) /\ Len(rtts') = Len(rtts) + 1 /\ Len(rtts) \in Nat
    BY <2>1
  <2>3. summary = << >> /\ lost \in 0..Probes /\ transmitted \in 0..Probes /\ Probes \in Nat
        /\ lost + Len(rtts) = transmitted /\ PingTypeOK
    BY <2>1, PingAssumption DEF PingInv, PingTypeOK, Counted
  <2>4. PingTypeOK' /\ Counted'
    BY <2>1, <2>2, <2>3 DEF PingTypeOK, Counted
  <2> QED
    BY <2>1, <2>3, <2>4 DEF PingInv, StatisticsSound
<1>3. CASE ProbeLost
  <2>1. /\ rtts' = rtts /\ summary' = summary /\ lost' = lost + 1
        /\ transmitted < Probes /\ transmitted' = transmitted + 1
        /\ pc = "probe" /\ pc' = "probe"
    BY <1>3 DEF ProbeLost
  <2>2. summary = << >> /\ lost \in 0..Probes /\ transmitted \in 0..Probes /\ Probes \in Nat
        /\ lost + Len(rtts) = transmitted /\ PingTypeOK /\ rtts \in Seq(Rtts) /\ Len(rtts) \in Nat
    BY <2>1, PingAssumption DEF PingInv, PingTypeOK, Counted
  <2>3. PingTypeOK' /\ Counted'
    BY <2>1, <2>2 DEF PingTypeOK, Counted
  <2> QED
    BY <2>1, <2>2, <2>3 DEF PingInv, StatisticsSound
<1>4. CASE Summarise
  BY <1>4, SummariseStep
<1>5. CASE UNCHANGED <<pingVars, pc, result>>
  BY <1>5 DEF PingInv, PingTypeOK, Counted, StatisticsSound
<1> QED
  BY <1>1, <1>2, <1>3, <1>4, <1>5 DEF PingNext

LEMMA PingInvInit == ASSUME PingInit PROVE PingInv
<1>1. Probes \in 1..100 /\ << >> \in Seq(Rtts)
  BY PingAssumption
<1> QED
  BY <1>1 DEF PingInit, PingInv, PingTypeOK, Counted, StatisticsSound

\* What ping prints is what happened to its probes, and its times are in order:
\* for any number of probes up to a hundred, lost or answered after any time,
\* zero included.
THEOREM StatisticsAlwaysSound == PingSpec => [](PingTypeOK /\ StatisticsSound)
<1>1. pc = "resolve" /\ result = "none" /\ PingInit => PingInv
  BY PingInvInit
<1>2. PingInv => PingTypeOK /\ StatisticsSound
  BY DEF PingInv
<1> QED
  BY <1>1, <1>2, PingInvStep, PTL DEF PingSpec

-----------------------------------------------------------------------------
(* whois: decoding *)

Octets == {"c", "l", "t"}

Glyphs == {"c", "w", "?"}

\* What from_utf8_lossy makes of the byte at position k after the text t.
DecodeNext(bytes, k, t) ==
    IF bytes[k] = "c" THEN Append(t, "c")
    ELSE IF bytes[k] = "t" /\ k > 1 /\ bytes[k-1] = "l" THEN Append(Front(t), "w")
    ELSE Append(t, "?")

DecodedSoFar(bytes, f) ==
    f = [k \in 0..Len(bytes) |-> IF k = 0 THEN << >> ELSE DecodeNext(bytes, k, f[k-1])]

Decoding(bytes, f) ==
    /\ f \in [0..Len(bytes) -> Seq(Glyphs)]
    /\ f[0] = << >>
    /\ \A k \in 1..Len(bytes) : f[k] = DecodeNext(bytes, k, f[k-1])
    /\ Decode(bytes) = f[Len(bytes)]

LEMMA PrefixType ==
    ASSUME NEW S, NEW t \in Seq(S), NEW n \in Nat, n <= Len(t)
    PROVE  SubSeq(t, 1, n) \in Seq(S) /\ Len(SubSeq(t, 1, n)) = n
OBVIOUS

LEMMA FrontType ==
    ASSUME NEW S, NEW t \in Seq(S)
    PROVE  /\ Front(t) \in Seq(S)
           /\ t # << >> => Len(Front(t)) = Len(t) - 1 /\ Len(t) > 0
<1>1. CASE t = << >>
  <2>1. Len(t) = 0 /\ Front(t) = SubSeq(t, 1, -1)
    BY <1>1 DEF Front
  <2>2. SubSeq(t, 1, -1) = << >>
    BY <1>1
  <2> QED
    BY <1>1, <2>1, <2>2
<1>2. CASE t # << >>
  <2>1. Len(t) > 0 /\ Len(t) - 1 \in Nat /\ Len(t) - 1 <= Len(t)
    BY <1>2
  <2> QED
    BY <2>1, PrefixType DEF Front
<1> QED
  BY <1>1, <1>2

\* The last element of a concatenation is that of its second part.
AppendOver(u, v, g) == Append(u \o v, g) = u \o Append(v, g)

LEMMA ConcatAppend ==
    ASSUME NEW S, NEW u \in Seq(S), NEW v \in Seq(S), NEW g \in S
    PROVE  AppendOver(u, v, g)
BY DEF AppendOver

LEMMA ConcatFront ==
    ASSUME NEW S, NEW u \in Seq(S), NEW v \in Seq(S), v # << >>
    PROVE  Front(u \o v) = u \o Front(v)
<1>1. u \o v \in Seq(S) /\ Len(u \o v) = Len(u) + Len(v) /\ Len(u) \in Nat /\ Len(v) \in Nat
  OBVIOUS
<1>2. Front(u \o v) = u \o Front(v)
  <2> DEFINE l == Front(u \o v)
             r == u \o Front(v)
  <2>1. u \o v # << >>
    BY <1>1
  <2>2. /\ l \in Seq(S) /\ Len(l) = (Len(u) + Len(v)) - 1
        /\ Front(v) \in Seq(S) /\ Len(Front(v)) = Len(v) - 1 /\ Len(v) > 0
    BY <1>1, <2>1, FrontType
  <2>3. r \in Seq(S) /\ Len(r) = Len(l)
    <3>1. r \in Seq(S) /\ Len(r) = Len(u) + Len(Front(v))
      BY <2>2, ConcatProperties
    <3> HIDE DEF l, r
    <3> QED
      BY <1>1, <2>2, <3>1
  <2>4. \A i \in 1..Len(l) : l[i] = r[i]
    <3> SUFFICES ASSUME NEW i \in 1..Len(l) PROVE l[i] = r[i]
      OBVIOUS
    <3>1. l[i] = (u \o v)[i]
      BY <1>1, <2>2 DEF Front
    <3>2. CASE i <= Len(u)
      BY <1>1, <2>2, <3>1, <3>2
    <3>3. CASE ~(i <= Len(u))
      <4>1. i - Len(u) \in 1..Len(Front(v))
        BY <1>1, <2>2, <3>3
      <4>2. r[i] = Front(v)[i - Len(u)] /\ (u \o v)[i] = v[i - Len(u)]
        BY <1>1, <2>2, <3>3
      <4>3. Front(v)[i - Len(u)] = v[i - Len(u)]
        BY <1>1, <2>2, <4>1 DEF Front
      <4> QED
        BY <3>1, <4>2, <4>3
    <3> QED
      BY <3>2, <3>3
  <2> HIDE DEF l, r
  <2>5. l = r
    BY <2>2, <2>3, <2>4, SeqEqual
  <2> QED
    BY <2>5 DEF l, r
<1> QED
  BY <1>2

LEMMA DecodeNextType ==
    ASSUME NEW bytes \in Seq(Octets), NEW k \in 1..Len(bytes), NEW t \in Seq(Glyphs)
    PROVE  DecodeNext(bytes, k, t) \in Seq(Glyphs) /\ Len(DecodeNext(bytes, k, t)) > 0
<1>1. Front(t) \in Seq(Glyphs)
  BY FrontType
<1>2. \A u \in Seq(Glyphs) : \A g \in Glyphs : Append(u, g) \in Seq(Glyphs) /\ Len(Append(u, g)) > 0
  OBVIOUS
<1>3. "c" \in Glyphs /\ "w" \in Glyphs /\ "?" \in Glyphs
  BY DEF Glyphs
<1> QED
  BY <1>1, <1>2, <1>3 DEF DecodeNext

LEMMA DecodeExists ==
    ASSUME NEW bytes \in Seq(Octets)
    PROVE  \E f : Decoding(bytes, f)
<1> DEFINE N == Len(bytes)
           step == [p \in (1..N) \X Seq(Glyphs) |-> DecodeNext(bytes, p[1], p[2])]
<1>1. N \in Nat /\ << >> \in Seq(Glyphs)
  OBVIOUS
<1>2. step \in [(1..N) \X Seq(Glyphs) -> Seq(Glyphs)]
  BY DecodeNextType
<1>3. \A i \in 1..N : \A t \in Seq(Glyphs) : step[<< i, t >>] = DecodeNext(bytes, i, t)
  OBVIOUS
<1> HIDE DEF step
<1>4. PICK g : Recursion(g, N, Seq(Glyphs), << >>, step)
  BY <1>1, <1>2, RecursionExists
<1>5. /\ g \in [0..N -> Seq(Glyphs)] /\ g[0] = << >>
      /\ \A i \in 1..N : g[i] = step[<< i, g[i-1] >>]
  BY <1>4 DEF Recursion
<1>6. \A k \in 1..N : g[k] = DecodeNext(bytes, k, g[k-1])
  <2>1. \A k \in 1..N : k - 1 \in 0..N
    BY <1>1
  <2> QED
    BY <1>3, <1>5, <2>1
<1>7. DecodedSoFar(bytes, g)
  <2> DEFINE h == [k \in 0..N |-> IF k = 0 THEN << >> ELSE DecodeNext(bytes, k, g[k-1])]
  <2>1. \A k \in 0..N : k # 0 => k \in 1..N
    BY <1>1
  <2>2. \A k \in 0..N : g[k] = h[k]
    BY <1>5, <1>6, <2>1
  <2>3. DOMAIN h = 0..N /\ h = [k \in 0..N |-> h[k]] /\ g = [k \in 0..N |-> g[k]]
    BY <1>5
  <2> HIDE DEF h
  <2>4. g = h
    BY <2>2, <2>3
  <2> QED
    BY <2>4 DEF h, DecodedSoFar
<1> DEFINE f == CHOOSE h : DecodedSoFar(bytes, h)
<1>8. DecodedSoFar(bytes, f)
  BY <1>7
<1>9. Decode(bytes) = f[Len(bytes)]
  BY DEF Decode, DecodedSoFar, DecodeNext
<1> HIDE DEF f
<1>10. /\ f[0] = << >> /\ \A k \in 1..N : f[k] = DecodeNext(bytes, k, f[k-1])
       /\ f = [k \in 0..N |-> f[k]]
  <2> DEFINE h == [k \in 0..N |-> IF k = 0 THEN << >> ELSE DecodeNext(bytes, k, f[k-1])]
  <2>1. f = h
    BY <1>8 DEF DecodedSoFar
  <2>2. 0 \in 0..N /\ \A k \in 1..N : k \in 0..N /\ k # 0
    BY <1>1
  <2>3. h[0] = << >>
    BY <2>2
  <2>4. \A k \in 1..N : h[k] = DecodeNext(bytes, k, f[k-1])
    BY <2>2
  <2>5. h = [k \in 0..N |-> h[k]]
    OBVIOUS
  <2> HIDE DEF h
  <2> QED
    BY <2>1, <2>3, <2>4, <2>5
<1> DEFINE T == {n \in Nat : n <= N => f[n] \in Seq(Glyphs)}
<1>11. 0 \in T
  BY <1>1, <1>10
<1>12. ASSUME NEW n \in Nat, n \in T PROVE n + 1 \in T
  <2> SUFFICES ASSUME n + 1 <= N PROVE f[n + 1] \in Seq(Glyphs)
    OBVIOUS
  <2>1. f[n] \in Seq(Glyphs) /\ n + 1 \in 1..N /\ (n + 1) - 1 = n
    BY <1>1, <1>12
  <2>2. f[n + 1] = DecodeNext(bytes, n + 1, f[n])
    BY <1>10, <2>1
  <2> QED
    BY <2>1, <2>2, DecodeNextType
<1> HIDE DEF T
<1>13. Nat \subseteq T
  BY <1>11, <1>12, InductionOnSet
<1>14. \A k \in 0..N : f[k] \in Seq(Glyphs)
  BY <1>1, <1>13 DEF T
<1>15. f \in [0..N -> Seq(Glyphs)]
  BY <1>10, <1>14
<1> QED
  BY <1>9, <1>10, <1>15 DEF Decoding

LEMMA DecodeShape ==
    ASSUME NEW bytes \in Seq(Octets)
    PROVE  Decode(bytes) \in Seq(Glyphs) /\ (bytes # << >> => Len(Decode(bytes)) > 0)
<1>1. PICK f : Decoding(bytes, f)
  BY DecodeExists
<1>2. Decode(bytes) \in Seq(Glyphs)
  BY <1>1 DEF Decoding
<1>3. CASE bytes # << >>
  <2>1. Len(bytes) \in 1..Len(bytes) /\ Len(bytes) - 1 \in 0..Len(bytes)
    BY <1>3
  <2>2. f[Len(bytes) - 1] \in Seq(Glyphs) /\ Decode(bytes) = DecodeNext(bytes, Len(bytes), f[Len(bytes) - 1])
    BY <1>1, <2>1 DEF Decoding
  <2> QED
    BY <1>2, <2>1, <2>2, DecodeNextType
<1> QED
  BY <1>2, <1>3

\* The text of a beginning does not depend on what follows.
LEMMA DecodeAgrees ==
    ASSUME NEW a \in Seq(Octets), NEW b \in Seq(Octets), NEW f, NEW g, Decoding(a, f), Decoding(b, g),
           NEW n \in Nat, n <= Len(a), n <= Len(b), AgreeUpTo(n, a, b)
    PROVE  f[n] = g[n]
<1> DEFINE T == {k \in Nat : k <= n => f[k] = g[k]}
<1>1. 0 \in T
  BY DEF Decoding
<1>2. ASSUME NEW k \in Nat, k \in T PROVE k + 1 \in T
  <2> SUFFICES ASSUME k + 1 <= n PROVE f[k+1] = g[k+1]
    OBVIOUS
  <2>1. /\ k + 1 \in 1..Len(a) /\ k + 1 \in 1..Len(b) /\ k + 1 \in 1..n /\ (k + 1) - 1 = k
        /\ f[k] = g[k] /\ (k + 1 > 1 => k \in 1..n)
    BY <1>2
  <2>2. f[k+1] = DecodeNext(a, k + 1, f[k]) /\ g[k+1] = DecodeNext(b, k + 1, g[k])
    BY <2>1 DEF Decoding
  <2>3. a[k+1] = b[k+1] /\ (k + 1 > 1 => a[k] = b[k])
    BY <2>1 DEF AgreeUpTo
  <2>4. DecodeNext(a, k + 1, f[k]) = DecodeNext(b, k + 1, f[k])
    BY <2>1, <2>3 DEF DecodeNext
  <2> QED
    BY <2>1, <2>2, <2>4
<1> HIDE DEF T
<1>3. Nat \subseteq T
  BY <1>1, <1>2, InductionOnSet
<1>4. n \in T /\ n <= n
  BY <1>3
<1> QED
  BY <1>4 DEF T

\* One byte more.
LEMMA DecodeAppend ==
    ASSUME NEW a \in Seq(Octets), NEW x \in Octets
    PROVE  Decode(Append(a, x)) =
             IF x = "c" THEN Append(Decode(a), "c")
             ELSE IF x = "t" /\ a # << >> /\ Last(a) = "l" THEN Append(Front(Decode(a)), "w")
             ELSE Append(Decode(a), "?")
<1> DEFINE b == Append(a, x)
           n == Len(a)
<1>1. /\ b \in Seq(Octets) /\ Len(b) = n + 1 /\ n \in Nat /\ b[n+1] = x
      /\ (n + 1) - 1 = n /\ n + 1 \in 1..Len(b) /\ n <= Len(a) /\ n <= Len(b)
  OBVIOUS
<1>2. \A k \in 1..n : a[k] = b[k]
  OBVIOUS
<1>3. (n + 1 > 1 <=> a # << >>) /\ (n + 1 > 1 => n \in 1..n)
  OBVIOUS
<1> HIDE DEF b
<1>4. PICK f : Decoding(a, f)
  BY DecodeExists
<1>5. PICK g : Decoding(b, g)
  BY <1>1, DecodeExists
<1>6. f[n] = g[n]
  <2>1. AgreeUpTo(n, a, b)
    BY <1>2 DEF AgreeUpTo
  <2> QED
    BY <1>1, <1>4, <1>5, <2>1, DecodeAgrees
<1>7. Decode(b) = DecodeNext(b, n + 1, Decode(a))
  <2>1. g[n + 1] = DecodeNext(b, n + 1, g[n])
    BY <1>1, <1>5 DEF Decoding
  <2>2. Decode(a) = f[n] /\ Decode(b) = g[n + 1]
    BY <1>1, <1>4, <1>5 DEF Decoding
  <2> QED
    BY <1>6, <2>1, <2>2
<1>8. n + 1 > 1 => b[n] = Last(a)
  BY <1>2, <1>3 DEF Last
<1> QED
  BY <1>1, <1>3, <1>7, <1>8 DEF DecodeNext, b

\* The end of a falls between the two bytes of a character.
Splits(a, b) == a # << >> /\ Last(a) = "l" /\ b # << >> /\ b[1] = "t"

\* Two pieces decoded on their own read like the whole, unless they meet inside
\* a character; and they are never shorter.
LEMMA DecodePieces ==
    ASSUME NEW a \in Seq(Octets), NEW b \in Seq(Octets)
    PROVE  /\ ~Splits(a, b) => Decode(a \o b) = Decode(a) \o Decode(b)
           /\ Len(Decode(a \o b)) <= Len(Decode(a)) + Len(Decode(b))
<1> DEFINE part(n) == SubSeq(b, 1, n)
           Same(n) == Decode(a \o part(n)) = Decode(a) \o Decode(part(n))
           Short(n) == Len(Decode(a \o part(n))) <= Len(Decode(a)) + Len(Decode(part(n)))
           T == {n \in Nat : n <= Len(b) => (~Splits(a, b) => Same(n)) /\ Short(n)}
<1>1. \A n \in 0..Len(b) : part(n) \in Seq(Octets) /\ Len(part(n)) = n
  OBVIOUS
<1>2. Decode(a) \in Seq(Glyphs)
  BY DecodeShape
<1>3. 0 \in T
  <2>1. part(0) = << >> /\ a \o << >> = a /\ << >> \in Seq(Octets) /\ Len(<< >>) = 0
    OBVIOUS
  <2>2. Decode(<< >>) = << >>
    BY <2>1, DecodeExists DEF Decoding
  <2>3. Decode(a) \o << >> = Decode(a) /\ Len(Decode(a)) \in Nat
    BY <1>2
  <2>4. Same(0)
    BY <2>1, <2>2, <2>3
  <2>5. Short(0)
    <3>1. Len(Decode(a)) <= Len(Decode(a)) + Len(Decode(<< >>))
      BY <2>1, <2>2, <2>3
    <3> HIDE DEF part
    <3> QED
      BY <2>1, <3>1
  <2> HIDE DEF Same, Short
  <2> QED
    BY <2>4, <2>5
<1>4. ASSUME NEW n \in Nat, n \in T PROVE n + 1 \in T
  <2> SUFFICES ASSUME n + 1 <= Len(b) PROVE (~Splits(a, b) => Same(n + 1)) /\ Short(n + 1)
    OBVIOUS
  <2> DEFINE p == part(n)
             x == b[n + 1]
             w == a \o p
             A == Decode(a)
             P == Decode(p)
             W == Decode(w)
  <2>1. n \in 0..Len(b) /\ n + 1 \in 1..Len(b) /\ x \in Octets
    OBVIOUS
  <2>2. p \in Seq(Octets) /\ Len(p) = n
    BY <1>1, <2>1
  <2>3. part(n + 1) = Append(p, x)
    <3>1. part(n + 1) \in Seq(Octets) /\ Append(p, x) \in Seq(Octets) /\ Len(part(n+1)) = n + 1
          /\ Len(Append(p, x)) = n + 1
      BY <1>1, <2>1, <2>2
    <3>2. \A i \in 1..(n+1) : part(n + 1)[i] = Append(p, x)[i]
      BY <2>1, <2>2
    <3> HIDE DEF p, part
    <3> QED
      BY <3>1, <3>2, SeqEqual
  <2>4. n > 0 => p[n] = b[n] /\ p[1] = b[1]
    BY <2>1
  <2>5. (~Splits(a, b) => W = A \o P) /\ Len(W) <= Len(A) + Len(P)
    BY <1>4, <2>1
  <2> HIDE DEF p, x, part
  <2>6. w \in Seq(Octets) /\ a \o Append(p, x) = Append(w, x)
    BY <2>1, <2>2
  <2>7. IF n = 0 THEN w = a ELSE w # << >> /\ Last(w) = p[n] /\ Last(p) = p[n]
    BY <2>2 DEF Last
  <2>8. A \in Seq(Glyphs) /\ P \in Seq(Glyphs) /\ W \in Seq(Glyphs)
    BY <1>2, <2>2, <2>6, DecodeShape
  <2>9. (n = 0 <=> p = << >>) /\ (n > 0 => Len(P) > 0 /\ Len(W) > 0)
    <3>1. (n = 0 <=> p = << >>) /\ (n > 0 => p # << >> /\ w # << >>)
      BY <2>2
    <3> QED
      BY <2>2, <2>6, <3>1, DecodeShape
  <2>10. Decode(Append(p, x)) =
             IF x = "c" THEN Append(P, "c")
             ELSE IF x = "t" /\ p # << >> /\ Last(p) = "l" THEN Append(Front(P), "w")
             ELSE Append(P, "?")
    BY <2>1, <2>2, DecodeAppend
  <2>11. Decode(a \o Append(p, x)) =
             IF x = "c" THEN Append(W, "c")
             ELSE IF x = "t" /\ w # << >> /\ Last(w) = "l" THEN Append(Front(W), "w")
             ELSE Append(W, "?")
    BY <2>1, <2>6, DecodeAppend
  <2> DEFINE U == Decode(a \o Append(p, x))
             V == Decode(Append(p, x))
  <2>12. Same(n + 1) <=> U = A \o V
    BY <2>3
  <2>13. Short(n + 1) <=> Len(U) <= Len(A) + Len(V)
    BY <2>3
  <2> HIDE DEF U, V, W, P, A, w, Same, Short
  <2>14. ASSUME NEW g \in Glyphs
         PROVE  /\ Append(A \o P, g) = A \o Append(P, g)
                /\ Len(Append(W, g)) = Len(W) + 1 /\ Len(Append(P, g)) = Len(P) + 1
                /\ Len(W) \in Nat /\ Len(P) \in Nat /\ Len(A) \in Nat
    <3>1. Append(A \o P, g) = A \o Append(P, g)
      BY <2>8, <2>14
    <3> QED
      BY <2>8, <3>1
  <2>15. "c" \in Glyphs /\ "w" \in Glyphs /\ "?" \in Glyphs
    BY DEF Glyphs
  <2>16. CASE \/ x = "c"
              \/ ~(x = "t" /\ p # << >> /\ Last(p) = "l") /\ ~(x = "t" /\ w # << >> /\ Last(w) = "l")
    <3>1. PICK g \in Glyphs : U = Append(W, g) /\ V = Append(P, g)
      BY <2>10, <2>11, <2>15, <2>16 DEF U, V
    <3>2. ~Splits(a, b) => U = A \o V
      BY <2>5, <2>14, <3>1
    <3>3. Len(U) <= Len(A) + Len(V)
      <4>1. Len(U) = Len(W) + 1 /\ Len(V) = Len(P) + 1
        BY <2>14, <3>1
      <4> QED
        BY <2>5, <2>14, <3>1, <4>1
    <3> QED
      BY <2>12, <2>13, <3>2, <3>3
  <2>17. CASE x = "t" /\ n > 0 /\ p[n] = "l"
    <3>1. x # "c" /\ p # << >> /\ Last(p) = "l" /\ w # << >> /\ Last(w) = "l"
      BY <2>7, <2>9, <2>17
    <3>2. U = Append(Front(W), "w") /\ V = Append(Front(P), "w")
      BY <2>10, <2>11, <2>17, <3>1 DEF U, V
    <3>3. Len(P) > 0 /\ Len(W) > 0
      BY <2>9, <2>17
    <3>4. /\ Front(W) \in Seq(Glyphs) /\ Len(Front(W)) = Len(W) - 1
          /\ Front(P) \in Seq(Glyphs) /\ Len(Front(P)) = Len(P) - 1
      <4>1. P # << >> /\ W # << >>
        BY <2>8, <3>3
      <4> QED
        BY <2>8, <4>1, FrontType
    <3>5. ~Splits(a, b) => U = A \o V
      <4> DEFINE fp == Front(P)
      <4>1. fp \in Seq(Glyphs)
        BY <3>4
      <4> HIDE DEF fp
      <4>2. AppendOver(A, fp, "w")
        BY <2>8, <2>15, <4>1, ConcatAppend
      <4>3. ASSUME W = A \o P PROVE U = A \o V
        <5>1. P # << >>
          BY <2>8, <3>3
        <5>2. Front(W) = A \o fp /\ V = Append(fp, "w")
          BY <2>8, <3>2, <4>3, <5>1, ConcatFront DEF fp
        <5> QED
          BY <3>2, <4>2, <5>2 DEF AppendOver
      <4> QED
        BY <2>5, <4>3
    <3>6. Len(U) = Len(W) /\ Len(V) = Len(P)
      <4>1. Len(U) = Len(Front(W)) + 1 /\ Len(V) = Len(Front(P)) + 1
        BY <3>2, <3>4
      <4> QED
        BY <2>8, <3>4, <4>1
    <3> QED
      BY <2>5, <2>12, <2>13, <3>5, <3>6
  <2>18. CASE x = "t" /\ n = 0 /\ a # << >> /\ Last(a) = "l"
    <3>1. Splits(a, b)
      <4>1. b[1] = "t" /\ b # << >>
        BY <2>1, <2>18 DEF x
      <4> QED
        BY <2>18, <4>1 DEF Splits
    <3>2. x # "c" /\ p = << >> /\ w = a
      BY <2>7, <2>9, <2>18
    <3>3. U = Append(Front(W), "w") /\ V = Append(P, "?")
      BY <2>10, <2>11, <2>18, <3>2 DEF U, V
    <3>4. Front(W) \in Seq(Glyphs) /\ Len(Front(W)) = Len(W) - 1
      <4>1. W # << >>
        <5>1. Len(Decode(a)) > 0
          BY <2>18, DecodeShape
        <5>2. W = Decode(a)
          BY <3>2 DEF W
        <5>3. Len(<< >>) = 0
          OBVIOUS
        <5> QED
          BY <5>1, <5>2, <5>3
      <4> QED
        BY <2>8, <4>1, FrontType
    <3>5. Len(U) = Len(W) /\ Len(V) = Len(P) + 1
      <4>1. Len(U) = Len(Front(W)) + 1 /\ Len(V) = Len(P) + 1
        BY <2>8, <3>3, <3>4
      <4> QED
        BY <2>8, <3>4, <4>1
    <3>6. Len(U) <= Len(A) + Len(V)
      BY <2>5, <2>14, <2>15, <3>5
    <3> QED
      BY <2>13, <3>1, <3>6
  <2> QED
    BY <2>1, <2>7, <2>9, <2>16, <2>17, <2>18
<1> HIDE DEF T
<1>5. Nat \subseteq T
  BY <1>3, <1>4, InductionOnSet
<1>6. Len(b) \in Nat /\ Len(b) <= Len(b) /\ part(Len(b)) = b
  BY SubSeqFull
<1>7. (~Splits(a, b) => Same(Len(b))) /\ Short(Len(b))
  BY <1>5, <1>6 DEF T
<1> QED
  BY <1>6, <1>7

-----------------------------------------------------------------------------
(* whois: the answer *)

\* What has been read is kept, decoded a piece at a time, and nothing is printed
\* before the end.  As long as no read ended inside a character, the next one
\* does not begin inside one.
Kept ==
    /\ pc \notin {"done", "exited"} => output = << >>
    /\ ~split => response = Decode(received) /\ ~Splits(received, answer)
    /\ Len(Decode(received)) <= Len(response)

WhoisInv == WhoisTypeOK /\ Kept /\ WholeAnswerOrNone

\* A read takes the bytes from the answer to what has been received, and leaves
\* the end of a character at the front of the answer only when it says so.
LEMMA BytesMove ==
    ASSUME NEW a \in Seq(Octets), NEW r \in Seq(Octets), NEW n \in 1..Len(a)
    PROVE  LET chunk == SubSeq(a, 1, n)
               rest == SubSeq(a, n + 1, Len(a))
           IN  /\ chunk \in Seq(Octets) /\ rest \in Seq(Octets) /\ r \o chunk \in Seq(Octets)
               /\ Splits(r, chunk) => Splits(r, a)
               /\ Splits(r \o chunk, rest) => a[n] = "l" /\ n < Len(a) /\ a[n+1] = "t"
<1> DEFINE chunk == SubSeq(a, 1, n)
           rest == SubSeq(a, n + 1, Len(a))
<1>1. n \in Nat /\ 1 <= n /\ n <= Len(a) /\ Len(a) \in Nat
  OBVIOUS
<1>2. chunk \in Seq(Octets) /\ Len(chunk) = n
  BY <1>1, PrefixType
<1>3. chunk[1] = a[1] /\ chunk[n] = a[n]
  BY <1>1
<1>4. CASE n = Len(a)
  <2>1. rest = << >> /\ << >> \in Seq(Octets)
    BY <1>1, <1>4
  <2>2. ~Splits(r \o chunk, rest)
    BY <2>1 DEF Splits
  <2>3. Splits(r, chunk) => Splits(r, a)
    <3>1. a # << >>
      BY <1>1
    <3> QED
      BY <1>3, <3>1 DEF Splits
  <2>4. r \o chunk \in Seq(Octets)
    BY <1>2
  <2> QED
    BY <1>2, <2>1, <2>2, <2>3, <2>4
<1>5. CASE n < Len(a)
  <2>1. rest \in Seq(Octets) /\ rest[1] = a[n+1]
    BY <1>1, <1>5
  <2>2. r \o chunk \in Seq(Octets) /\ Last(r \o chunk) = a[n]
    <3> HIDE DEF chunk
    <3>1. r \o chunk \in Seq(Octets) /\ Len(r \o chunk) = Len(r) + n /\ Len(r) \in Nat
      BY <1>2
    <3>2. (r \o chunk)[Len(r) + n] = chunk[n]
      BY <1>1, <1>2
    <3> QED
      BY <1>3, <3>1, <3>2 DEF Last
  <2>3. Splits(r, chunk) => Splits(r, a)
    <3>1. a # << >>
      BY <1>1
    <3> QED
      BY <1>3, <3>1 DEF Splits
  <2>4. Splits(r \o chunk, rest) => a[n] = "l" /\ a[n+1] = "t"
    <3> HIDE DEF chunk, rest
    <3> QED
      BY <2>1, <2>2 DEF Splits
  <2> QED
    BY <1>2, <1>5, <2>1, <2>2, <2>3, <2>4
<1> QED
  BY <1>1, <1>4, <1>5

LEMMA ReadStep ==
    ASSUME WhoisInv, NEW n \in 1..Len(answer), Read(n)
    PROVE  WhoisInv'
<1> DEFINE chunk == SubSeq(answer, 1, n)
           rest == SubSeq(answer, n + 1, Len(answer))
           more == received \o chunk
           D == Decode(chunk)
<1>1. /\ pc = "reading" /\ pc' = "reading"
      /\ response' = response \o D /\ received' = more /\ answer' = rest /\ quiet' = FALSE
      /\ split' = (split \/ (answer[n] = "l" /\ n < Len(answer) /\ answer[n+1] = "t"))
      /\ UNCHANGED <<target, server, ending, output>>
  BY DEF Read
<1>2. /\ answer \in Seq(Octets) /\ received \in Seq(Octets) /\ split \in BOOLEAN
      /\ response \in Seq(Glyphs) /\ WhoisTypeOK
  BY DEF WhoisInv, WhoisTypeOK, Octets, Glyphs
<1>3. /\ chunk \in Seq(Octets) /\ rest \in Seq(Octets) /\ more \in Seq(Octets)
      /\ Splits(received, chunk) => Splits(received, answer)
      /\ Splits(more, rest) => answer[n] = "l" /\ n < Len(answer) /\ answer[n+1] = "t"
  BY <1>2, BytesMove
<1>4. output = << >>
  BY <1>1 DEF WhoisInv, Kept
<1>5. /\ Decode(received) \in Seq(Glyphs) /\ D \in Seq(Glyphs)
      /\ Len(Decode(received)) <= Len(response)
      /\ ~split => response = Decode(received) /\ ~Splits(received, answer)
  BY <1>2, <1>3, DecodeShape DEF WhoisInv, Kept
<1>6. /\ ~Splits(received, chunk) => Decode(more) = Decode(received) \o D
      /\ Len(Decode(more)) <= Len(Decode(received)) + Len(D)
  BY <1>2, <1>3, DecodePieces
<1> HIDE DEF chunk, rest, more, D
<1>7. response' \in Seq(Glyphs) /\ Len(response') = Len(response) + Len(D)
  BY <1>1, <1>2, <1>5
<1>8. WhoisTypeOK'
  BY <1>1, <1>2, <1>3, <1>7 DEF WhoisTypeOK, Octets, Glyphs
<1>9. ~split' => response' = Decode(received') /\ ~Splits(received', answer')
  <2> SUFFICES ASSUME ~split' PROVE response' = Decode(received') /\ ~Splits(received', answer')
    OBVIOUS
  <2>1. ~split /\ ~(answer[n] = "l" /\ n < Len(answer) /\ answer[n+1] = "t")
    BY <1>1
  <2>2. response = Decode(received) /\ ~Splits(received, chunk) /\ ~Splits(more, rest)
    BY <1>3, <1>5, <2>1
  <2> QED
    BY <1>1, <1>6, <2>2
<1>10. Len(Decode(received')) <= Len(response')
  <2>1. /\ Len(Decode(received)) \in Nat /\ Len(D) \in Nat /\ Len(response) \in Nat
        /\ Len(Decode(more)) \in Nat
    BY <1>2, <1>3, <1>5, DecodeShape
  <2> QED
    BY <1>1, <1>5, <1>6, <1>7, <2>1
<1>11. Kept' /\ WholeAnswerOrNone'
  BY <1>1, <1>4, <1>9, <1>10 DEF Kept, WholeAnswerOrNone
<1> QED
  BY <1>8, <1>11 DEF WhoisInv

\* What was printed of the text before the panic.
LEMMA PrefixOfIs ==
    ASSUME NEW s \in Seq(Glyphs), NEW n \in 0..Len(s)
    PROVE  SubSeq(s, 1, n) \in Seq(Glyphs) /\ IsPrefix(SubSeq(s, 1, n), s)
<1> DEFINE t == SubSeq(s, 1, n)
<1>1. t \in Seq(Glyphs) /\ Len(t) = n /\ \A i \in 1..n : t[i] = s[i]
  BY SubSeqProperties, LenProperties, ElementOfSeq
<1>2. SubSeq(t, 1, Len(t)) = SubSeq(s, 1, Len(t))
  <2>1. SubSeq(t, 1, n) = t
    BY <1>1
  <2> QED
    BY <1>1, <2>1
<1> QED
  BY <1>1, <1>2 DEF IsPrefix

LEMMA WhoisInvStep ==
    ASSUME WhoisInv, [WhoisNext]_<<whoisVars, pc, result>>
    PROVE  WhoisInv'
<1> USE DEF whoisVars, Goto, EndWith
<1>1. CASE Dial
  <2>1. ServerFor(target) \in {"none", "whois.arin.net", "whois.iana.org"} \cup
                              {Registry[label] : label \in DOMAIN Registry}
    BY DEF ServerFor
  <2> QED
    BY <1>1, <2>1 DEF Dial, WhoisInv, WhoisTypeOK, Kept, WholeAnswerOrNone
<1>2. CASE SendQuery
  BY <1>2 DEF SendQuery, WhoisInv, WhoisTypeOK, Kept, WholeAnswerOrNone
<1>3. CASE WhoisFails
  <2>1. pc \notin {"done", "exited"}
    BY <1>3 DEF WhoisFails, WhoisPlaces
  <2> QED
    BY <1>3, <2>1 DEF WhoisFails, WhoisInv, WhoisTypeOK, Kept, WholeAnswerOrNone
<1>4. ASSUME NEW n \in 1..Len(answer), Read(n) PROVE WhoisInv'
  BY <1>4, ReadStep
<1>5. CASE ReadOn \/ Wait
  BY <1>5 DEF ReadOn, Wait, WhoisInv, WhoisTypeOK, Kept, WholeAnswerOrNone
<1>6. CASE Finish
  <2>1. /\ pc = "reading" /\ ending = "close" /\ answer = << >> /\ output' = response
        /\ pc' = "done" /\ result' = "ok"
        /\ UNCHANGED <<target, server, answer, ending, quiet, response, received, split>>
    BY <1>6 DEF Finish
  <2>2. WhoisTypeOK'
    BY <2>1 DEF WhoisInv, WhoisTypeOK
  <2>3. /\ received \in Seq(Octets) /\ response \in Seq(Glyphs)
        /\ Len(response) \in Nat /\ Len(Decode(received)) \in Nat
    <3>1. received \in Seq(Octets) /\ response \in Seq(Glyphs)
      BY DEF WhoisInv, WhoisTypeOK, Octets, Glyphs
    <3> QED
      BY <3>1, DecodeShape
  <2>4. Len(output') >= Len(Decode(received))
    BY <2>1, <2>3 DEF WhoisInv, Kept
  <2>5. ~split => IsPrefix(output', Decode(received))
    BY <2>1, <2>3 DEF WhoisInv, Kept, IsPrefix
  <2> QED
    BY <2>1, <2>2, <2>4, <2>5 DEF WhoisInv, Kept, WholeAnswerOrNone
<1>7. CASE WhoisTimesOut
  <2>1. pc \notin {"done", "exited"}
    BY <1>7 DEF WhoisTimesOut
  <2> QED
    BY <1>7, <2>1 DEF WhoisTimesOut, WhoisInv, WhoisTypeOK, Kept, WholeAnswerOrNone
<1>8. ASSUME NEW n \in 0..Len(response), WhoisPrintPanics(n) PROVE WhoisInv'
  <2>1. /\ pc = "reading" /\ ending = "close" /\ answer = << >> /\ output' = SubSeq(response, 1, n)
        /\ pc' = "done" /\ result' = "panicked"
        /\ UNCHANGED <<target, server, answer, ending, quiet, response, received, split>>
    BY <1>8 DEF WhoisPrintPanics
  <2>2. response \in Seq(Glyphs) /\ Len(response) \in Nat
    BY DEF WhoisInv, WhoisTypeOK, Glyphs
  <2>3. output' \in Seq(Glyphs) /\ IsPrefix(output', response)
    BY <2>1, <2>2, PrefixOfIs
  <2>4. WhoisTypeOK'
    BY <2>1, <2>3 DEF WhoisInv, WhoisTypeOK, Glyphs
  <2>5. ~split => IsPrefix(output', Decode(received))
    BY <2>3 DEF WhoisInv, Kept
  <2> QED
    BY <2>1, <2>4, <2>5 DEF WhoisInv, Kept, WholeAnswerOrNone
<1>9. CASE UNCHANGED <<whoisVars, pc, result>>
  BY <1>9 DEF WhoisInv, WhoisTypeOK, Kept, WholeAnswerOrNone
<1> QED
  BY <1>1, <1>2, <1>3, <1>4, <1>5, <1>6, <1>7, <1>8, <1>9 DEF WhoisNext

LEMMA WhoisInvInit ==
    ASSUME NEW targets, NEW answers, NEW endings, targets \subseteq Targets,
           answers \subseteq Answers, endings \subseteq Endings,
           WhoisInit(targets, answers, endings)
    PROVE  WhoisInv
<1>1. WhoisTypeOK
  <2>1. answer \in Answers /\ Answers \subseteq Seq({"c", "l", "t"})
    BY WhoisAssumption DEF WhoisInit
  <2>2. << >> \in Seq({"c", "l", "t"}) /\ << >> \in Seq({"c", "w", "?"})
    OBVIOUS
  <2> QED
    BY <2>1, <2>2 DEF WhoisInit, WhoisTypeOK
<1>2. Decode(<< >>) = << >>
  <2>1. << >> \in Seq(Octets) /\ Len(<< >>) = 0
    OBVIOUS
  <2> QED
    BY <2>1, DecodeExists DEF Decoding
<1> QED
  BY <1>1, <1>2 DEF WhoisInit, WhoisInv, Kept, Splits, WholeAnswerOrNone

\* whois prints the whole answer, or its beginning where standard output fails, or
\* nothing; and as the server wrote it unless a read ended inside a character: for
\* any answer, cut anywhere by the reads, and any way the server may end it.
THEOREM AnswerAlwaysWhole == WhoisSpec => [](WhoisTypeOK /\ WholeAnswerOrNone)
<1>1. pc = "dial" /\ result = "none" /\ WhoisInit(Targets, Answers, Endings) => WhoisInv
  BY WhoisInvInit
<1>2. WhoisInv => WhoisTypeOK /\ WholeAnswerOrNone
  BY DEF WhoisInv
<1> QED
  BY <1>1, <1>2, WhoisInvStep, PTL DEF WhoisSpec

-----------------------------------------------------------------------------
(* disk: figures *)

\* Each unit is Kilo times the one before.
LEMMA UnitsGrow ==
    /\ \A u \in 1..5 : Units[u] \in Nat \ {0}
    /\ \A u \in 1..4 : Units[u + 1] = Units[u] * Kilo
<1>1. Kilo \in Nat /\ Kilo > 0
  BY DiskAssumption
<1> DEFINE a == Kilo * Kilo
           b == a * Kilo
           c == b * Kilo
<1>2. a \in Nat /\ a > 0
  BY <1>1
<1> HIDE DEF a
<1>3. b \in Nat /\ b > 0
  BY <1>1, <1>2
<1> HIDE DEF b
<1>4. c \in Nat /\ c > 0
  BY <1>1, <1>3
<1> HIDE DEF c
<1>5. Units = << 1, Kilo, a, b, c >>
  BY DEF Units, a, b, c
<1>6. Units[1] = 1 /\ Units[2] = Kilo /\ Units[3] = a /\ Units[4] = b /\ Units[5] = c
  BY <1>5
<1>7. ASSUME NEW u \in 1..5 PROVE Units[u] \in Nat \ {0}
  <2>1. u = 1 \/ u = 2 \/ u = 3 \/ u = 4 \/ u = 5
    OBVIOUS
  <2> QED
    BY <1>1, <1>2, <1>3, <1>4, <1>6, <2>1
<1>8. ASSUME NEW u \in 1..4 PROVE Units[u + 1] = Units[u] * Kilo
  <2>1. CASE u = 1
    BY <1>1, <1>6, <2>1
  <2>2. CASE u = 2
    BY <1>6, <2>2 DEF a
  <2>3. CASE u = 3
    BY <1>6, <2>3 DEF b
  <2>4. CASE u = 4
    BY <1>6, <2>4 DEF c
  <2> QED
    BY <2>1, <2>2, <2>3, <2>4
<1> QED
  BY <1>7, <1>8

\* The unit is one that bytes reaches, and the next is out of reach.
LEMMA UnitFits ==
    ASSUME NEW bytes \in Nat
    PROVE  /\ Unit(bytes) \in Nat \ {0}
           /\ bytes < Units[5] => bytes < Unit(bytes) * Kilo
<1> DEFINE M == {u \in 1..5 : u = 1 \/ bytes >= Units[u]}
           m == Max(M)
<1>1. M \in SUBSET Nat /\ 1 \in M /\ \A u \in M : u <= 5
  OBVIOUS
<1>2. \E u \in M : \A v \in M : v <= u
  <2> HIDE DEF M
  <2> QED
    BY <1>1, GreatestExists
<1>3. m \in M /\ \A u \in M : u <= m
  BY <1>1, <1>2 DEF Max
<1> HIDE DEF m
<1>4. m \in 1..5 /\ Unit(bytes) = Units[m]
  BY <1>3 DEF Unit, m
<1>5. Units[m] \in Nat \ {0}
  BY <1>4, UnitsGrow
<1>6. ASSUME bytes < Units[5] PROVE bytes < Units[m] * Kilo
  <2>1. Units[5] \in Nat
    BY UnitsGrow
  <2>2. m # 5
    <3>1. m = 5 => bytes >= Units[5]
      BY <1>3
    <3> QED
      BY <1>6, <2>1, <3>1
  <2>3. m \in 1..4 /\ m + 1 \in 1..5 /\ m + 1 # 1 /\ ~(m + 1 <= m)
    BY <1>4, <2>2
  <2>4. m + 1 \notin M
    BY <1>3, <2>3
  <2>5. ~(bytes >= Units[m + 1]) /\ Units[m + 1] \in Nat
    BY <2>3, <2>4, UnitsGrow
  <2>6. Units[m + 1] = Units[m] * Kilo
    BY <2>3, UnitsGrow
  <2>7. bytes < Units[m + 1]
    BY <2>5
  <2> QED
    BY <2>6, <2>7
<1> QED
  BY <1>4, <1>5, <1>6

\* Rounding to the nearest hundredth is wrong by half of one at most.
LEMMA FigureReadsBack ==
    ASSUME NEW bytes \in Nat
    PROVE  LET u == Unit(bytes)
               back == Hundredths(bytes) * u
           IN  /\ back <= bytes * 100 + u \div 2
               /\ bytes * 100 <= back + u \div 2
               /\ bytes < Units[5] => Hundredths(bytes) <= Kilo * 100
<1> DEFINE u == Unit(bytes)
           t == bytes * 100
           q == t \div u
           r == t % u
           h == u \div 2
           f == Hundredths(bytes)
<1>1. u \in Nat \ {0} /\ t \in Nat /\ Kilo \in Nat
  BY UnitFits, DiskAssumption
<1>2. f = IF 2 * r > u \/ (2 * r = u /\ q % 2 = 1) THEN q + 1 ELSE q
  BY DEF Hundredths
<1>3. bytes < Units[5] => t < (u * Kilo) * 100
  <2>1. ASSUME NEW x \in Nat, bytes < x PROVE t < x * 100
    BY <2>1
  <2>2. u * Kilo \in Nat
    BY <1>1
  <2>3. bytes < Units[5] => bytes < u * Kilo
    BY UnitFits
  <2> HIDE DEF t, u
  <2> QED
    BY <2>1, <2>2, <2>3
<1> HIDE DEF u, t, f
<1>4. q \in Int /\ r \in 0..(u-1) /\ t = u * q + r
  BY <1>1
<1>5. h \in Nat /\ 2 * h <= u /\ u <= 2 * h + 1
  BY <1>1
<1> HIDE DEF q, r, h
<1>6. f = q \/ f = q + 1
  BY <1>2
<1>7. f = q => 2 * r <= u
  <2>1. ASSUME f = q, 2 * r > u PROVE FALSE
    <3>1. f = q + 1
      BY <1>2, <2>1
    <3> QED
      BY <1>4, <2>1, <3>1
  <2> QED
    BY <1>1, <1>4, <2>1
<1>8. f = q + 1 => 2 * r >= u
  <2>1. ASSUME f = q + 1, 2 * r < u PROVE FALSE
    <3>1. ~(2 * r > u) /\ 2 * r # u
      BY <1>1, <1>4, <2>1
    <3>2. f = q
      BY <1>2, <3>1
    <3> QED
      BY <1>4, <2>1, <3>2
  <2> QED
    BY <1>1, <1>4, <2>1
<1>9. CASE f = q
  <2>1. f * u = u * q
    BY <1>1, <1>4, <1>9
  <2>2. f * u <= t + h /\ t <= f * u + h
    <3> DEFINE p == u * q
    <3>1. p \in Int /\ f * u = p /\ t = p + r
      BY <1>1, <1>4, <2>1
    <3> HIDE DEF p
    <3> QED
      BY <1>1, <1>4, <1>5, <1>7, <1>9, <3>1
  <2>3. bytes < Units[5] => f <= Kilo * 100
    <3> SUFFICES ASSUME t < (u * Kilo) * 100, q > Kilo * 100 PROVE FALSE
      BY <1>1, <1>3, <1>4, <1>9
    <3>1. u * q >= u * (Kilo * 100)
      BY <1>1, <1>4
    <3>2. u * (Kilo * 100) = (u * Kilo) * 100
      BY <1>1
    <3> QED
      BY <1>1, <1>4, <3>1, <3>2
  <2> QED
    BY <2>2, <2>3 DEF u, t, f, h
<1>10. CASE f = q + 1
  <2>1. f * u = u * q + u
    BY <1>1, <1>4, <1>10
  <2>2. f * u <= t + h /\ t <= f * u + h
    <3> DEFINE p == u * q
    <3>1. p \in Int /\ f * u = p + u /\ t = p + r
      BY <1>1, <1>4, <2>1
    <3> HIDE DEF p
    <3> QED
      BY <1>1, <1>4, <1>5, <1>8, <1>10, <3>1
  <2>3. bytes < Units[5] => f <= Kilo * 100
    <3> SUFFICES ASSUME t < (u * Kilo) * 100, q >= Kilo * 100 PROVE FALSE
      BY <1>1, <1>3, <1>4, <1>10
    <3>1. u * q >= u * (Kilo * 100)
      BY <1>1, <1>4
    <3>2. u * (Kilo * 100) = (u * Kilo) * 100
      BY <1>1
    <3> QED
      BY <1>1, <1>4, <3>1, <3>2
  <2> QED
    BY <2>2, <2>3 DEF u, t, f, h
<1> QED
  BY <1>6, <1>9, <1>10

-----------------------------------------------------------------------------
(* disk: the name column *)

LEMMA ColumnsGrow ==
    ASSUME NEW name \in Seq({1, 2})
    PROVE  /\ Columns(name, 0) = 0
           /\ Columns(name, Len(name)) = Width(name)
           /\ \A n \in 0..Len(name) : Columns(name, n) \in Nat
           /\ \A i, j \in 0..Len(name) : i <= j => Columns(name, i) <= Columns(name, j)
<1>1. name \in Seq(Nat) /\ Len(name) \in Nat
  <2>1. name = [k \in 1..Len(name) |-> name[k]] /\ Len(name) \in Nat
    OBVIOUS
  <2>2. \A k \in 1..Len(name) : name[k] \in Nat
    <3>1. \A k \in 1..Len(name) : name[k] \in {1, 2}
      OBVIOUS
    <3> QED
      BY <3>1
  <2>3. [k \in 1..Len(name) |-> name[k]] \in Seq(Nat)
    BY <2>1, <2>2
  <2> QED
    BY <2>1, <2>3
<1>2. Columns(name, 0) = 0
  <2>1. SubSeq(name, 1, 0) = << >>
    BY <1>1
  <2> QED
    BY <2>1, TotalEmpty DEF Columns, Width
<1>3. Columns(name, Len(name)) = Width(name)
  <2>1. SubSeq(name, 1, Len(name)) = name
    BY <1>1, SubSeqFull
  <2> QED
    BY <2>1 DEF Columns
<1>4. ASSUME NEW n \in 0..Len(name) PROVE Columns(name, n) \in Nat
  <2>1. SubSeq(name, 1, n) \in Seq(Nat)
    BY <1>1, PrefixType
  <2> QED
    BY <2>1, TotalType DEF Columns, Width
<1>5. ASSUME NEW n \in Nat, n < Len(name) PROVE Columns(name, n) <= Columns(name, n + 1)
  <2>1. Columns(name, n + 1) = Columns(name, n) + name[n + 1]
    BY <1>1, <1>5, TotalSubSeq DEF Columns, Width
  <2>2. name[n + 1] \in Nat /\ n \in 0..Len(name)
    BY <1>1, <1>5
  <2> QED
    BY <1>4, <2>1, <2>2
<1>6. ASSUME NEW i \in 0..Len(name), NEW j \in 0..Len(name), i <= j
      PROVE  Columns(name, i) <= Columns(name, j)
  <2> DEFINE T == {d \in Nat : i + d <= Len(name) => Columns(name, i) <= Columns(name, i + d)}
  <2>1. 0 \in T
    <3>1. i + 0 = i /\ Columns(name, i) \in Nat
      BY <1>4
    <3> QED
      BY <3>1
  <2>2. ASSUME NEW d \in Nat, d \in T PROVE d + 1 \in T
    <3> SUFFICES ASSUME i + (d + 1) <= Len(name) PROVE Columns(name, i) <= Columns(name, i + (d + 1))
      OBVIOUS
    <3>1. /\ i + d \in Nat /\ i + d < Len(name) /\ (i + d) + 1 = i + (d + 1)
          /\ i + d \in 0..Len(name) /\ i + (d + 1) \in 0..Len(name)
      BY <1>1
    <3>2. Columns(name, i) <= Columns(name, i + d)
      BY <2>2, <3>1
    <3>3. Columns(name, i + d) <= Columns(name, i + (d + 1))
      BY <1>5, <3>1
    <3> QED
      BY <1>4, <3>1, <3>2, <3>3
  <2> HIDE DEF T
  <2>3. Nat \subseteq T
    BY <2>1, <2>2, InductionOnSet
  <2>4. j - i \in T /\ i + (j - i) = j /\ j <= Len(name)
    BY <1>6, <2>3
  <2> QED
    BY <2>4 DEF T
<1> QED
  BY <1>2, <1>3, <1>4, <1>6

\* Taking characters while they fit and popping some again comes to the longest
\* beginning that leaves room for the ellipsis.
LEMMA DisplayedFills ==
    ASSUME NEW name \in Seq({1, 2})
    PROVE  /\ Displayed(name) \in Seq({1, 2})
           /\ Displayed(name) =
                IF Width(name) <= NameWidth THEN name
                ELSE SubSeq(name, 1, Max({n \in 0..Len(name) : Columns(name, n) + 3 <= NameWidth}))
                       \o << 1, 1, 1 >>
<1> DEFINE fits == {n \in 0..Len(name) : \A k \in 1..n : Columns(name, k) <= NameWidth}
           m == Max(fits)
           kept == SubSeq(name, 1, m)
           room == {n \in 0..Len(name) : Columns(name, n) + 3 <= NameWidth}
           left == {n \in 0..m : n = 0 \/ Columns(kept, n) + 3 <= NameWidth}
<1>1. /\ Columns(name, 0) = 0 /\ Columns(name, Len(name)) = Width(name) /\ Len(name) \in Nat
      /\ \A n \in 0..Len(name) : Columns(name, n) \in Nat
      /\ \A i, j \in 0..Len(name) : i <= j => Columns(name, i) <= Columns(name, j)
  BY ColumnsGrow
<1>2. NameWidth \in Nat /\ NameWidth >= 3
  BY DiskAssumption
<1>3. m \in fits /\ \A n \in fits : n <= m
  <2>1. fits \in SUBSET Nat /\ 0 \in fits /\ \A n \in fits : n <= Len(name)
    BY <1>1
  <2> HIDE DEF fits
  <2>2. \E n \in fits : \A l \in fits : l <= n
    BY <1>1, <2>1, GreatestExists
  <2> QED
    BY <2>1, <2>2 DEF Max
<1>4. Fitting(name) = kept
  BY DEF Fitting
<1> HIDE DEF m
<1>5. m \in 0..Len(name) /\ kept \in Seq({1, 2}) /\ Len(kept) = m
  <2>1. m \in 0..Len(name)
    BY <1>3
  <2> QED
    BY <1>1, <2>1, PrefixType
<1>6. CASE Width(name) <= NameWidth
  <2>1. Len(name) \in fits
    <3> SUFFICES ASSUME NEW k \in 1..Len(name) PROVE Columns(name, k) <= NameWidth
      BY <1>1
    <3>1. k \in 0..Len(name) /\ Len(name) \in 0..Len(name) /\ k <= Len(name)
      BY <1>1
    <3>2. Columns(name, k) <= Columns(name, Len(name)) /\ Columns(name, k) \in Nat
          /\ Columns(name, Len(name)) \in Nat
      BY <1>1, <3>1
    <3> QED
      BY <1>1, <1>2, <1>6, <3>2
  <2>2. m = Len(name)
    BY <1>1, <1>3, <1>5, <2>1
  <2>3. kept = name
    BY <2>2, SubSeqFull
  <2> QED
    BY <1>4, <1>6, <2>3 DEF Displayed
<1>7. CASE ~(Width(name) <= NameWidth)
  <2>1. m # Len(name)
    <3> SUFFICES ASSUME m = Len(name) PROVE FALSE
      OBVIOUS
    <3>1. CASE Len(name) = 0
      BY <1>1, <1>2, <1>7, <3>1
    <3>2. CASE Len(name) # 0
      <4>1. Len(name) \in 1..m
        BY <1>1, <3>2
      <4>2. Columns(name, Len(name)) <= NameWidth
        BY <1>3, <4>1
      <4> QED
        BY <1>1, <1>7, <4>2
    <3> QED
      BY <3>1, <3>2
  <2>2. kept # name
    BY <1>5, <2>1
  <2>3. \A n \in 0..m : SubSeq(kept, 1, n) = SubSeq(name, 1, n)
    <3> SUFFICES ASSUME NEW n \in 0..m PROVE SubSeq(kept, 1, n) = SubSeq(name, 1, n)
      OBVIOUS
    <3> DEFINE a == SubSeq(kept, 1, n)
               b == SubSeq(name, 1, n)
    <3>1. a \in Seq({1, 2}) /\ b \in Seq({1, 2}) /\ Len(a) = n /\ Len(b) = n
      BY <1>1, <1>5, PrefixType
    <3>2. \A i \in 1..n : a[i] = b[i]
      BY <1>5
    <3> HIDE DEF a, b
    <3>3. a = b
      BY <3>1, <3>2, SeqEqual
    <3> QED
      BY <3>3 DEF a, b
  <2>4. \A n \in 0..m : Columns(kept, n) = Columns(name, n)
    BY <2>3 DEF Columns
  <2>5. room = left
    <3>1. ASSUME NEW n \in room PROVE n \in left
      <4>1. n \in 0..Len(name) /\ Columns(name, n) + 3 <= NameWidth
        OBVIOUS
      <4>2. n \in fits
        <5> SUFFICES ASSUME NEW k \in 1..n PROVE Columns(name, k) <= NameWidth
          BY <4>1
        <5>1. k \in 0..Len(name) /\ k <= n
          BY <1>1, <4>1
        <5>2. Columns(name, k) <= Columns(name, n) /\ Columns(name, k) \in Nat /\ Columns(name, n) \in Nat
          BY <1>1, <4>1, <5>1
        <5> QED
          BY <1>2, <4>1, <5>2
      <4>3. n \in 0..m
        BY <1>3, <1>5, <4>1, <4>2
      <4> QED
        BY <2>4, <4>1, <4>3
    <3>2. ASSUME NEW n \in left PROVE n \in room
      <4>1. n \in 0..m /\ n \in 0..Len(name)
        BY <1>5
      <4>2. n = 0 => Columns(name, n) + 3 <= NameWidth
        BY <1>1, <1>2
      <4> QED
        BY <2>4, <4>1, <4>2
    <3> QED
      BY <3>1, <3>2
  <2>6. Shortened(kept) = SubSeq(kept, 1, Max(left))
    BY <1>5 DEF Shortened
  <2>7. Max(left) \in 0..m
    <3>1. left \in SUBSET Nat /\ 0 \in left /\ \A n \in left : n <= m /\ n \in 0..m
      BY <1>5
    <3>2. m \in Nat
      BY <1>5
    <3> HIDE DEF left
    <3>3. \E n \in left : \A l \in left : l <= n
      BY <3>1, <3>2, GreatestExists
    <3>4. Max(left) \in left
      BY <3>1, <3>3 DEF Max
    <3> QED
      BY <3>1, <3>4
  <2> HIDE DEF left, room, kept
  <2>8. Displayed(name) = SubSeq(name, 1, Max(room)) \o << 1, 1, 1 >>
    BY <1>4, <2>2, <2>3, <2>5, <2>6, <2>7 DEF Displayed
  <2>9. SubSeq(name, 1, Max(room)) \in Seq({1, 2})
    <3>1. Max(room) \in Nat /\ Max(room) <= Len(name)
      BY <1>1, <1>5, <2>5, <2>7
    <3> QED
      BY <3>1, PrefixType
  <2>10. Displayed(name) \in Seq({1, 2})
    <3> DEFINE w == SubSeq(name, 1, Max(room))
    <3>1. w \in Seq({1, 2}) /\ << 1, 1, 1 >> \in Seq({1, 2})
      BY <2>9
    <3>2. Displayed(name) = w \o << 1, 1, 1 >>
      BY <2>8
    <3> HIDE DEF w
    <3> QED
      BY <3>1, <3>2
  <2> QED
    BY <1>7, <2>8, <2>10 DEF room
<1> QED
  BY <1>6, <1>7

-----------------------------------------------------------------------------
(* disk: sorting *)

\* p says which item comes at which place: every item at one, and by falling size.
Sorting(s, p) ==
    /\ p \in [1..Len(s) -> 1..Len(s)]
    /\ \A i, j \in 1..Len(s) : p[i] = p[j] => i = j
    /\ \A k \in 1..Len(s) : \E r \in 1..Len(s) : p[r] = k
    /\ Falling(s) = [r \in 1..Len(s) |-> s[p[r]]]
    /\ \A i, j \in 1..Len(s) : i < j => s[p[i]].size >= s[p[j]].size

LEMMA FallingSorts ==
    ASSUME NEW S, NEW s \in Seq(S), \A k \in 1..Len(s) : s[k].size \in Nat
    PROVE  \E p : Sorting(s, p)
<1> DEFINE N == Len(s)
           A(k) == Ahead(s, k)
           rank(k) == Cardinality(A(k))
<1>1. N \in Nat /\ IsFiniteSet(1..N) /\ Cardinality(1..N) = N
  <2>1. N \in Nat /\ N \in Int /\ 1 \in Int /\ N - 1 + 1 = N /\ (1 > N => N = 0)
    OBVIOUS
  <2>2. IsFiniteSet(1..N) /\ Cardinality(1..N) = IF 1 > N THEN 0 ELSE N - 1 + 1
    BY <2>1, FS_Interval
  <2> QED
    BY <2>1, <2>2
<1>2. ASSUME NEW k \in 1..N PROVE IsFiniteSet(A(k)) /\ k \in A(k) /\ rank(k) \in 1..N
  <2>1. A(k) \in SUBSET (1..N) /\ k \in A(k)
    BY DEF Ahead
  <2>2. IsFiniteSet(A(k)) /\ rank(k) \in Nat /\ rank(k) <= N
    BY <1>1, <2>1, FS_Subset, FS_CardinalityType
  <2>3. rank(k) # 0
    BY <2>1, <2>2, FS_EmptySet
  <2> QED
    BY <2>1, <2>2, <2>3
<1>3. \A j, k \in 1..N : j \in A(k) \/ k \in A(j)
  BY DEF Ahead
<1>4. ASSUME NEW j \in 1..N, NEW k \in 1..N, j \in A(k), j # k PROVE rank(j) < rank(k)
  <2>1. s[j].size \in Nat /\ s[k].size \in Nat
    OBVIOUS
  <2>2. s[j].size > s[k].size \/ (s[j].size = s[k].size /\ j < k)
    BY <1>4 DEF Ahead
  <2>3. A(j) \in SUBSET A(k)
    BY <2>1, <2>2 DEF Ahead
  <2>4. k \notin A(j)
    BY <2>1, <2>2 DEF Ahead
  <2>5. A(j) # A(k)
    BY <1>2, <2>4
  <2>6. rank(j) <= rank(k) /\ rank(j) # rank(k)
    BY <1>2, <2>3, <2>5, FS_Subset
  <2> QED
    BY <1>2, <2>6
<1> HIDE DEF A
<1>5. \A j, k \in 1..N : rank(j) = rank(k) => j = k
  BY <1>2, <1>3, <1>4
<1> DEFINE R == [k \in 1..N |-> rank(k)]
<1>6. \A r \in 1..N : \E k \in 1..N : rank(k) = r
  <2>1. R \in [1..N -> 1..N]
    BY <1>2
  <2>2. \A j, k \in 1..N : R[j] = R[k] => j = k
    BY <1>5
  <2>3. R \in Injection(1..N, 1..N)
    BY <2>1, <2>2 DEF Injection, IsInjective
  <2>4. R \in Surjection(1..N, 1..N)
    BY <1>1, <2>3, FS_Injection
  <2>5. \A r \in 1..N : \E k \in 1..N : R[k] = r
    BY <2>4 DEF Surjection
  <2> QED
    BY <2>5
<1> DEFINE p == [r \in 1..N |-> CHOOSE k \in 1..N : rank(k) = r]
<1>7. \A r \in 1..N : p[r] \in 1..N /\ rank(p[r]) = r
  BY <1>6
<1>8. Falling(s) = [r \in 1..Len(s) |-> s[p[r]]]
  BY DEF Falling, A
<1>9. p \in [1..N -> 1..N]
  BY <1>7
<1> HIDE DEF p, rank
<1>10. \A i, j \in 1..N : p[i] = p[j] => i = j
  BY <1>7
<1>11. \A k \in 1..N : \E r \in 1..N : p[r] = k
  <2> SUFFICES ASSUME NEW k \in 1..N PROVE \E r \in 1..N : p[r] = k
    OBVIOUS
  <2>1. rank(k) \in 1..N
    BY <1>2
  <2>2. p[rank(k)] = k
    BY <1>5, <1>7, <2>1
  <2> QED
    BY <2>1, <2>2
<1>12. ASSUME NEW i \in 1..N, NEW j \in 1..N, i < j PROVE s[p[i]].size >= s[p[j]].size
  <2>1. p[i] \in 1..N /\ p[j] \in 1..N /\ rank(p[i]) = i /\ rank(p[j]) = j
    BY <1>7
  <2>2. p[i] # p[j]
    BY <1>12, <2>1
  <2>3. p[j] \notin A(p[i])
    <3>1. p[j] \in A(p[i]) => j < i
      BY <1>4, <2>1, <2>2
    <3> QED
      BY <1>12, <3>1
  <2>4. p[i] \in A(p[j])
    BY <1>3, <2>1, <2>3
  <2>5. s[p[i]].size \in Nat /\ s[p[j]].size \in Nat
    BY <2>1
  <2> QED
    BY <2>4, <2>5 DEF A, Ahead
<1> QED
  BY <1>8, <1>9, <1>10, <1>11, <1>12 DEF Sorting

-----------------------------------------------------------------------------
(* disk: the walk *)

\* What the walk has seen of entry e at the sizes of this moment.
Seen(e, n) == Total([k \in 1..n |-> SizeNow(e, k)])

\* A size that lies between what is left of an entry and what it held at first.
Between(e, n) == ToTheEnd(e) <= n /\ n <= AtFirst(e)

\* The directories are listed once each; a file has a size it may have had; the
\* walk of a directory has counted what it has passed, and more where a file was
\* deleted behind it; nothing is laid out before the walks are done.
Walking ==
    /\ \A i \in 1..Len(dirs) : tree[dirs[i]].kind = "dir"
    /\ \A i, j \in 1..Len(dirs) : dirs[i] = dirs[j] => i = j
    /\ \A k \in 1..Len(files) :
         tree[files[k].entry].kind = "file" /\ Between(files[k].entry, files[k].size)
    /\ \A e \in 1..Len(tree) :
         /\ walked[e] <= Len(tree[e].sizes)
         /\ sum[e] <= Total(SubSeq(tree[e].sizes, 1, walked[e]))
         /\ Seen(e, walked[e]) <= sum[e]
    /\ pc \notin {"sorted", "done", "exited"} => rows = << >>

Item == [entry : 1..Len(tree), size : Nat]

DiskInv == DiskTypeOK /\ Walking /\ RowsRight /\ NamesFill /\ FiguresReadBack

\* The sizes of an entry, at first and now.
LEMMA SizesType ==
    ASSUME DiskTypeOK, NEW e \in 1..Len(tree)
    PROVE  /\ tree \in Seq(Entry) /\ tree[e] \in Entry
           /\ tree[e].sizes \in Seq(Nat) /\ Len(tree[e].sizes) \in Nat /\ tree[e].name \in Seq({1, 2})
           /\ tree[e].kind = "file" => Len(tree[e].sizes) = 1
           /\ \A k \in 1..Len(tree[e].sizes) : SizeNow(e, k) \in Nat /\ SizeNow(e, k) <= tree[e].sizes[k]
<1>1. tree \in Seq(Entry) /\ tree \in Trees
  BY DiskAssumption DEF DiskTypeOK
<1>2. tree[e] \in Entry
  BY <1>1
<1>3. tree[e].sizes \in Seq(Nat) /\ tree[e].name \in Seq({1, 2})
  BY <1>2 DEF Entry
<1>4. tree[e].kind = "file" => Len(tree[e].sizes) = 1
  BY <1>1, DiskAssumption
<1>5. \A k \in 1..Len(tree[e].sizes) : SizeNow(e, k) \in Nat /\ SizeNow(e, k) <= tree[e].sizes[k]
  BY <1>3 DEF SizeNow
<1> QED
  BY <1>1, <1>2, <1>3, <1>4, <1>5

LEMMA SeenType ==
    ASSUME DiskTypeOK, NEW e \in 1..Len(tree), NEW n \in 0..Len(tree[e].sizes)
    PROVE  /\ [k \in 1..n |-> SizeNow(e, k)] \in Seq(Nat) /\ Seen(e, n) \in Nat
           /\ Len([k \in 1..n |-> SizeNow(e, k)]) = n
<1> DEFINE s == [k \in 1..n |-> SizeNow(e, k)]
<1>1. n \in Nat /\ \A k \in 1..n : SizeNow(e, k) \in Nat
  BY SizesType
<1>2. s \in Seq(Nat) /\ Len(s) = n
  BY <1>1
<1> HIDE DEF s
<1>3. Total(s) \in Nat
  BY <1>2, TotalType
<1> QED
  BY <1>2, <1>3 DEF s, Seen

\* One file more.
LEMMA SeenOneMore ==
    ASSUME DiskTypeOK, NEW e \in 1..Len(tree), NEW n \in Nat, n < Len(tree[e].sizes)
    PROVE  Seen(e, n + 1) = Seen(e, n) + SizeNow(e, n + 1)
<1> DEFINE s == [k \in 1..(n+1) |-> SizeNow(e, k)]
           t == [k \in 1..n |-> SizeNow(e, k)]
<1>1. Len(tree[e].sizes) \in Nat /\ n + 1 \in 0..Len(tree[e].sizes) /\ n \in 0..Len(tree[e].sizes)
  BY SizesType
<1>2. s \in Seq(Nat) /\ Len(s) = n + 1 /\ t \in Seq(Nat) /\ Len(t) = n
  BY <1>1, SeenType
<1>3. \A k \in 1..n : s[k] = t[k]
  OBVIOUS
<1>4. s[n + 1] = SizeNow(e, n + 1)
  OBVIOUS
<1> HIDE DEF s, t
<1>5. n < Len(s) /\ n <= Len(s)
  BY <1>2
<1>6. SubSeq(s, 1, n + 1) = s
  BY <1>2, SubSeqFull
<1>7. SubSeq(s, 1, n) = t
  <2> DEFINE b == SubSeq(s, 1, n)
  <2>1. b \in Seq(Nat) /\ Len(b) = n
    BY <1>2, <1>5, PrefixType
  <2>2. \A k \in 1..n : b[k] = s[k]
    BY <1>2, <1>5
  <2> HIDE DEF b
  <2>3. b = t
    BY <1>2, <1>3, <2>1, <2>2, SeqEqual
  <2> QED
    BY <2>3 DEF b
<1>8. Total(s) = Total(t) + s[n + 1]
  <2>1. Total(SubSeq(s, 1, n + 1)) = Total(SubSeq(s, 1, n)) + s[n + 1]
    BY <1>2, <1>5, TotalSubSeq
  <2> QED
    BY <1>6, <1>7, <2>1
<1> QED
  BY <1>4, <1>8 DEF s, t, Seen

\* A file that goes makes no sum of what is there larger.
LEMMA SeenShrinks ==
    ASSUME DiskTypeOK, UNCHANGED tree, gone \subseteq gone',
           NEW e \in 1..Len(tree), NEW n \in 0..Len(tree[e].sizes)
    PROVE  Seen(e, n)' <= Seen(e, n) /\ Seen(e, n)' \in Nat
<1> DEFINE s == [k \in 1..n |-> SizeNow(e, k)]
           t == [k \in 1..n |-> SizeNow(e, k)']
<1>1. s \in Seq(Nat) /\ Len(s) = n /\ Len(tree[e].sizes) \in Nat
  BY SeenType, SizesType
<1>2. \A k \in 1..n : SizeNow(e, k)' \in Nat /\ SizeNow(e, k)' <= SizeNow(e, k)
  <2> SUFFICES ASSUME NEW k \in 1..n PROVE SizeNow(e, k)' \in Nat /\ SizeNow(e, k)' <= SizeNow(e, k)
    OBVIOUS
  <2>1. k \in 1..Len(tree[e].sizes)
    BY <1>1
  <2>2. tree[e].sizes[k] \in Nat
    BY <2>1, SizesType
  <2> QED
    BY <2>2 DEF SizeNow
<1>3. t \in Seq(Nat) /\ Len(t) = n
  BY <1>1, <1>2
<1>4. \A k \in 1..n : t[k] <= s[k]
  BY <1>2
<1> HIDE DEF s, t
<1>5. Total(t) <= Total(s) /\ Total(t) \in Nat
  BY <1>1, <1>3, <1>4, TotalMonotonic, TotalType
<1>6. Seen(e, n)' = Total(t) /\ Seen(e, n) = Total(s)
  BY DEF Seen, s, t
<1> QED
  BY <1>5, <1>6

\* What the whole walk has seen is what is left to the end.
LEMMA WalkedThrough ==
    ASSUME DiskTypeOK, Walking, NEW e \in 1..Len(tree), walked[e] = Len(tree[e].sizes)
    PROVE  Between(e, sum[e])
<1>1. tree[e].sizes \in Seq(Nat)
  BY SizesType
<1>2. SubSeq(tree[e].sizes, 1, walked[e]) = tree[e].sizes
  BY <1>1, SubSeqFull
<1>3. sum[e] <= Total(tree[e].sizes) /\ Seen(e, Len(tree[e].sizes)) <= sum[e]
  BY <1>2 DEF Walking
<1> QED
  BY <1>3 DEF Between, ToTheEnd, AtFirst, Seen

\* The listing of one kind: positions of such entries, each once.
LEMMA KindListed ==
    ASSUME DiskTypeOK, NEW k
    PROVE  /\ Kind(k) \in Seq(1..Len(tree))
           /\ \A i \in 1..Len(Kind(k)) : tree[Kind(k)[i]].kind = k
           /\ \A i, j \in 1..Len(Kind(k)) : Kind(k)[i] = Kind(k)[j] => i = j
<1> DEFINE all == [e \in 1..Len(tree) |-> e]
           I == {e \in 1..Len(tree) : tree[e].kind = k}
           t == Picked(all, I)
<1>1. Len(tree) \in Nat
  BY DiskAssumption DEF DiskTypeOK
<1>2. all \in Seq(1..Len(tree)) /\ Len(all) = Len(tree)
  BY <1>1
<1>3. t \in Seq(1..Len(tree)) /\ \E at : PickedAt(all, I, t, at)
  <2> HIDE DEF all, I
  <2> QED
    BY <1>2, PickedInOrder
<1>4. PICK at : PickedAt(all, I, t, at)
  BY <1>3
<1> HIDE DEF t
<1>5. /\ at \in [1..Len(t) -> 1..Len(tree)]
      /\ \A i \in 1..Len(t) : t[i] = all[at[i]] /\ at[i] \in I
      /\ \A i, j \in 1..Len(t) : i < j => at[i] < at[j]
  <2> HIDE DEF all, I
  <2> QED
    BY <1>2, <1>4 DEF PickedAt, PickedAtUpTo
<1>6. \A i \in 1..Len(t) : t[i] = at[i] /\ tree[t[i]].kind = k /\ at[i] \in Nat
  <2> SUFFICES ASSUME NEW i \in 1..Len(t) PROVE t[i] = at[i] /\ tree[t[i]].kind = k /\ at[i] \in Nat
    OBVIOUS
  <2>1. t[i] = all[at[i]] /\ at[i] \in I
    BY <1>5
  <2>2. at[i] \in 1..Len(tree) /\ tree[at[i]].kind = k
    BY <2>1
  <2>3. all[at[i]] = at[i]
    BY <2>2
  <2> QED
    BY <1>1, <2>1, <2>2, <2>3
<1>7. \A i, j \in 1..Len(t) : t[i] = t[j] => i = j
  BY <1>3, <1>5, <1>6
<1> QED
  BY <1>3, <1>6, <1>7 DEF Kind, t

LEMMA EnumerateStep ==
    ASSUME DiskInv, Enumerate
    PROVE  DiskInv'
<1> DEFINE plain == Kind("file")
           seen == Picked(plain, {i \in 1..Len(plain) : << plain[i], 1 >> \notin gone})
           listed == [k \in 1..Len(seen) |-> [entry |-> seen[k], size |-> SizeNow(seen[k], 1)]]
<1>1. /\ pc = "enumerate" /\ pc' = "walk" /\ dirs' = Kind("dir") /\ files' = listed
      /\ UNCHANGED <<tree, gone, walked, sum, rows>>
  BY DEF Enumerate, Goto
<1>2. DiskTypeOK /\ Walking /\ rows = << >>
  BY <1>1 DEF DiskInv, Walking
<1>3. /\ plain \in Seq(1..Len(tree))
      /\ \A i \in 1..Len(plain) : tree[plain[i]].kind = "file"
      /\ Kind("dir") \in Seq(1..Len(tree))
      /\ \A i \in 1..Len(Kind("dir")) : tree[Kind("dir")[i]].kind = "dir"
      /\ \A i, j \in 1..Len(Kind("dir")) : Kind("dir")[i] = Kind("dir")[j] => i = j
  BY <1>2, KindListed
<1>4. /\ seen \in Seq(1..Len(tree))
      /\ \A k \in 1..Len(seen) : \E i \in 1..Len(plain) : << plain[i], 1 >> \notin gone /\ seen[k] = plain[i]
  <2> DEFINE I == {i \in 1..Len(plain) : << plain[i], 1 >> \notin gone}
  <2>1. /\ Picked(plain, I) \in Seq(1..Len(tree))
        /\ \A k \in 1..Len(Picked(plain, I)) :
             \E i \in 1..Len(plain) : i \in I /\ Picked(plain, I)[k] = plain[i]
    <3> HIDE DEF I
    <3> QED
      BY <1>3, PickedFrom
  <2> HIDE DEF plain
  <2> QED
    BY <2>1
<1>5. \A k \in 1..Len(seen) : /\ seen[k] \in 1..Len(tree) /\ tree[seen[k]].kind = "file"
                              /\ << seen[k], 1 >> \notin gone
  <2> HIDE DEF plain, seen
  <2> SUFFICES ASSUME NEW k \in 1..Len(seen)
               PROVE  /\ seen[k] \in 1..Len(tree) /\ tree[seen[k]].kind = "file"
                      /\ << seen[k], 1 >> \notin gone
    OBVIOUS
  <2>1. PICK i \in 1..Len(plain) : << plain[i], 1 >> \notin gone /\ seen[k] = plain[i]
    BY <1>4
  <2>2. plain[i] \in 1..Len(tree) /\ tree[plain[i]].kind = "file"
    BY <1>3
  <2> QED
    BY <2>1, <2>2
<1>6. Len(seen) \in Nat
  BY <1>4
<1> HIDE DEF plain, seen
<1>7. ASSUME NEW k \in 1..Len(seen)
      PROVE  /\ listed[k] \in [entry : 1..Len(tree), size : Nat]
             /\ tree[listed[k].entry].kind = "file" /\ Between(listed[k].entry, listed[k].size)
  <2> DEFINE e == seen[k]
  <2>1. e \in 1..Len(tree) /\ tree[e].kind = "file" /\ << e, 1 >> \notin gone
    BY <1>5
  <2>2. listed[k] = [entry |-> e, size |-> SizeNow(e, 1)]
    OBVIOUS
  <2> HIDE DEF e, listed
  <2>3. /\ tree[e].sizes \in Seq(Nat) /\ Len(tree[e].sizes) = 1
        /\ SizeNow(e, 1) \in Nat /\ SizeNow(e, 1) = tree[e].sizes[1]
    <3>1. tree[e].sizes \in Seq(Nat) /\ Len(tree[e].sizes) = 1
      BY <1>2, <2>1, SizesType
    <3>2. 1 \in 1..Len(tree[e].sizes)
      BY <3>1
    <3>3. SizeNow(e, 1) \in Nat
      BY <1>2, <2>1, <3>2, SizesType
    <3> QED
      BY <2>1, <3>1, <3>3 DEF SizeNow
  <2>4. Total(tree[e].sizes) = SizeNow(e, 1)
    <3> DEFINE z == tree[e].sizes
    <3>1. z \in Seq(Nat) /\ Len(z) = 1 /\ 0 \in Nat /\ 0 < Len(z) /\ 0 + 1 = 1
      BY <2>3
    <3> HIDE DEF z
    <3>2. Total(SubSeq(z, 1, 0 + 1)) = Total(SubSeq(z, 1, 0)) + z[0 + 1]
      BY <3>1, TotalSubSeq
    <3>3. SubSeq(z, 1, 1) = z
      BY <3>1, SubSeqFull
    <3>4. SubSeq(z, 1, 0) = << >>
      BY <3>1
    <3>5. Total(z) = 0 + z[1]
      BY <3>1, <3>2, <3>3, <3>4, TotalEmpty
    <3>6. z[1] \in Nat
      BY <3>1
    <3>7. Total(z) = z[1]
      BY <3>5, <3>6
    <3> QED
      BY <2>3, <3>7 DEF z
  <2>5. Seen(e, 1) = SizeNow(e, 1)
    <3>1. 0 \in 0..Len(tree[e].sizes) /\ 0 \in Nat /\ 0 < Len(tree[e].sizes) /\ 0 + 1 = 1
      BY <2>3
    <3>2. Seen(e, 0) = 0
      <4>1. [i \in 1..0 |-> SizeNow(e, i)] \in Seq(Nat) /\ Len([i \in 1..0 |-> SizeNow(e, i)]) = 0
        BY <1>2, <2>1, <3>1, SeenType
      <4> DEFINE none == [i \in 1..0 |-> SizeNow(e, i)]
      <4>2. none = << >>
        <5> HIDE DEF none
        <5>1. none \in Seq(Nat) /\ Len(none) = 0
          BY <4>1 DEF none
        <5> QED
          BY <5>1
      <4> QED
        BY <4>2, TotalEmpty DEF Seen
    <3>3. Seen(e, 0 + 1) = Seen(e, 0) + SizeNow(e, 0 + 1)
      BY <1>2, <2>1, <3>1, SeenOneMore
    <3>4. Seen(e, 1) = 0 + SizeNow(e, 1)
      BY <3>1, <3>2, <3>3
    <3> QED
      BY <2>3, <3>4
  <2>6. Between(e, SizeNow(e, 1))
    <3>1. ToTheEnd(e) = Seen(e, 1) /\ AtFirst(e) = Total(tree[e].sizes)
      BY <2>3 DEF ToTheEnd, AtFirst, Seen
    <3> QED
      BY <2>3, <2>4, <2>5, <3>1 DEF Between
  <2> QED
    BY <2>1, <2>2, <2>3, <2>6
<1>8. listed \in Seq([entry : 1..Len(tree), size : Nat]) /\ Len(listed) = Len(seen)
  <2>1. listed = [k \in 1..Len(seen) |-> listed[k]]
    OBVIOUS
  <2>2. \A k \in 1..Len(seen) : listed[k] \in [entry : 1..Len(tree), size : Nat]
    BY <1>7
  <2> HIDE DEF listed
  <2>3. [k \in 1..Len(seen) |-> listed[k]] \in Seq([entry : 1..Len(tree), size : Nat])
    BY <1>6, <2>2
  <2> QED
    BY <1>6, <2>1, <2>3
<1> HIDE DEF listed
<1>9. DiskTypeOK'
  BY <1>1, <1>2, <1>3, <1>8 DEF DiskTypeOK
<1>10. Walking'
  <2>1. /\ \A i \in 1..Len(dirs') : tree[dirs'[i]].kind = "dir"
        /\ \A i, j \in 1..Len(dirs') : dirs'[i] = dirs'[j] => i = j
    BY <1>1, <1>3
  <2>2. \A k \in 1..Len(files') : tree[files'[k].entry].kind = "file"
                                 /\ Between(files'[k].entry, files'[k].size)
    BY <1>1, <1>7, <1>8
  <2>3. \A e, n : Between(e, n)' <=> Between(e, n)
    BY <1>1 DEF Between, ToTheEnd, AtFirst, SizeNow
  <2>4. \A e, n : Seen(e, n)' = Seen(e, n)
    BY <1>1 DEF Seen, SizeNow
  <2> QED
    BY <1>1, <1>2, <2>1, <2>2, <2>3, <2>4 DEF Walking
<1>11. RowsRight' /\ NamesFill' /\ FiguresReadBack'
  <2>1. rows' = << >> /\ 1..Len(<< >>) = {}
    BY <1>1, <1>2
  <2> QED
    BY <2>1 DEF RowsRight, NamesFill, FiguresReadBack
<1> QED
  BY <1>9, <1>10, <1>11 DEF DiskInv

LEMMA WalkStep ==
    ASSUME DiskInv, NEW d \in 1..Len(tree), WalkFile(d)
    PROVE  DiskInv'
<1> DEFINE w == walked[d]
           z == tree[d].sizes
<1>1. /\ pc = "walk" /\ pc' = "walk" /\ w < Len(z)
      /\ walked' = [walked EXCEPT ![d] = w + 1]
      /\ sum' = [sum EXCEPT ![d] = sum[d] + SizeNow(d, w + 1)]
      /\ UNCHANGED <<tree, gone, dirs, files, rows>>
  BY DEF WalkFile
<1>2. DiskTypeOK /\ Walking /\ rows = << >>
  BY <1>1 DEF DiskInv, Walking
<1>3. /\ walked \in [1..Len(tree) -> Nat] /\ sum \in [1..Len(tree) -> Nat]
      /\ w \in Nat /\ sum[d] \in Nat
  BY <1>2 DEF DiskTypeOK
<1>4. z \in Seq(Nat) /\ Len(z) \in Nat /\ w + 1 \in 1..Len(z) /\ w \in 0..Len(z)
  BY <1>1, <1>2, <1>3, SizesType
<1>5. SizeNow(d, w + 1) \in Nat /\ SizeNow(d, w + 1) <= z[w + 1] /\ z[w + 1] \in Nat
  <2>1. z[w + 1] \in Nat
    BY <1>4
  <2> QED
    BY <1>2, <1>4, <2>1, SizesType
<1>6. /\ walked' \in [1..Len(tree) -> Nat] /\ sum' \in [1..Len(tree) -> Nat]
      /\ walked'[d] = w + 1 /\ sum'[d] = sum[d] + SizeNow(d, w + 1)
      /\ \A e \in 1..Len(tree) : e # d => walked'[e] = walked[e] /\ sum'[e] = sum[e]
  BY <1>1, <1>3, <1>5
<1>7. DiskTypeOK'
  BY <1>1, <1>2, <1>6 DEF DiskTypeOK
<1>8. \A e, n : Seen(e, n)' = Seen(e, n)
  BY <1>1 DEF Seen, SizeNow
<1>9. /\ Total(SubSeq(z, 1, w + 1)) = Total(SubSeq(z, 1, w)) + z[w + 1]
      /\ Total(SubSeq(z, 1, w)) \in Nat
  <2>1. SubSeq(z, 1, w) \in Seq(Nat)
    <3>1. w \in Nat /\ w <= Len(z)
      BY <1>3, <1>4
    <3> HIDE DEF z, w
    <3> QED
      BY <1>4, <3>1, PrefixType
  <2> HIDE DEF z, w
  <2> QED
    BY <1>1, <1>3, <1>4, <2>1, TotalSubSeq, TotalType
<1>10. Seen(d, w + 1) = Seen(d, w) + SizeNow(d, w + 1) /\ Seen(d, w) \in Nat
  BY <1>1, <1>2, <1>3, <1>4, SeenOneMore, SeenType
<1>11. sum[d] <= Total(SubSeq(z, 1, w)) /\ Seen(d, w) <= sum[d]
  BY <1>2 DEF Walking
<1>12. sum'[d] <= Total(SubSeq(z, 1, w + 1)) /\ Seen(d, w + 1) <= sum'[d]
  <2> HIDE DEF z, w
  <2> QED
    BY <1>3, <1>5, <1>6, <1>9, <1>10, <1>11
<1>13. ASSUME NEW e \in 1..Len(tree)
       PROVE  /\ walked'[e] <= Len(tree[e].sizes)
              /\ sum'[e] <= Total(SubSeq(tree[e].sizes, 1, walked'[e]))
              /\ Seen(e, walked'[e]) <= sum'[e]
  <2>1. CASE e = d
    BY <1>4, <1>6, <1>12, <2>1
  <2>2. CASE e # d
    BY <1>2, <1>6, <2>2 DEF Walking
  <2> QED
    BY <2>1, <2>2
<1>14. \A e, n : Between(e, n)' <=> Between(e, n)
  BY <1>1 DEF Between, ToTheEnd, AtFirst, SizeNow
<1>15. Walking'
  <2>1. \A e \in 1..Len(tree) : Seen(e, walked[e])' = Seen(e, walked'[e])
    BY <1>1 DEF Seen, SizeNow
  <2> QED
    BY <1>1, <1>2, <1>13, <1>14, <2>1 DEF Walking
<1>16. RowsRight' /\ NamesFill' /\ FiguresReadBack'
  <2>1. rows' = << >> /\ 1..Len(<< >>) = {}
    BY <1>1, <1>2
  <2> QED
    BY <2>1 DEF RowsRight, NamesFill, FiguresReadBack
<1> QED
  BY <1>7, <1>15, <1>16 DEF DiskInv

LEMMA DeletedStep ==
    ASSUME DiskInv, NEW f \in 1..Len(tree), NEW n \in 1..Len(tree[f].sizes), FileDeleted(f, n)
    PROVE  DiskInv'
<1>1. /\ pc \in {"enumerate", "walk"} /\ pc' = pc /\ gone \subseteq gone'
      /\ UNCHANGED <<tree, dirs, files, walked, sum, rows>>
  BY DEF FileDeleted
<1>2. DiskTypeOK /\ Walking /\ rows = << >>
  BY <1>1 DEF DiskInv, Walking
<1>3. DiskTypeOK'
  BY <1>1, <1>2 DEF DiskTypeOK
<1>4. ASSUME NEW e \in 1..Len(tree), NEW b \in Nat, Between(e, b) PROVE Between(e, b)'
  <2>1. Len(tree[e].sizes) \in 0..Len(tree[e].sizes)
    BY <1>2, SizesType
  <2>2. /\ Seen(e, Len(tree[e].sizes))' <= Seen(e, Len(tree[e].sizes))
        /\ Seen(e, Len(tree[e].sizes))' \in Nat /\ Seen(e, Len(tree[e].sizes)) \in Nat
    <3>1. \A k \in 0..Len(tree[e].sizes) : Seen(e, k)' <= Seen(e, k) /\ Seen(e, k)' \in Nat /\ Seen(e, k) \in Nat
      BY <1>1, <1>2, SeenShrinks, SeenType
    <3>2. Seen(e, Len(tree[e].sizes))' = Total([k \in 1..Len(tree[e].sizes) |-> SizeNow(e, k)'])
      BY <1>1 DEF Seen
    <3>3. \A k \in 0..Len(tree[e].sizes) : Seen(e, k)' = Total([i \in 1..k |-> SizeNow(e, i)'])
      BY DEF Seen
    <3> QED
      BY <2>1, <3>1, <3>2, <3>3
  <2>3. ToTheEnd(e) = Seen(e, Len(tree[e].sizes)) /\ ToTheEnd(e)' = Seen(e, Len(tree[e].sizes))'
    BY DEF ToTheEnd, Seen
  <2>4. AtFirst(e)' = AtFirst(e)
    BY <1>1 DEF AtFirst
  <2> QED
    BY <1>4, <2>2, <2>3, <2>4 DEF Between
<1>5. ASSUME NEW e \in 1..Len(tree) PROVE Seen(e, walked[e])' <= sum[e]
  <2>1. walked[e] \in 0..Len(tree[e].sizes) /\ sum[e] \in Nat /\ Seen(e, walked[e]) <= sum[e]
    <3>1. walked[e] \in Nat /\ sum[e] \in Nat /\ Len(tree[e].sizes) \in Nat
      BY <1>2, SizesType DEF DiskTypeOK
    <3> QED
      BY <1>2, <3>1 DEF Walking
  <2>2. \A k \in 0..Len(tree[e].sizes) : Seen(e, k)' <= Seen(e, k) /\ Seen(e, k)' \in Nat /\ Seen(e, k) \in Nat
    BY <1>1, <1>2, SeenShrinks, SeenType
  <2>3. \A k \in 0..Len(tree[e].sizes) : Seen(e, k)' = Total([i \in 1..k |-> SizeNow(e, i)'])
    BY DEF Seen
  <2>4. Seen(e, walked[e])' = Total([i \in 1..walked[e] |-> SizeNow(e, i)'])
    BY <1>1 DEF Seen
  <2>5. ASSUME NEW k \in 0..Len(tree[e].sizes), k = walked[e]
        PROVE  Seen(e, walked[e])' <= Seen(e, walked[e]) /\ Seen(e, walked[e])' \in Nat
               /\ Seen(e, walked[e]) \in Nat
    <3>1. Seen(e, k)' = Total([i \in 1..k |-> SizeNow(e, i)'])
      BY <2>3
    <3>2. Seen(e, k)' <= Seen(e, k) /\ Seen(e, k)' \in Nat /\ Seen(e, k) \in Nat
      BY <2>2
    <3>3. Seen(e, walked[e])' = Seen(e, k)'
      BY <2>4, <2>5, <3>1
    <3> QED
      BY <2>5, <3>2, <3>3
  <2> QED
    BY <2>1, <2>5
<1>6. Walking'
  <2>1. \A k \in 1..Len(files) : Between(files[k].entry, files[k].size)'
    <3> SUFFICES ASSUME NEW k \in 1..Len(files) PROVE Between(files[k].entry, files[k].size)'
      OBVIOUS
    <3>1. files[k].entry \in 1..Len(tree) /\ files[k].size \in Nat
          /\ Between(files[k].entry, files[k].size)
      <4>1. files \in Seq(Item)
        BY <1>2 DEF DiskTypeOK, Item
      <4>2. files[k] \in Item
        BY <4>1
      <4> QED
        BY <1>2, <4>2 DEF Walking, Item
    <3>2. Between(files[k].entry, files[k].size)' <=>
            (\A e, b : e = files[k].entry /\ b = files[k].size => Between(e, b)')
      BY <1>1 DEF Between, ToTheEnd, AtFirst, SizeNow
    <3> QED
      BY <1>4, <3>1, <3>2
  <2> QED
    BY <1>1, <1>2, <1>5, <2>1 DEF Walking
<1>7. RowsRight' /\ NamesFill' /\ FiguresReadBack'
  <2>1. rows' = << >> /\ 1..Len(<< >>) = {}
    BY <1>1, <1>2
  <2> QED
    BY <2>1 DEF RowsRight, NamesFill, FiguresReadBack
<1> QED
  BY <1>3, <1>6, <1>7 DEF DiskInv

LEMMA LayOutStep ==
    ASSUME DiskInv, LayOut
    PROVE  DiskInv'
<1> DEFINE n == Len(dirs)
           m == Len(files)
           sized == [k \in 1..n |-> [entry |-> dirs[k], size |-> sum[dirs[k]]]]
           A == Falling(sized)
           B == Falling(files)
           all == A \o B
<1>1. /\ pc = "walk" /\ pc' = "sorted" /\ \A d \in ToSet(dirs) : walked[d] = Len(tree[d].sizes)
      /\ rows' = [k \in 1..Len(all) |-> Row(all[k])]
      /\ UNCHANGED <<tree, gone, dirs, files, walked, sum>>
  BY DEF LayOut, Goto
<1>2. DiskTypeOK /\ Walking
  BY DEF DiskInv
<1>3. dirs \in Seq(1..Len(tree)) /\ n \in Nat /\ files \in Seq(Item) /\ m \in Nat
  BY <1>2 DEF DiskTypeOK, Item
<1>4. /\ \A i \in 1..n : dirs[i] \in 1..Len(tree) /\ tree[dirs[i]].kind = "dir"
      /\ \A i, j \in 1..n : dirs[i] = dirs[j] => i = j
      /\ \A i \in 1..n : sum[dirs[i]] \in Nat /\ Between(dirs[i], sum[dirs[i]])
  <2>1. /\ \A i \in 1..n : dirs[i] \in 1..Len(tree) /\ tree[dirs[i]].kind = "dir"
        /\ \A i, j \in 1..n : dirs[i] = dirs[j] => i = j
    BY <1>2, <1>3 DEF Walking
  <2>2. ASSUME NEW i \in 1..n PROVE sum[dirs[i]] \in Nat /\ Between(dirs[i], sum[dirs[i]])
    <3>1. dirs[i] \in ToSet(dirs)
      BY <1>3 DEF ToSet
    <3>2. walked[dirs[i]] = Len(tree[dirs[i]].sizes)
      BY <1>1, <3>1
    <3>3. sum[dirs[i]] \in Nat
      BY <1>2, <2>1 DEF DiskTypeOK
    <3> QED
      BY <1>2, <2>1, <3>2, <3>3, WalkedThrough
  <2> QED
    BY <2>1, <2>2
<1>5. \A k \in 1..m : /\ files[k] \in Item /\ files[k].size \in Nat
                      /\ tree[files[k].entry].kind = "file" /\ Between(files[k].entry, files[k].size)
  <2>1. \A k \in 1..m : files[k] \in Item
    BY <1>3
  <2> QED
    BY <1>2, <2>1 DEF Walking, Item
<1>6. /\ sized \in Seq(Item) /\ Len(sized) = n
      /\ \A k \in 1..n : sized[k].entry = dirs[k] /\ sized[k].size = sum[dirs[k]] /\ sized[k].size \in Nat
  <2>1. \A k \in 1..n : /\ [entry |-> dirs[k], size |-> sum[dirs[k]]] \in Item
    BY <1>4 DEF Item
  <2>2. sized \in Seq(Item) /\ Len(sized) = n
    BY <1>3, <2>1
  <2>3. \A k \in 1..n : sized[k].entry = dirs[k] /\ sized[k].size = sum[dirs[k]]
    OBVIOUS
  <2> QED
    BY <1>4, <2>2, <2>3
<1> HIDE DEF sized
<1>7. PICK p : Sorting(sized, p)
  BY <1>6, FallingSorts
<1>8. PICK q : Sorting(files, q)
  BY <1>3, <1>5, FallingSorts
<1>9. /\ p \in [1..n -> 1..n] /\ A = [r \in 1..n |-> sized[p[r]]]
      /\ \A i, j \in 1..n : p[i] = p[j] => i = j
      /\ \A k \in 1..n : \E r \in 1..n : p[r] = k
      /\ \A i, j \in 1..n : i < j => sized[p[i]].size >= sized[p[j]].size
  BY <1>6, <1>7 DEF Sorting
<1>10. /\ q \in [1..m -> 1..m] /\ B = [r \in 1..m |-> files[q[r]]]
       /\ \A i, j \in 1..m : i < j => files[q[i]].size >= files[q[j]].size
  BY <1>8 DEF Sorting
<1>11. A \in Seq(Item) /\ Len(A) = n /\ \A k \in 1..n : A[k] = sized[p[k]]
  <2>1. \A k \in 1..n : sized[p[k]] \in Item
    <3>1. \A k \in 1..n : p[k] \in 1..n
      BY <1>9
    <3>2. \A k \in 1..n : sized[k] \in Item
      BY <1>6
    <3> QED
      BY <3>1, <3>2
  <2> HIDE DEF A
  <2> QED
    BY <1>3, <1>9, <2>1
<1>12. B \in Seq(Item) /\ Len(B) = m /\ \A k \in 1..m : B[k] = files[q[k]]
  <2>1. \A k \in 1..m : files[q[k]] \in Item
    BY <1>5, <1>10
  <2> HIDE DEF B
  <2> QED
    BY <1>3, <1>10, <2>1
<1> HIDE DEF A, B
<1>13. /\ all \in Seq(Item) /\ Len(all) = n + m
       /\ \A k \in 1..n : all[k] = A[k]
       /\ \A k \in 1..(n+m) : k > n => k - n \in 1..m /\ all[k] = B[k - n]
  <2>1. A \in Seq(Item) /\ Len(A) = n /\ B \in Seq(Item) /\ Len(B) = m
    BY <1>11, <1>12
  <2>2. n \in Nat /\ m \in Nat
    BY <1>3
  <2> HIDE DEF n, m
  <2>3. all \in Seq(Item)
    BY <2>1
  <2>4. Len(all) = n + m
    BY <2>1
  <2>5. ASSUME NEW k \in 1..n PROVE all[k] = A[k]
    BY <2>1, <2>2, <2>5
  <2>6. ASSUME NEW k \in 1..(n+m), k > n PROVE k - n \in 1..m /\ all[k] = B[k - n]
    <3>1. k - n \in 1..m
      BY <2>2, <2>6
    <3>2. all[k] = B[k - n]
      BY <2>1, <2>2, <2>6
    <3> QED
      BY <3>1, <3>2
  <2> QED
    BY <2>3, <2>4, <2>5, <2>6
<1> HIDE DEF all
<1>14. ASSUME NEW k \in 1..(n+m)
       PROVE  /\ all[k] \in Item
              /\ rows'[k] = [entry |-> all[k].entry, size |-> all[k].size,
                             name |-> Displayed(tree[all[k].entry].name)]
              /\ all[k].entry \in 1..Len(tree) /\ all[k].size \in Nat
  <2>1. all[k] \in Item
    BY <1>3, <1>13
  <2> QED
    BY <1>1, <1>13, <2>1 DEF Row, Item
<1>15. /\ \A k \in 1..(n+m) : /\ rows'[k].entry = all[k].entry /\ rows'[k].size = all[k].size
                              /\ rows'[k].name = Displayed(tree[all[k].entry].name)
       /\ DOMAIN rows' = 1..(n+m) /\ rows' = [k \in 1..(n+m) |-> rows'[k]]
  <2>1. DOMAIN rows' = 1..(n+m) /\ rows' = [k \in 1..(n+m) |-> rows'[k]]
    BY <1>1, <1>13
  <2> QED
    BY <1>14, <2>1
<1>16. /\ rows' \in Seq([entry : 1..Len(tree), size : Nat, name : Seq({1, 2})])
       /\ Len(rows') = n + m
  <2>1. \A k \in 1..(n+m) : rows'[k] \in [entry : 1..Len(tree), size : Nat, name : Seq({1, 2})]
    <3> SUFFICES ASSUME NEW k \in 1..(n+m)
                 PROVE  rows'[k] \in [entry : 1..Len(tree), size : Nat, name : Seq({1, 2})]
      OBVIOUS
    <3>1. tree[all[k].entry].name \in Seq({1, 2})
      BY <1>2, <1>14, SizesType
    <3> DEFINE a == all[k].entry
               b == all[k].size
               c == Displayed(tree[all[k].entry].name)
    <3>2. a \in 1..Len(tree) /\ b \in Nat /\ c \in Seq({1, 2})
      BY <1>14, <3>1, DisplayedFills
    <3>3. rows'[k] = [entry |-> a, size |-> b, name |-> c]
      BY <1>14
    <3> HIDE DEF a, b, c
    <3> QED
      BY <3>2, <3>3
  <2> DEFINE N == n + m
             R == [entry : 1..Len(tree), size : Nat, name : Seq({1, 2})]
  <2>2. N \in Nat /\ (\A k \in 1..N : rows'[k] \in R) /\ rows' = [k \in 1..N |-> rows'[k]]
    BY <1>3, <1>15, <2>1
  <2> HIDE DEF N, R
  <2>3. [k \in 1..N |-> rows'[k]] \in Seq(R) /\ Len([k \in 1..N |-> rows'[k]]) = N
    BY <2>2
  <2>4. rows' \in Seq(R) /\ Len(rows') = N
    BY <2>2, <2>3
  <2> QED
    BY <2>4 DEF N, R
<1>17. DiskTypeOK'
  BY <1>1, <1>2, <1>16 DEF DiskTypeOK
<1>18. (\A e, b : Between(e, b)' <=> Between(e, b)) /\ (\A e, b : Seen(e, b)' = Seen(e, b))
  BY <1>1 DEF Between, ToTheEnd, AtFirst, Seen, SizeNow
<1>19. Walking'
  <2>1. \A e \in 1..Len(tree) : Seen(e, walked[e])' = Seen(e, walked[e])
    BY <1>1 DEF Seen, SizeNow
  <2>2. \A k \in 1..Len(files) : Between(files[k].entry, files[k].size)'
    <3>1. \A k \in 1..Len(files) : Between(files[k].entry, files[k].size)' <=> Between(files[k].entry, files[k].size)
      BY <1>1 DEF Between, ToTheEnd, AtFirst, SizeNow
    <3> QED
      BY <1>5, <3>1
  <2> QED
    BY <1>1, <1>2, <2>1, <2>2 DEF Walking
<1>20. ASSUME NEW k \in 1..n
       PROVE  /\ p[k] \in 1..n /\ rows'[k].entry = dirs[p[k]] /\ rows'[k].size = sized[p[k]].size
              /\ tree[rows'[k].entry].kind = "dir" /\ Between(rows'[k].entry, rows'[k].size)
  <2>1. k \in 1..(n+m) /\ p[k] \in 1..n
    <3>1. p[k] \in 1..n
      BY <1>9
    <3> QED
      BY <1>3, <3>1
  <2>2. all[k] = sized[p[k]]
    BY <1>11, <1>13
  <2>3. rows'[k].entry = dirs[p[k]] /\ rows'[k].size = sized[p[k]].size /\ rows'[k].size = sum[dirs[p[k]]]
    BY <1>6, <1>15, <2>1, <2>2
  <2> QED
    BY <1>4, <2>1, <2>3
<1>21. ASSUME NEW k \in 1..(n+m), k > n
       PROVE  /\ k - n \in 1..m /\ q[k-n] \in 1..m
              /\ rows'[k].entry = files[q[k-n]].entry /\ rows'[k].size = files[q[k-n]].size
              /\ tree[rows'[k].entry].kind = "file" /\ Between(rows'[k].entry, rows'[k].size)
  <2>1. k - n \in 1..m /\ all[k] = B[k - n]
    BY <1>13, <1>21
  <2>2. q[k-n] \in 1..m /\ all[k] = files[q[k-n]]
    BY <1>10, <1>12, <2>1
  <2> QED
    BY <1>5, <1>15, <2>1, <2>2
<1>22. \A k \in 1..(n+m) : k \in 1..n \/ k > n
  BY <1>3
<1>23. ASSUME NEW d \in ToSet(dirs)
       PROVE  Cardinality({k \in 1..(n+m) : rows'[k].entry = d}) = 1
  <2>1. PICK i \in 1..n : d = dirs[i]
    BY <1>3 DEF ToSet
  <2>2. PICK r \in 1..n : p[r] = i
    BY <1>9
  <2>3. r \in 1..(n+m) /\ rows'[r].entry = d
    BY <1>3, <1>20, <2>1, <2>2
  <2>4. ASSUME NEW k \in 1..(n+m), rows'[k].entry = d PROVE k = r
    <3>1. CASE k \in 1..n
      <4>1. p[k] \in 1..n /\ dirs[p[k]] = dirs[i]
        BY <1>20, <2>1, <2>4, <3>1
      <4>2. p[k] = p[r]
        BY <1>4, <2>2, <4>1
      <4> QED
        BY <1>9, <3>1, <4>2
    <3>2. CASE k > n
      <4>1. tree[d].kind = "file" /\ tree[d].kind = "dir"
        BY <1>4, <1>21, <2>1, <2>4, <3>2
      <4> QED
        BY <4>1
    <3> QED
      BY <1>22, <3>1, <3>2
  <2>5. {k \in 1..(n+m) : rows'[k].entry = d} = {r}
    BY <2>3, <2>4
  <2> QED
    BY <2>5, FS_Singleton
<1>24. ASSUME NEW j \in 1..(n+m), NEW k \in 1..(n+m), j < k
       PROVE  \/ tree[rows'[j].entry].kind = "dir" /\ tree[rows'[k].entry].kind = "file"
              \/ /\ tree[rows'[j].entry].kind = tree[rows'[k].entry].kind
                 /\ rows'[j].size >= rows'[k].size
  <2>1. CASE j \in 1..n /\ k \in 1..n
    <3>1. sized[p[j]].size >= sized[p[k]].size
      BY <1>9, <1>24, <2>1
    <3> QED
      BY <1>20, <2>1, <3>1
  <2>2. CASE j \in 1..n /\ k > n
    BY <1>20, <1>21, <2>2
  <2>3. CASE j > n /\ k > n
    <3>1. j - n < k - n
      BY <1>3, <1>24
    <3>2. j - n \in 1..m /\ k - n \in 1..m
      BY <1>21, <2>3
    <3>3. files[q[j-n]].size >= files[q[k-n]].size
      BY <1>10, <3>1, <3>2
    <3> QED
      BY <1>21, <2>3, <3>3
  <2>4. ~(j > n /\ k \in 1..n)
    BY <1>3, <1>24
  <2> QED
    BY <1>22, <2>1, <2>2, <2>3, <2>4
<1>25. RowsRight'
  <2>1. \A k \in 1..(n+m) : Between(rows'[k].entry, rows'[k].size)
    BY <1>20, <1>21, <1>22
  <2>2. \A k \in 1..(n+m) : /\ ToTheEnd(rows[k].entry)' <= rows'[k].size
                            /\ rows'[k].size <= AtFirst(rows[k].entry)'
    <3>1. \A k \in 1..(n+m) : /\ ToTheEnd(rows[k].entry)' = ToTheEnd(rows'[k].entry)
                              /\ AtFirst(rows[k].entry)' = AtFirst(rows'[k].entry)
      BY <1>1 DEF ToTheEnd, AtFirst, SizeNow
    <3> QED
      BY <2>1, <3>1 DEF Between
  <2>3. tree' = tree /\ dirs' = dirs /\ Len(rows') = n + m
    BY <1>1, <1>16
  <2> QED
    BY <1>23, <1>24, <2>2, <2>3 DEF RowsRight
<1>26. NamesFill'
  <2>1. ASSUME NEW k \in 1..(n+m)
        PROVE  LET name == tree[rows'[k].entry].name
                   room == Max({i \in 0..Len(name) : Columns(name, i) + 3 <= NameWidth})
               IN  rows'[k].name = IF Width(name) <= NameWidth THEN name
                                   ELSE SubSeq(name, 1, room) \o << 1, 1, 1 >>
    <3> DEFINE name == tree[rows'[k].entry].name
    <3>1. name \in Seq({1, 2}) /\ rows'[k].name = Displayed(name)
      BY <1>2, <1>14, <1>15, SizesType
    <3> HIDE DEF name
    <3>2. rows'[k].name = IF Width(name) <= NameWidth THEN name
                ELSE SubSeq(name, 1, Max({i \in 0..Len(name) : Columns(name, i) + 3 <= NameWidth}))
                       \o << 1, 1, 1 >>
      BY <3>1, DisplayedFills
    <3> QED
      BY <3>2 DEF name
  <2>2. tree' = tree /\ Len(rows') = n + m
    BY <1>1, <1>16
  <2> HIDE DEF n, m
  <2> QED
    BY <2>1, <2>2 DEF NamesFill, Columns, Width
<1>27. FiguresReadBack'
  <2>1. \A k \in 1..(n+m) : rows'[k].size \in Nat
    BY <1>14, <1>15
  <2> QED
    BY <1>16, <2>1, FigureReadsBack DEF FiguresReadBack
<1> QED
  BY <1>17, <1>19, <1>25, <1>26, <1>27 DEF DiskInv

LEMMA DiskQuiet ==
    ASSUME DiskInv, UNCHANGED diskVars,
           pc' = pc \/ rows = << >> \/ pc' \in {"done", "exited"}
    PROVE  DiskInv'
<1>1. UNCHANGED <<tree, gone, dirs, files, walked, sum, rows>>
  BY DEF diskVars
<1>2. DiskTypeOK'
  BY <1>1 DEF DiskInv, DiskTypeOK
<1>3. Walking'
  <2>1. /\ \A e, b : Between(e, b)' <=> Between(e, b)
        /\ \A k \in 1..Len(files) : Between(files[k].entry, files[k].size)' <=> Between(files[k].entry, files[k].size)
        /\ \A e \in 1..Len(tree) : Seen(e, walked[e])' = Seen(e, walked[e])
    BY <1>1 DEF Between, ToTheEnd, AtFirst, Seen, SizeNow
  <2> QED
    BY <1>1, <2>1 DEF DiskInv, Walking
<1>4. RowsRight' /\ NamesFill' /\ FiguresReadBack'
  <2>1. RowsRight'
    BY <1>1 DEF DiskInv, RowsRight, ToTheEnd, AtFirst, SizeNow
  <2>2. NamesFill'
    BY <1>1 DEF DiskInv, NamesFill
  <2>3. FiguresReadBack'
    BY <1>1 DEF DiskInv, FiguresReadBack
  <2> QED
    BY <2>1, <2>2, <2>3
<1> QED
  BY <1>2, <1>3, <1>4 DEF DiskInv

LEMMA DiskInvStep ==
    ASSUME DiskInv, [DiskNext]_<<diskVars, pc, result>>
    PROVE  DiskInv'
<1>1. CASE Enumerate
  BY <1>1, EnumerateStep
<1>2. CASE DiskFails \/ PrintRows
  <2>1. UNCHANGED diskVars /\ pc' = "done"
    BY <1>2 DEF DiskFails, PrintRows, EndWith
  <2> QED
    BY <2>1, DiskQuiet
<1>3. ASSUME NEW d \in 1..Len(tree), WalkFile(d) PROVE DiskInv'
  BY <1>3, WalkStep
<1>4. CASE LayOut
  BY <1>4, LayOutStep
<1>5. ASSUME NEW e \in 1..Len(tree), NEW k \in 1..Len(tree[e].sizes), FileDeleted(e, k)
      PROVE  DiskInv'
  BY <1>5, DeletedStep
<1>6. CASE UNCHANGED <<diskVars, pc, result>>
  <2>1. UNCHANGED diskVars /\ pc' = pc
    BY <1>6
  <2> QED
    BY <2>1, DiskQuiet
<1> QED
  BY <1>1, <1>2, <1>3, <1>4, <1>5, <1>6 DEF DiskNext

LEMMA DiskInvInit ==
    ASSUME NEW trees, trees \subseteq Trees, DiskInit(trees)
    PROVE  DiskInv
<1>1. /\ tree \in Trees /\ tree \in Seq(Entry) /\ Len(tree) \in Nat /\ gone = {}
      /\ dirs = << >> /\ files = << >> /\ rows = << >>
      /\ walked = [e \in 1..Len(tree) |-> 0] /\ sum = [e \in 1..Len(tree) |-> 0]
  BY DiskAssumption DEF DiskInit
<1>2. << >> \in Seq(1..Len(tree)) /\ << >> \in Seq([entry : 1..Len(tree), size : Nat])
      /\ << >> \in Seq([entry : 1..Len(tree), size : Nat, name : Seq({1, 2})])
      /\ Len(<< >>) = 0 /\ 1..0 = {}
  OBVIOUS
<1>3. DiskTypeOK
  BY <1>1, <1>2 DEF DiskTypeOK
<1>4. ASSUME NEW e \in 1..Len(tree)
      PROVE  /\ walked[e] <= Len(tree[e].sizes)
             /\ sum[e] <= Total(SubSeq(tree[e].sizes, 1, walked[e]))
             /\ Seen(e, walked[e]) <= sum[e]
  <2>1. walked[e] = 0 /\ sum[e] = 0 /\ tree[e].sizes \in Seq(Nat) /\ Len(tree[e].sizes) \in Nat
    BY <1>1, <1>3, SizesType
  <2>2. SubSeq(tree[e].sizes, 1, 0) = << >>
    BY <2>1
  <2>3. Seen(e, 0) = 0
    <3> DEFINE none == [i \in 1..0 |-> SizeNow(e, i)]
    <3>1. 0 \in 0..Len(tree[e].sizes)
      BY <2>1
    <3>2. none \in Seq(Nat) /\ Len(none) = 0
      BY <1>3, <3>1, SeenType
    <3> HIDE DEF none
    <3>3. none = << >>
      BY <3>2
    <3> QED
      BY <3>3, TotalEmpty DEF none, Seen
  <2>4. Total(SubSeq(tree[e].sizes, 1, 0)) = 0
    BY <2>2, TotalEmpty
  <2>5. 0 <= Len(tree[e].sizes) /\ 0 <= 0
    BY <2>1
  <2> QED
    BY <2>1, <2>3, <2>4, <2>5
<1>5. Walking
  BY <1>1, <1>2, <1>4 DEF Walking
<1>6. RowsRight /\ NamesFill /\ FiguresReadBack
  BY <1>1, <1>2 DEF RowsRight, NamesFill, FiguresReadBack
<1> QED
  BY <1>3, <1>5, <1>6 DEF DiskInv

\* What disk lists: every directory once, with a size it had at some moment, in
\* the right order, in a column of one width and in figures that read back: for
\* any tree, and any files deleted while it is walked.
THEOREM ListingAlwaysRight ==
    DiskSpec => [](DiskTypeOK /\ RowsRight /\ NamesFill /\ FiguresReadBack)
<1>1. pc = "enumerate" /\ result = "none" /\ DiskInit(Trees) => DiskInv
  BY DiskInvInit
<1>2. DiskInv => DiskTypeOK /\ RowsRight /\ NamesFill /\ FiguresReadBack
  BY DEF DiskInv
<1> QED
  BY <1>1, <1>2, DiskInvStep, PTL DEF DiskSpec
=============================================================================
