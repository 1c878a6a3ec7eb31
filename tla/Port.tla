-------------------------------- MODULE Port --------------------------------
(***************************************************************************)
(* rcurl port [number] [--kill] (port/handler.rs): list the open ports,    *)
(* tell which process has one, or kill it.  The sockets are scanned once;  *)
(* the process is looked up by its pid later, and signalled later still,   *)
(* while the other processes of the machine come and go.                   *)
(*                                                                         *)
(* A process is its pid and the number of processes that had that pid      *)
(* before and with it.  netstat2, sysinfo and the kernel are external.     *)
(***************************************************************************)
EXTENDS Naturals, Sequences, SequencesExt, Lists, Task

CONSTANTS
    PortJobs,  \* the command lines of interest
    Pids,      \* process identifiers; 0, which stands for unknown, is not one
    MaxBirths, \* bound: how many processes one pid serves in a run
    Tables     \* what the socket table may look like when the command begins

\* One row of the table.  pids are the processes that hold the socket, as far
\* as the user may see them, in the order in which they are reported.
Sockets ==
    [proto : {"tcp", "udp"}, port : Nat, remote : Nat, listen : BOOLEAN, pids : Seq(Pids)]

ASSUME PortAssumption ==
    /\ Pids \subseteq Nat \ {0}
    /\ MaxBirths \in Nat \ {0}
    /\ Tables \subseteq Seq(Sockets) /\ Tables # {}
    /\ PortJobs # {}
    /\ \A j \in PortJobs : j.kind \in {"list", "find", "kill"} /\ j.port \in Nat

VARIABLES
    job,     \* the command line
    sockets, \* the kernel's socket table
    born,    \* born[p]: processes that have had the pid p so far
    living,  \* pids that are in use
    entries, \* what get_listening_ports returned: ports and pids
    holders, \* ghost: the processes that served the port when it was holders
    told,    \* what display_port_result or port_kill_command said of the port
    victim   \* ghost: the processes that were sent SIGKILL

portVars == <<job, sockets, born, living, entries, holders, told, victim>>

PortPlaces == {"scan", "found", "describe", "lookup", "signal"}

Messages == {"none", "free", "in use", "no pid", "command shown"}

PortInit(jobs, tables) ==
    /\ job \in jobs
    /\ sockets \in tables
    /\ born = [p \in Pids |-> 1]
    /\ living = Pids
    /\ entries = << >>
    /\ holders = {}
    /\ told = "none"
    /\ victim = {}

-----------------------------------------------------------------------------
(* The scan *)

\* Faulty variant: connected TCP sockets count as listening ones.
ListeningAny(s) == s.port > 0

\* TCP sockets that listen, and every bound UDP socket.
Listening(s) == s.port > 0 /\ (s.proto = "tcp" => s.remote = 0 /\ s.listen)

\* The reference: a socket that takes in connections or datagrams for port n.
Serves(s, n) == s.port = n /\ (s.proto = "udp" \/ s.listen)

FirstPid(s) == IF s.pids = << >> THEN 0 ELSE Head(s.pids)

\* find_pid_by_port: the first entry of the port decides, even if it is one
\* without a pid and a later one has a pid.
EntriesOf(n) == {k \in 1..Len(entries) : entries[k].port = n}

FirstEntry(n) == entries[CHOOSE k \in EntriesOf(n) : \A i \in EntriesOf(n) : k <= i]

\* get_listening_ports.
Scan ==
    /\ pc = "scan"
    /\ LET open == Picked(sockets, {k \in 1..Len(sockets) : Listening(sockets[k])})
       IN  entries' = [k \in 1..Len(open) |-> [port |-> open[k].port, pid |-> FirstPid(open[k])]]
    /\ holders' = UNION {{[pid |-> p, birth |-> born[p]] : p \in ToSet(s.pids)} :
                         s \in {r \in ToSet(sockets) : Serves(r, job.port)}}
    /\ Goto("found")
    /\ UNCHANGED <<job, sockets, born, living, told, victim>>

\* get_sockets_info failed.
ScanFails ==
    /\ pc = "scan"
    /\ EndWith("failed")
    /\ UNCHANGED portVars

\* display_all_ports.
ShowAll ==
    /\ pc = "found"
    /\ job.kind = "list"
    /\ EndWith("ok")
    /\ UNCHANGED portVars

\* "Port is not in use", or in use by a process that is not known.
NothingKnown ==
    /\ pc = "found"
    /\ job.kind # "list"
    /\ \/ /\ EntriesOf(job.port) = {}
          /\ told' = "free"
       \/ /\ EntriesOf(job.port) # {}
          /\ FirstEntry(job.port).pid = 0
          /\ told' = "no pid"
    /\ EndWith("ok")
    /\ UNCHANGED <<job, sockets, born, living, entries, holders, victim>>

\* The pid is announced; what it belongs to is read afterwards.
PidKnown ==
    /\ pc = "found"
    /\ job.kind # "list"
    /\ EntriesOf(job.port) # {}
    /\ FirstEntry(job.port).pid > 0
    /\ told' = "in use"
    /\ Goto(IF job.kind = "kill" THEN "lookup" ELSE "describe")
    /\ UNCHANGED <<job, sockets, born, living, entries, holders, victim>>

Target == FirstEntry(job.port).pid

\* get_process_command: the command of whatever process has the pid by now.
Describe ==
    /\ pc = "describe"
    /\ told' = IF Target \in living THEN "command shown" ELSE told
    /\ EndWith("ok")
    /\ UNCHANGED <<job, sockets, born, living, entries, holders, victim>>

-----------------------------------------------------------------------------
(* --kill *)

\* kill_process refreshes the process list and looks the pid up.
LookUp ==
    /\ pc = "lookup"
    /\ IF Target \in living THEN Goto("signal") ELSE EndWith("failed")
    /\ UNCHANGED portVars

\* A process ends, by itself or by a signal, and its sockets are closed with it.
Buried(p) ==
    /\ living' = living \ {p}
    /\ LET kept == Picked(sockets, {k \in 1..Len(sockets) : sockets[k].pids # << p >>})
           others(s) == Picked(s.pids, {i \in 1..Len(s.pids) : s.pids[i] # p})
       IN  sockets' = [k \in 1..Len(kept) |-> [kept[k] EXCEPT !.pids = others(kept[k])]]

\* process.kill(): SIGKILL goes to the process that has the pid at this moment.
Signal ==
    /\ pc = "signal"
    /\ Target \in living
    /\ victim' = victim \cup {[pid |-> Target, birth |-> born[Target]]}
    /\ Buried(Target)
    /\ EndWith("ok")
    /\ UNCHANGED <<job, born, entries, holders, told>>

\* The process belongs to another user, or has ended since.
SignalFails ==
    /\ pc = "signal"
    /\ EndWith("failed")
    /\ UNCHANGED portVars

-----------------------------------------------------------------------------
(* The rest of the machine *)

PortRunning == pc \in PortPlaces

ProcessEnds(p) ==
    /\ PortRunning
    /\ p \in living
    /\ Buried(p)
    /\ UNCHANGED <<job, born, entries, holders, told, victim, pc, result>>

\* The kernel gives a free pid to a new process, which may open the port.
ProcessStarts(p) ==
    /\ PortRunning
    /\ p \notin living
    /\ born[p] < MaxBirths
    /\ living' = living \cup {p}
    /\ born' = [born EXCEPT ![p] = @ + 1]
    /\ \/ UNCHANGED sockets
       \/ sockets' = Append(sockets, [proto |-> "tcp", port |-> job.port, remote |-> 0,
                                      listen |-> TRUE, pids |-> << p >>])
    /\ UNCHANGED <<job, entries, holders, told, victim, pc, result>>

PortNext ==
    \/ Scan
    \/ ScanFails
    \/ ShowAll
    \/ NothingKnown
    \/ PidKnown
    \/ Describe
    \/ LookUp
    \/ Signal
    \/ SignalFails
    \/ \E p \in Pids : ProcessEnds(p) \/ ProcessStarts(p)

PortSpec ==
    /\ pc = "scan" /\ result = "none" /\ PortInit(PortJobs, Tables)
    /\ [][PortNext]_<<portVars, pc, result>>
-----------------------------------------------------------------------------
(* Properties *)

PortTypeOK ==
    /\ job \in PortJobs
    /\ sockets \in Seq(Sockets)
    /\ born \in [Pids -> 1..MaxBirths]
    /\ living \in SUBSET Pids
    /\ entries \in Seq([port : Nat, pid : Pids \cup {0}])
    /\ holders \in SUBSET [pid : Pids, birth : 1..MaxBirths]
    /\ told \in Messages
    /\ victim \in SUBSET [pid : Pids, birth : 1..MaxBirths]

\* --kill takes one process at most, and one that served the port when it was
\* scanned: not a client that merely has a connection with that local port, and
\* not a bystander.  The exception is the price of looking twice: a process
\* that was given the pid of a server that has ended since.
VictimServedPort ==
    \A v \in victim :
      /\ job.kind = "kill"
      /\ victim = {v}
      /\ \E h \in holders : h.pid = v.pid /\ h.birth <= v.birth
=============================================================================
