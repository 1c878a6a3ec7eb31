--------------------------------- MODULE App ---------------------------------
(***************************************************************************)
(* One rcurl process from main to its end (main.rs and app/run.rs): parse  *)
(* the command line or let the user pick one from the history, install the *)
(* logger, save the command, and hand over to the handler it is for.       *)
(*                                                                         *)
(* The handlers are the modules extended here, and the steps of their      *)
(* environments are steps here.  How a request over http travels is left   *)
(* to HttpTransfer, telnet to Telnet, and the file to History.  A request  *)
(* over https is seen here as its first handshake, the building of it as   *)
(* that of one over http.                                                  *)
(***************************************************************************)
EXTENDS BuildRequest, Tls, Ftp, Ping, Disk, Whois, Port, CommandLine

CONSTANT PastClis \* what earlier invocations may have left in the history

ASSUME AppAssumption == PastClis \subseteq Clis

VARIABLES
    handler,     \* what this run turns out to be for, known from the start here
    interactive, \* no URL and no quick command were given
    logging,     \* the tracing subscriber is installed
    chosen,      \* the command line that the user picks in the menu
    cli,         \* what clap made of it
    saved,       \* save_request has been called
    reported     \* how it ended has been told to the user

appVars == <<handler, interactive, logging, chosen, cli, saved, reported>>

vars == <<appVars, pc, result, buildVars, tlsVars, ftpVars, pingVars, diskVars,
          whoisVars, portVars>>

handlerVars == <<buildVars, tlsVars, ftpVars, pingVars, diskVars, whoisVars, portVars>>

\* "none" is a URL without a scheme or with another one; "ns" and "telnet" run
\* outside of this model.
Handlers == {"http", "https", "ftp", "ping", "disk", "whois", "port", "ns", "telnet", "none"}

AppPlaces == {"start", "menu", "logging", "save", "dispatch", "elsewhere", "done", "exited"}

-----------------------------------------------------------------------------

\* Only the options of the handler that is going to run are of interest, and
\* they do not matter to a run that comes from the menu.
Matters(h, S) == IF handler = h /\ ~interactive THEN S ELSE {CHOOSE x \in S : TRUE}

AppInit ==
    /\ handler \in Handlers
    /\ interactive \in BOOLEAN
    /\ logging = FALSE
    /\ chosen = None
    /\ cli = None
    /\ saved = FALSE
    /\ reported = FALSE
    /\ pc = "start"
    /\ result = "none"
    /\ BuildInit(Matters("http", Payloads), Matters("http", Disks))
    /\ TlsInit(Matters("https", Orders), Matters("https", Servers), Matters("https", 0..Horizon))
    /\ FtpInit(Matters("ftp", FtpOptions))
    /\ PingInit
    /\ DiskInit(Matters("disk", Trees))
    /\ WhoisInit(Matters("whois", Targets), Matters("whois", Answers), Matters("whois", Endings))
    /\ PortInit(Matters("port", PortJobs), Matters("port", Tables))

\* Cli::parse reports what it refuses, and ends the process itself.
UsageError ==
    /\ pc = "start"
    /\ ~interactive
    /\ pc' = "exited"
    /\ result' = "failed"
    /\ reported' = TRUE
    /\ UNCHANGED <<handler, interactive, logging, chosen, cli, saved, handlerVars>>

\* do_request with a command of its own.
CommandGiven ==
    /\ pc = "start"
    /\ ~interactive
    /\ Goto("logging")
    /\ UNCHANGED <<appVars, handlerVars>>

\* interactive_mode without a history, or one that cannot be read: a hint.
NoHistory ==
    /\ pc = "start"
    /\ interactive
    /\ EndWith("ok")
    /\ UNCHANGED <<appVars, handlerVars>>

OpenMenu ==
    /\ pc = "start"
    /\ interactive
    /\ Goto("menu")
    /\ UNCHANGED <<appVars, handlerVars>>

\* The prompt is cancelled, or there is no terminal.
CancelMenu ==
    /\ pc = "menu"
    /\ EndWith("failed")
    /\ UNCHANGED <<appVars, handlerVars>>

\* Which handlers a command line may be for: a URL is any.
HandlersOf(c) ==
    IF c.quick = None THEN {"http", "https", "ftp", "none"}
    ELSE {h \in Handlers : h = c.quick}

\* Faulty variant: a command from the history is run without a logger.
SelectUnlogged(c) ==
    /\ pc = "menu"
    /\ LET again == Reread(Rendered(c))
       IN  /\ again # None
           /\ handler \in HandlersOf(again)
           /\ cli' = again
    /\ chosen' = c
    /\ Goto("save")
    /\ UNCHANGED <<handler, interactive, logging, saved, reported, handlerVars>>

\* The saved line of c is picked, split and parsed.
SelectLine(c) ==
    /\ pc = "menu"
    /\ LET again == Reread(Rendered(c))
       IN  /\ again # None
           /\ handler \in HandlersOf(again)
           /\ cli' = again
    /\ chosen' = c
    /\ Goto("logging")
    /\ UNCHANGED <<handler, interactive, logging, saved, reported, handlerVars>>

\* split or try_parse_from returns an error.
LineRefused(c) ==
    /\ pc = "menu"
    /\ Reread(Rendered(c)) = None
    /\ chosen' = c
    /\ EndWith("failed")
    /\ UNCHANGED <<handler, interactive, logging, cli, saved, reported, handlerVars>>

\* What was picked is of no interest any more: see Matters.
InitLogging ==
    /\ pc = "logging"
    /\ logging' = TRUE
    /\ chosen' = None
    /\ cli' = None
    /\ Goto("save")
    /\ UNCHANGED <<handler, interactive, saved, reported, handlerVars>>

\* command_from_cli and save_request, whose failure costs a warning only.
Save ==
    /\ pc = "save"
    /\ saved' = TRUE
    /\ Goto("dispatch")
    /\ UNCHANGED <<handler, interactive, logging, chosen, cli, reported, handlerVars>>

\* Where the handler begins.
Entrance ==
    CASE handler = "http" -> "build"
      [] handler = "https" -> IF order.show THEN "info" ELSE "roots"
      [] handler = "ftp" -> "connect"
      [] handler = "ping" -> "resolve"
      [] handler = "disk" -> "enumerate"
      [] handler = "whois" -> "dial"
      [] handler = "port" -> "scan"
      [] handler \in {"ns", "telnet"} -> "elsewhere"

\* execute_request: the quick command, or the scheme of the URL, decides.
Dispatch ==
    /\ pc = "dispatch"
    /\ IF handler = "none" THEN EndWith("failed") ELSE Goto(Entrance)
    /\ UNCHANGED <<appVars, handlerVars>>

\* dns_command and telnet_command, which return, with or without an error, or
\* panic.
Elsewhere ==
    /\ pc = "elsewhere"
    /\ EndWith("ok") \/ EndWith("failed") \/ EndWith("panicked")
    /\ UNCHANGED <<appVars, handlerVars>>

\* main: error! is shown by the logger, if there is one.  A panic speaks for
\* itself.
Exit ==
    /\ pc = "done"
    /\ pc' = "exited"
    /\ reported' = (logging \/ result \in {"ok", "panicked"})
    /\ UNCHANGED <<result, handler, interactive, logging, chosen, cli, saved, handlerVars>>

-----------------------------------------------------------------------------

Http ==
    /\ handler = "http" /\ BuildNext
    /\ UNCHANGED <<appVars, tlsVars, ftpVars, pingVars, diskVars, whoisVars, portVars>>

Https ==
    /\ handler = "https" /\ TlsNext
    /\ UNCHANGED <<appVars, buildVars, ftpVars, pingVars, diskVars, whoisVars, portVars>>

FtpRun ==
    /\ handler = "ftp" /\ FtpNext
    /\ UNCHANGED <<appVars, buildVars, tlsVars, pingVars, diskVars, whoisVars, portVars>>

PingRun ==
    /\ handler = "ping" /\ PingNext
    /\ UNCHANGED <<appVars, buildVars, tlsVars, ftpVars, diskVars, whoisVars, portVars>>

DiskRun ==
    /\ handler = "disk" /\ DiskNext
    /\ UNCHANGED <<appVars, buildVars, tlsVars, ftpVars, pingVars, whoisVars, portVars>>

WhoisRun ==
    /\ handler = "whois" /\ WhoisNext
    /\ UNCHANGED <<appVars, buildVars, tlsVars, ftpVars, pingVars, diskVars, portVars>>

PortRun ==
    /\ handler = "port" /\ PortNext
    /\ UNCHANGED <<appVars, buildVars, tlsVars, ftpVars, pingVars, diskVars, whoisVars>>

\* What main_with_error does by itself.
AppStep ==
    \/ UsageError
    \/ CommandGiven
    \/ NoHistory
    \/ OpenMenu
    \/ InitLogging
    \/ Save
    \/ Dispatch
    \/ Exit

AppNext ==
    \/ AppStep
    \/ CancelMenu
    \/ \E c \in PastClis : SelectLine(c) \/ LineRefused(c)
    \/ Elsewhere
    \/ Http
    \/ Https
    \/ FtpRun
    \/ PingRun
    \/ DiskRun
    \/ WhoisRun
    \/ PortRun

AppSpec == AppInit /\ [][AppNext]_vars

-----------------------------------------------------------------------------
(* Liveness *)

WhoisTurn ==
    /\ handler = "whois" /\ WhoisSelf
    /\ UNCHANGED <<appVars, buildVars, tlsVars, ftpVars, pingVars, diskVars, portVars>>

\* The process takes the steps it can take by itself, and calls that return by
\* themselves do so: the probes of ping, the walk of disk, the scan of the sockets
\* and the timers of whois.  The files of disk and the pids of port run out.  The
\* user at the prompt and the servers of whois, http and ftp owe nothing.
AppFairSpec ==
    /\ AppSpec
    /\ WF_vars(AppStep)
    /\ WF_vars(PingRun)
    /\ WF_vars(DiskRun)
    /\ WF_vars(PortRun)
    /\ WF_vars(WhoisTurn)

\* Ping, disk, port and whois end by themselves, whatever the network, the other
\* processes and the server do, with one exception: the timeout of whois is one
\* for each read, and a server that never stops sending is read for ever.
QuickCommandsEnd ==
    handler \in {"ping", "disk", "port", "whois"} =>
      \/ <>(pc = "exited")
      \/ <>[](pc = "menu")
      \/ ending = "trickle" /\ []<>(pc = "reading" /\ ~quiet)

-----------------------------------------------------------------------------
(* Safety *)

AppTypeOK ==
    /\ handler \in Handlers
    /\ pc \in AppPlaces \cup (CASE handler = "ftp" -> FtpPlaces
                                [] handler = "disk" -> DiskPlaces
                                [] handler = "whois" -> WhoisPlaces
                                [] handler = "port" -> PortPlaces
                                [] handler = "ping" -> PingPlaces
                                [] handler = "https" -> TlsPlaces
                                [] handler = "http" -> {"build", "exchange"}
                                [] OTHER -> {})
    /\ {interactive, logging, saved, reported} \subseteq BOOLEAN
    /\ FtpTypeOK /\ PingTypeOK /\ DiskTypeOK /\ WhoisTypeOK /\ PortTypeOK /\ TlsTypeOK

\* A command that ends in an error says so.  The exception is the menu: before
\* the command is saved and run there is no logger yet, and a line that cannot
\* be read again ends the process without a word.
FailuresReported ==
    pc = "exited" /\ ~reported => interactive /\ ~saved

\* "Select and execute previous requests from history": what is run is what was
\* saved, for every line whose unquoted words are plain and whose quoted values
\* do not look like options; those are never refused.
ReplayExact ==
    chosen # None /\ Rereadable(chosen) => cli = Remembered(chosen)
=============================================================================
