------------------------------ MODULE History ------------------------------
(***************************************************************************)
(* The request history file ~/.rcurl/rcurl.req and the rcurl invocations   *)
(* that read and rewrite it (history/storage.rs, and do_request and        *)
(* interactive_mode of app/run.rs).                                        *)
(*                                                                         *)
(* Every invocation is a process of its own.  Nothing locks the file: a    *)
(* save reads it, edits the list in memory, and calls fs::write, which     *)
(* truncates the file when it opens it and writes the new text afterwards. *)
(* Those are the steps that interleave here.                               *)
(*                                                                         *)
(* The text of the file is abstracted to two numbers of interest:          *)
(*   list - what serde_json::from_str(text).unwrap_or_default() yields:    *)
(*          the saved commands, or << >> when the file is absent, empty,   *)
(*          or not a JSON array;                                           *)
(*   len  - how long the text is, because a writer that does not own the   *)
(*          whole file leaves the tail of a longer text behind.            *)
(* A write is one write(2) call: all of the text or, on an error, none.    *)
(***************************************************************************)
EXTENDS Naturals, Sequences, SequencesExt, Lists

CONSTANTS
    Procs,      \* rcurl invocations that may run at the same time
    Commands,   \* command lines, as command_from_cli renders them
    Replay,     \* what a saved command becomes when it is parsed and rendered again
    Rejected,   \* ... or this, when shell_words or clap refuses it
    NoCommand,  \* a process that is not saving anything
    Bytes,      \* length of a command's entry in the JSON text
    Faults,     \* the failures the environment may inject
    Serial      \* TRUE: the user runs one rcurl at a time

FaultKinds == {"open", "read", "write", "crash"}

ASSUME ConstantsAssumption ==
    /\ Rejected \notin Commands
    /\ NoCommand \notin Commands
    /\ Replay \in [Commands -> Commands \cup {Rejected}]
    /\ Bytes \in [Commands -> Nat]
    /\ Faults \subseteq FaultKinds
    /\ Serial \in BOOLEAN

VARIABLES
    st,      \* st[p]: where process p is
    cmd,     \* cmd[p]: the command p is saving
    menu,    \* menu[p]: the options the interactive prompt of p shows
    buf,     \* buf[p]: the list p is about to write
    file,    \* the history file
    saved,   \* ghost: commands whose save_request returned Ok
    disturbed \* ghost: two saves overlapped, or a fault hit one of them

vars == <<st, cmd, menu, buf, file, saved, disturbed>>

Places == {"idle", "menu", "load", "open", "write", "execute"}

TypeOK ==
    /\ st \in [Procs -> Places]
    /\ cmd \in [Procs -> Commands \cup {NoCommand}]
    /\ menu \in [Procs -> Seq(Commands)]
    /\ buf \in [Procs -> Seq(Commands)]
    /\ file \in [list : Seq(Commands), len : Nat]
    /\ saved \in SUBSET Commands
    /\ disturbed \in BOOLEAN

Init ==
    /\ st = [p \in Procs |-> "idle"]
    /\ cmd = [p \in Procs |-> NoCommand]
    /\ menu = [p \in Procs |-> << >>]
    /\ buf = [p \in Procs |-> << >>]
    /\ file = [list |-> << >>, len |-> 0]
    /\ saved = {}
    /\ disturbed = FALSE

-----------------------------------------------------------------------------
(* List operations *)

\* Faulty variant: nothing is removed.
RetainAll(s, c) == s

\* history.retain(|h| h.command != command)
Retain(s, c) == Picked(s, {i \in 1..Len(s) : s[i] # c})

\* Faulty variants: the loaded list is dropped; the new command goes last.
UpdatedAfresh(s, c) == << c >>

UpdatedAtEnd(s, c) == Append(Retain(s, c), c)

\* The list save_request writes: the new command first, its old entry gone.
Updated(s, c) == << c >> \o Retain(s, c)

\* How long the JSON text of a list is; the two brackets count as one.
Size(s) == 1 + Total([i \in 1..Len(s) |-> Bytes[s[i]]])

\* The text of list s written at offset 0 of a file that holds f.
Overwrite(f, s) ==
    IF f.len <= Size(s)
    THEN [list |-> s, len |-> Size(s)]
    ELSE [list |-> << >>, len |-> f.len]

-----------------------------------------------------------------------------
(* Starting an invocation *)

MayStart(p) ==
    /\ st[p] = "idle"
    /\ Serial => \A q \in Procs : st[q] = "idle"

\* do_request: a URL or a quick command was given.
Request(p, c) ==
    /\ MayStart(p)
    /\ st' = [st EXCEPT ![p] = "load"]
    /\ cmd' = [cmd EXCEPT ![p] = c]
    /\ UNCHANGED <<menu, buf, file, saved, disturbed>>

\* interactive_mode with a history to show.  With an empty (or unreadable)
\* one it prints a hint and returns, which changes nothing.
OpenMenu(p) ==
    /\ MayStart(p)
    /\ file.list # << >>
    /\ st' = [st EXCEPT ![p] = "menu"]
    /\ menu' = [menu EXCEPT ![p] = file.list]
    /\ UNCHANGED <<cmd, buf, file, saved, disturbed>>

\* Faulty variant: a line that no longer parses is not rejected.
SelectUnparsed(p, c) ==
    /\ st[p] = "menu"
    /\ Contains(menu[p], c)
    /\ st' = [st EXCEPT ![p] = "load"]
    /\ cmd' = [cmd EXCEPT ![p] = Replay[c]]
    /\ menu' = [menu EXCEPT ![p] = << >>]
    /\ UNCHANGED <<buf, file, saved, disturbed>>

\* The user picks an entry of the list read earlier; what is saved and run is
\* the command as parsed and rendered again.
Select(p, c) ==
    /\ st[p] = "menu"
    /\ Contains(menu[p], c)
    /\ Replay[c] # Rejected
    /\ st' = [st EXCEPT ![p] = "load"]
    /\ cmd' = [cmd EXCEPT ![p] = Replay[c]]
    /\ menu' = [menu EXCEPT ![p] = << >>]
    /\ UNCHANGED <<buf, file, saved, disturbed>>

\* The prompt is cancelled, or the selected line does not parse: the error
\* ends the invocation before anything is saved.
LeaveMenu(p) ==
    /\ st[p] = "menu"
    /\ st' = [st EXCEPT ![p] = "idle"]
    /\ menu' = [menu EXCEPT ![p] = << >>]
    /\ UNCHANGED <<cmd, buf, file, saved, disturbed>>

-----------------------------------------------------------------------------
(* save_request *)

\* Process q holds a copy of the list that it has not written back yet.
Saving(q) == st[q] \in {"open", "write"}

\* load_history_entries().unwrap_or_default(), retain, insert(0).  A read
\* error is indistinguishable from an empty history.
Load(p) ==
    /\ st[p] = "load"
    /\ \E seen \in {file.list} \cup (IF "read" \in Faults THEN {<< >>} ELSE {}) :
         /\ buf' = [buf EXCEPT ![p] = Updated(seen, cmd[p])]
         /\ disturbed' = (\/ disturbed
                          \/ seen # file.list
                          \/ \E q \in Procs : Saving(q))
    /\ st' = [st EXCEPT ![p] = "open"]
    /\ UNCHANGED <<cmd, menu, file, saved>>

\* fs::write, first half: open with create and truncate.
Truncate(p) ==
    /\ st[p] = "open"
    /\ file' = [list |-> << >>, len |-> 0]
    /\ st' = [st EXCEPT ![p] = "write"]
    /\ UNCHANGED <<cmd, menu, buf, saved, disturbed>>

\* fs::write, second half: write_all, and save_request returns Ok.
Write(p) ==
    /\ st[p] = "write"
    /\ file' = Overwrite(file, buf[p])
    /\ saved' = saved \cup {cmd[p]}
    /\ st' = [st EXCEPT ![p] = "execute"]
    /\ cmd' = [cmd EXCEPT ![p] = NoCommand]
    /\ buf' = [buf EXCEPT ![p] = << >>]
    /\ UNCHANGED <<menu, disturbed>>

\* Faulty variant: the error of save_request ends the invocation.
SaveFailsFatally(p) ==
    /\ "open" \in Faults
    /\ st[p] \in {"load", "open"}
    /\ st' = [st EXCEPT ![p] = "idle"]
    /\ cmd' = [cmd EXCEPT ![p] = NoCommand]
    /\ buf' = [buf EXCEPT ![p] = << >>]
    /\ UNCHANGED <<menu, file, saved, disturbed>>

\* create_dir_all fails, or fs::write cannot open the file: save_request
\* returns an error, do_request prints a warning and carries on.
SaveFails(p) ==
    /\ "open" \in Faults
    /\ st[p] \in {"load", "open"}
    /\ st' = [st EXCEPT ![p] = "execute"]
    /\ cmd' = [cmd EXCEPT ![p] = NoCommand]
    /\ buf' = [buf EXCEPT ![p] = << >>]
    /\ UNCHANGED <<menu, file, saved, disturbed>>

\* write_all fails after the file was truncated: same warning, file empty.
WriteFails(p) ==
    /\ "write" \in Faults
    /\ st[p] = "write"
    /\ disturbed' = TRUE
    /\ st' = [st EXCEPT ![p] = "execute"]
    /\ cmd' = [cmd EXCEPT ![p] = NoCommand]
    /\ buf' = [buf EXCEPT ![p] = << >>]
    /\ UNCHANGED <<menu, file, saved>>

-----------------------------------------------------------------------------

\* execute_request runs the command and the process ends.
Execute(p) ==
    /\ st[p] = "execute"
    /\ st' = [st EXCEPT ![p] = "idle"]
    /\ UNCHANGED <<cmd, menu, buf, file, saved, disturbed>>

\* The process is killed.
Crash(p) ==
    /\ "crash" \in Faults
    /\ st[p] # "idle"
    /\ disturbed' = (disturbed \/ st[p] = "write")
    /\ st' = [st EXCEPT ![p] = "idle"]
    /\ cmd' = [cmd EXCEPT ![p] = NoCommand]
    /\ menu' = [menu EXCEPT ![p] = << >>]
    /\ buf' = [buf EXCEPT ![p] = << >>]
    /\ UNCHANGED <<file, saved>>

\* The steps a started invocation takes by itself.
Advance(p) ==
    \/ Load(p)
    \/ Truncate(p)
    \/ Write(p)
    \/ SaveFails(p)
    \/ WriteFails(p)
    \/ Execute(p)

Next ==
    \E p \in Procs :
      \/ \E c \in Commands : Request(p, c) \/ Select(p, c)
      \/ OpenMenu(p)
      \/ LeaveMenu(p)
      \/ Advance(p)
      \/ Crash(p)

Spec == Init /\ [][Next]_vars

\* A running invocation keeps running: nothing in do_request waits for
\* another process.  The prompt waits for its user, so it has no fairness.
FairSpec == Spec /\ \A p \in Procs : WF_vars(Advance(p))

-----------------------------------------------------------------------------
(* Properties *)

Distinct(s) == \A i, j \in 1..Len(s) : s[i] = s[j] => i = j

Listed(s) == {s[i] : i \in 1..Len(s)}

\* However many invocations rewrite the file at once, and wherever they fail,
\* a command never appears twice in the history (the retain of save_request
\* works on a list some other process wrote).
NoDuplicates == Distinct(file.list)

\* As long as no two saves overlapped and no fault hit one, every command whose
\* save_request returned Ok is still listed.  The copy in memory between the
\* read and fs::write is the only way to lose one.
KeptUnlessDisturbed ==
    ~disturbed /\ (\A p \in Procs : st[p] # "write")
      => saved \subseteq Listed(file.list)

\* What a user who reads "select and execute previous requests from history"
\* expects without that proviso.
SavedCommandsKept ==
    (\A p \in Procs : st[p] = "idle") => saved \subseteq Listed(file.list)

\* A history that cannot be saved never costs the user the request: once
\* do_request has begun to save, the command is executed.
SaveNeverBlocks ==
    \A p \in Procs : st[p] = "load" ~> st[p] = "execute"

\* One invocation at a time, the file is the most-recently-used list that
\* save_request promises.  The new list counts as visible from the moment the
\* old one is truncated.
Visible ==
    IF \E p \in Procs : st[p] = "write"
    THEN buf[CHOOSE p \in Procs : st[p] = "write"]
    ELSE file.list

Recent == INSTANCE RecentList WITH list <- Visible

ImplementsRecentList == Recent!Spec
=============================================================================
