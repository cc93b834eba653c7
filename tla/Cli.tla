---------------------------------- MODULE Cli ----------------------------------
(***************************************************************************)
(* The commands that share a configuration directory: serve, connect,      *)
(* status and doctor (crates/cli/src/main.rs, config.rs, doctor.rs) on     *)
(* config.toml and identity.key. Every command is a process of its own;    *)
(* two may overlap, and one may be killed between any two steps. A file is *)
(* written by truncating and then filling it, and an empty config.toml     *)
(* reads as the default one. What hubs and spokes make of the pins and     *)
(* keys once they run is in Pairing.                                       *)
(***************************************************************************)
EXTENDS Naturals, FiniteSets

CONSTANTS
    Procs,
    Addrs,              \* addresses given to connect
    GoodPins, BadPins,  \* pins given to it, and such that do not parse
    Binds, DefaultBind, \* addresses to listen on
    None, Missing, Empty,
    MaxStarts           \* bound: commands started

Pins == GoodPins \cup BadPins

ASSUME CliAssumption ==
    /\ DefaultBind \in Binds /\ GoodPins \cap BadPins = {}
    /\ None \notin Addrs \cup Pins \cup Binds \cup Procs
    /\ MaxStarts \in Nat

Configs == [role : {"unconfigured", "hub", "spoke"}, addr : Addrs \cup {None},
            pin : Pins \cup {None}, bind : Binds]

Default == [role |-> "unconfigured", addr |-> None, pin |-> None,
            bind |-> DefaultBind]

Commands ==
    [name : {"serve"}, bind : Binds \cup {None}]
    \cup [name : {"connect"}, addr : Addrs \cup {None}, pin : Pins \cup {None}]
    \cup [name : {"status", "doctor"}]

Keys == 1 .. MaxStarts

ASSUME FilesAssumption ==
    /\ Missing # Empty
    /\ \A file \in {Missing, Empty} : file \notin Configs /\ file \notin Keys

VARIABLES
    config,     \* config.toml: Missing, Empty or a configuration
    identity,   \* identity.key: Missing, Empty or a key
    pc, then,   \* where each process is, and where it goes after saving
    command,    \* the command it was started with
    mem,        \* its configuration
    key,        \* its identity
    reachable,  \* whether a host answers a spoke's probe
    report,     \* what the last doctor found
    starts,     \* commands started so far, and keys generated
    generated,
    alone,      \* alone[p]: no other start-up overlapped that of p
    latest      \* the last serve or connect to be started

files == <<config, identity>>
procs == <<pc, then, command, mem, key>>
history == <<starts, alone, latest>>
vars == <<files, procs, reachable, report, generated, history>>

Steps == {"idle", "load", "truncate", "fill", "args", "pin", "role", "identify",
          "keygen", "keyfill", "boot", "report", "running", "done"}

Checks == {"role", "hub bind", "firewall hint", "spoke server addr",
           "spoke reachability"}

TypeOK ==
    /\ config \in Configs \cup {Missing, Empty}
    /\ identity \in Keys \cup {Missing, Empty}
    /\ pc \in [Procs -> Steps] /\ then \in [Procs -> Steps]
    /\ command \in [Procs -> Commands]
    /\ mem \in [Procs -> Configs]
    /\ key \in [Procs -> Keys \cup {None}]
    /\ report \subseteq Checks \X {"Ok", "Warn", "Fail"}
    /\ starts \in 0 .. MaxStarts /\ generated \in 0 .. starts
    /\ alone \in [Procs -> BOOLEAN] /\ latest \in Procs \cup {None}

Init ==
    /\ config = Missing /\ identity = Missing
    /\ pc = [p \in Procs |-> "idle"] /\ then = pc
    /\ command = [p \in Procs |-> [name |-> "status"]]
    /\ mem = [p \in Procs |-> Default] /\ key = [p \in Procs |-> None]
    /\ reachable \in BOOLEAN /\ report = {}
    /\ starts = 0 /\ generated = 0
    /\ alone = [p \in Procs |-> FALSE] /\ latest = None
-------------------------------------------------------------------------------
At(p, step) == pc[p] = step
Is(p, name) == command[p].name = name
Goto(p, step) ==
    pc' = [pc EXCEPT ![p] = step] /\ then' = [then EXCEPT ![p] = "idle"]

Starting(p) == pc[p] \notin {"idle", "running", "done"}

\* The user enters a command in a free shell.
Start(p, c) ==
    /\ At(p, "idle") /\ starts < MaxStarts
    /\ starts' = starts + 1
    /\ Goto(p, "load")
    /\ command' = [command EXCEPT ![p] = c]
    /\ alone' = [q \in Procs |->
                    IF q = p THEN \A r \in Procs : ~Starting(r)
                    ELSE alone[q] /\ ~Starting(q)]
    /\ latest' = IF c.name \in {"serve", "connect"} THEN p ELSE latest
    /\ report' = {}
    /\ UNCHANGED <<files, mem, key, reachable, generated>>

\* A process ends: done, stopped with Ctrl-C, or killed wherever it is. What
\* it knew is gone.
End(p) ==
    /\ ~At(p, "idle") /\ Goto(p, "idle")
    /\ command' = [command EXCEPT ![p] = [name |-> "status"]]
    /\ mem' = [mem EXCEPT ![p] = Default] /\ key' = [key EXCEPT ![p] = None]
    /\ alone' = [alone EXCEPT ![p] = FALSE]
    /\ latest' = IF latest = p THEN None ELSE latest
    /\ UNCHANGED <<files, reachable, report, generated, starts>>

\* config::save of cfg, and on to step.
Save(p, cfg, step) ==
    /\ mem' = [mem EXCEPT ![p] = cfg]
    /\ pc' = [pc EXCEPT ![p] = "truncate"] /\ then' = [then EXCEPT ![p] = step]

Keep(p, cfg, step) == mem' = [mem EXCEPT ![p] = cfg] /\ Goto(p, step)

Truncate(p) ==
    /\ At(p, "truncate") /\ pc' = [pc EXCEPT ![p] = "fill"]
    /\ config' = Empty
    /\ UNCHANGED <<identity, then, command, mem, key, reachable, report, generated, history>>

Fill(p) ==
    /\ At(p, "fill") /\ Goto(p, then[p])
    /\ config' = mem[p]
    /\ UNCHANGED <<identity, command, mem, key, reachable, report, generated, history>>

\* What a step leaves alone that touches no more than a process.
OnlyProcess == UNCHANGED <<files, command, key, reachable, report, generated, history>>

First(p) == IF Is(p, "status") THEN "identify"
            ELSE IF Is(p, "doctor") THEN "report" ELSE "args"

\* Every section and every field of the file has a default.
Parsed(file) == IF file = Empty THEN Default ELSE file

\* load_or_default
Load(p) ==
    /\ At(p, "load")
    /\ IF config = Missing THEN Save(p, Default, First(p))
       ELSE Keep(p, Parsed(config), First(p))
    /\ OnlyProcess

\* Mutant of EnsureRole: the role is set but not saved.
EnsureRoleInMemory(p, cfg, want, step) == Keep(p, [cfg EXCEPT !.role = want], step)

\* ensure_role
EnsureRole(p, cfg, want, step) ==
    IF cfg.role # want THEN Save(p, [cfg EXCEPT !.role = want], step)
    ELSE Keep(p, cfg, step)

\* Command::Serve, with maybe_override_bind.
Serve(p) ==
    /\ At(p, "args") /\ Is(p, "serve")
    /\ LET b == command[p].bind IN
       EnsureRole(p, IF b = None THEN mem[p] ELSE [mem[p] EXCEPT !.bind = b],
                  "hub", "identify")
    /\ OnlyProcess

\* Mutant of Addressed: the address stays an argument of this run.
AddressedOnce(p) == mem[p]

Addressed(p) ==
    IF command[p].addr = None THEN mem[p]
    ELSE [mem[p] EXCEPT !.addr = command[p].addr]

\* Command::Connect: the address, without one given or saved an error.
Connect(p) ==
    /\ At(p, "args") /\ Is(p, "connect")
    /\ IF command[p].addr # None THEN EnsureRole(p, Addressed(p), "spoke", "pin")
       ELSE IF mem[p].addr = None THEN Keep(p, mem[p], "done")
       ELSE Keep(p, mem[p], "pin")
    /\ OnlyProcess

\* The pin given, or the saved one, is saved and asked for.
PinDown(p) ==
    /\ At(p, "pin")
    /\ LET expected == IF command[p].pin # None THEN command[p].pin ELSE mem[p].pin IN
       IF expected = None THEN Keep(p, mem[p], "role")
       ELSE Save(p, [mem[p] EXCEPT !.pin = expected], "role")
    /\ OnlyProcess

TakeRole(p) ==
    /\ At(p, "role") /\ EnsureRole(p, mem[p], "spoke", "identify")
    /\ OnlyProcess

\* Mutant of Absent: load_or_generate does not look whether the file exists.
AbsentAnyway == {Missing, Empty} \cup Keys

\* The files load_or_generate generates a key for.
Absent == {Missing}

\* load_or_generate: an identity file that is too short is an error.
Identify(p) ==
    /\ At(p, "identify")
    /\ IF identity \in Absent
       THEN /\ generated' = generated + 1 /\ key' = [key EXCEPT ![p] = generated']
            /\ Goto(p, "keygen")
       ELSE /\ UNCHANGED generated
            /\ IF identity = Empty THEN Goto(p, "done") /\ UNCHANGED key
               ELSE key' = [key EXCEPT ![p] = identity] /\ Goto(p, "boot")
    /\ UNCHANGED <<files, command, mem, reachable, report, history>>

TruncateKey(p) ==
    /\ At(p, "keygen") /\ Goto(p, "keyfill")
    /\ identity' = Empty
    /\ UNCHANGED <<config, command, mem, key, reachable, report, generated, history>>

FillKey(p) ==
    /\ At(p, "keyfill") /\ Goto(p, "boot")
    /\ identity' = key[p]
    /\ UNCHANGED <<config, command, mem, key, reachable, report, generated, history>>

Taken(b) == \E q \in Procs : At(q, "running") /\ Is(q, "serve") /\ mem[q].bind = b

\* What keeps bootstrap from returning a runtime.
Refused(p) ==
    IF Is(p, "serve") THEN Taken(mem[p].bind)
    ELSE mem[p].pin \in BadPins

\* Status prints and ends; bootstrap of the others binds, or parses the pin.
Boot(p) ==
    /\ At(p, "boot")
    /\ Goto(p, IF Is(p, "status") \/ Refused(p) THEN "done" ELSE "running")
    /\ UNCHANGED mem /\ OnlyProcess

\* The checks of doctor that depend on the role.
RoleChecks(cfg) ==
    IF cfg.role = "hub"
    THEN {<<"hub bind", IF Taken(cfg.bind) THEN "Fail" ELSE "Ok">>,
          <<"firewall hint", "Warn">>}
    ELSE IF cfg.role # "spoke" THEN {<<"role", "Warn">>}
    ELSE IF cfg.addr = None
    THEN {<<"spoke server addr", "Fail">>, <<"spoke reachability", "Warn">>}
    ELSE {<<"spoke server addr", "Ok">>,
          <<"spoke reachability", IF reachable THEN "Ok" ELSE "Fail">>}

Doctor(p) ==
    /\ At(p, "report") /\ Goto(p, "done")
    /\ report' = RoleChecks(mem[p])
    /\ UNCHANGED <<files, command, mem, key, reachable, generated, history>>

Next ==
    \E p \in Procs :
        \/ \E c \in Commands : Start(p, c)
        \/ End(p) \/ Load(p) \/ Truncate(p) \/ Fill(p)
        \/ Serve(p) \/ Connect(p) \/ PinDown(p) \/ TakeRole(p)
        \/ Identify(p) \/ TruncateKey(p) \/ FillKey(p) \/ Boot(p) \/ Doctor(p)

Spec == Init /\ [][Next]_vars
-------------------------------------------------------------------------------
Role(p) == IF Is(p, "serve") THEN "hub" ELSE "spoke"

\* The last serve or connect, if it runs and no other start-up overlapped its
\* own, runs with what the files say, whatever was killed before it and
\* whatever status and doctor have done since: a restart comes back as the
\* same node in the same role, with the same pin. The address is the saved one
\* if there is a pin; without one a spoke's new address may not be saved
\* (main.rs:190-258, config.rs:171-190, identity.rs:31-40).
SavedIsWhatRuns ==
    \A p \in Procs \cap {latest} : At(p, "running") /\ alone[p] =>
        /\ identity = key[p]
        /\ config \in Configs /\ config.role = Role(p)
        /\ Is(p, "connect") => /\ config.pin = mem[p].pin
                               /\ config.addr = mem[p].addr \/ mem[p].pin = None

\* Processes whose start-ups nothing overlapped are the same node, whatever
\* was killed while it wrote the key (identity.rs:31-52).
OneIdentity ==
    \A p, q \in Procs :
        At(p, "running") /\ At(q, "running") /\ alone[p] /\ alone[q] => key[p] = key[q]

\* The saved role is never that of a spoke without an address, so a bare
\* connect and the doctor of a spoke find one, overlapping commands and kills
\* included (main.rs:233-247, doctor.rs:149-171).
SpokeHasAddress ==
    /\ config \in Configs /\ config.role = "spoke" => config.addr # None
    /\ <<"spoke server addr", "Fail">> \notin report

\* Saved role and address, with the types of files and processes
\* (config.rs:169-190, main.rs:190-254).
CliInv == TypeOK /\ SpokeHasAddress
===============================================================================
