------------------------------- MODULE CliProofs -------------------------------
(***************************************************************************)
(* Proofs about Cli for every set of shells, addresses and pins, and any   *)
(* number of commands.                                                     *)
(*                                                                         *)
(* The argument follows a serve or connect that no other start-up          *)
(* overlaps (Solitary) from step to step: what it has in memory and what   *)
(* the files hold agree in what the next step relies on (Fits), through    *)
(* the writes as well. Once it runs, whoever starts afterwards finds both  *)
(* files written, so nobody writes them but a later serve or connect       *)
(* (Settled, Identified).                                                  *)
(***************************************************************************)
EXTENDS Cli, FiniteSetTheorems, TLAPS

\* What the configuration file and the process agree on at a step of a serve
\* or connect that nothing overlapped; cfg is what the process has in memory.
Fits(p, step, file, cfg) ==
    /\ step = "args" => file # Missing /\ cfg = Parsed(file)
    /\ step \in {"pin", "role"} =>
         file \in Configs /\ file.pin = cfg.pin /\ file.role = cfg.role
    /\ step \in {"identify", "keygen", "keyfill", "boot", "running"} =>
         file \in Configs /\ file.role = Role(p)
    /\ /\ step \in {"role", "identify", "keygen", "keyfill", "boot", "running"}
       /\ Is(p, "connect")
       => file.pin = cfg.pin /\ (file.addr = cfg.addr \/ cfg.pin = None)

Saving == {"truncate", "fill"}
Resumed == {"args", "pin", "role", "identify", "report"}

\* A process knows where it goes after a save, and a spoke on its way has an
\* address from its argument or its file.
Orderly(p) ==
    /\ pc[p] \in Saving => then[p] \in Resumed
    /\ pc[p] \notin Saving => then[p] = "idle"
    /\ pc[p] \in {"pin", "role"} \/ then[p] \in {"pin", "role"} =>
         Is(p, "connect") /\ mem[p].addr # None
    /\ mem[p].role = "spoke" => mem[p].addr # None
    /\ pc[p] \in {"keygen", "keyfill"} => key[p] \in Keys

\* While a process starts that nothing has overlapped, nothing else starts.
Solitary(p) ==
    alone[p] /\ Starting(p) => \A q \in Procs \ {p} : ~Starting(q)

\* From its key on, the identity file holds that key, and nobody writes it.
Identified(p) ==
    alone[p] /\ pc[p] \in {"boot", "running"} =>
        /\ identity = key[p] /\ identity \in Keys
        /\ \A q \in Procs : pc[q] \notin {"keygen", "keyfill"}

\* The last serve or connect agrees with the file, or with what it is about
\* to write to it; once it runs, only status and doctor still start.
Settled(p) ==
    p = latest =>
        /\ pc[p] # "idle"
        /\ Is(p, "serve") \/ Is(p, "connect")
        /\ alone[p] /\ pc[p] \in Saving => Fits(p, then[p], mem[p], mem[p])
        /\ alone[p] /\ pc[p] \notin Saving => Fits(p, pc[p], config, mem[p])
        /\ alone[p] /\ At(p, "running") => \A q \in Procs : Starting(q) =>
              ~Is(q, "serve") /\ ~Is(q, "connect") /\ pc[q] \notin Saving

\* The processes that may yet generate a key; each start adds one at most.
Before == {"load", "truncate", "fill", "args", "pin", "role", "identify"}
Fresh == {p \in Procs : pc[p] \in Before}
KeysCounted == IsFiniteSet(Fresh) /\ generated + Cardinality(Fresh) <= starts

\* The inductive invariant.
Inv ==
    /\ TypeOK /\ SpokeHasAddress /\ KeysCounted
    /\ \A p \in Procs : Orderly(p) /\ Solitary(p) /\ Identified(p) /\ Settled(p)

\* The count of keys survives a step that makes no key and starts nothing.
LEMMA CountKept ==
    ASSUME KeysCounted, Fresh' \subseteq Fresh, TypeOK,
           starts' = starts, generated' = generated
    PROVE  KeysCounted'
<1>1. IsFiniteSet(Fresh') /\ Cardinality(Fresh') <= Cardinality(Fresh)
    BY FS_Subset DEF KeysCounted
<1>2. Cardinality(Fresh') \in Nat /\ Cardinality(Fresh) \in Nat
    BY <1>1, FS_CardinalityType DEF KeysCounted
<1> QED BY <1>1, <1>2 DEF KeysCounted, TypeOK

\* The configurations a process works with are configurations.
LEMMA ConfigFacts ==
    /\ Default \in Configs /\ Default.role = "unconfigured"
    /\ Default.addr = None /\ Default.pin = None
    /\ \A c \in Configs : /\ Parsed(c) = c
                          /\ c.role \in {"unconfigured", "hub", "spoke"}
                          /\ [c EXCEPT !.role = "hub"] \in Configs
                          /\ [c EXCEPT !.role = "spoke"] \in Configs
    /\ \A c \in Configs, b \in Binds : [c EXCEPT !.bind = b] \in Configs
    /\ \A c \in Configs, a \in Addrs : [c EXCEPT !.addr = a] \in Configs
    /\ \A c \in Configs, k \in Pins : [c EXCEPT !.pin = k] \in Configs
    /\ Parsed(Empty) = Default
BY CliAssumption, FilesAssumption DEF Default, Configs, Parsed

\* A command is what its name says.
LEMMA CommandFacts ==
    ASSUME TypeOK, NEW p \in Procs
    PROVE  /\ Is(p, "serve") => command[p].bind \in Binds \cup {None}
           /\ Is(p, "connect") => /\ command[p].addr \in Addrs \cup {None}
                                  /\ command[p].pin \in Pins \cup {None}
           /\ ~(Is(p, "serve") /\ Is(p, "connect"))
<1>1. command[p] \in Commands
    BY DEF TypeOK
<1> QED BY <1>1 DEF Commands, Is
-------------------------------------------------------------------------------
\* The process now has cfg in memory, is at step, and goes to next after it.
Moves(p, cfg, step, next) ==
    /\ mem' = [mem EXCEPT ![p] = cfg]
    /\ pc' = [pc EXCEPT ![p] = step]
    /\ then' = [then EXCEPT ![p] = next]

\* A step that decides from what the process knows: from loading its
\* configuration to settling its role, each to a save or to the next step.
LEMMA DecisionStep ==
    ASSUME Inv, NEW p \in Procs, NEW cfg \in Configs, NEW step, NEW next,
           pc[p] \in {"load", "args", "pin", "role"},
           \/ step = "truncate" /\ next \in Resumed
           \/ step \in Resumed \cup {"done"} /\ next = "idle",
           step \in {"pin", "role"} \/ next \in {"pin", "role"} =>
                Is(p, "connect") /\ cfg.addr # None,
           cfg.role = "spoke" => cfg.addr # None,
           step = "truncate" => config = Missing \/ Is(p, "serve") \/ Is(p, "connect"),
           p = latest /\ alone[p] /\ step = "truncate" => Fits(p, next, cfg, cfg),
           p = latest /\ alone[p] /\ step # "truncate" => Fits(p, step, config, cfg),
           Moves(p, cfg, step, next), OnlyProcess
    PROVE  Inv'
<1> USE DEF Inv
<1>1. /\ step \in Steps /\ next \in Steps
      /\ step \notin {"fill", "keygen", "keyfill", "boot", "running", "idle", "load"}
    BY DEF Resumed, Steps
<1>2. /\ pc'[p] = step /\ then'[p] = next /\ mem'[p] = cfg
      /\ \A q \in Procs \ {p} : pc'[q] = pc[q] /\ then'[q] = then[q] /\ mem'[q] = mem[q]
    BY DEF TypeOK, Moves
<1>3. UNCHANGED <<config, identity, command, key, reachable, report, generated,
                  starts, alone, latest>>
    BY DEF OnlyProcess, files, history
<1>4. TypeOK'
    BY <1>1, <1>3 DEF TypeOK, Moves
<1>5. SpokeHasAddress'
    BY <1>3 DEF SpokeHasAddress
<1>6. KeysCounted'
    <2>1. Fresh' \subseteq Fresh
        BY <1>2 DEF Fresh, Before
    <2> QED BY <1>3, <2>1, CountKept
<1>7. \A q \in Procs : Starting(q)' => Starting(q)
    BY <1>2 DEF Starting
<1>8. \A q \in Procs : \A name : Is(q, name)' = Is(q, name)
    BY <1>3 DEF Is
<1>9. ASSUME NEW q \in Procs PROVE Orderly(q)' /\ Solitary(q)'
    <2>1. CASE q = p
        <3>1. Orderly(q)'
            BY <1>1, <1>2, <1>3, <1>8, <2>1 DEF Orderly, Saving, Resumed
        <3>2. Starting(p)
            BY DEF Starting
        <3> QED BY <1>3, <1>7, <2>1, <3>1, <3>2 DEF Solitary
    <2>2. CASE q # p
        <3>1. Orderly(q)'
            BY <1>2, <1>3, <1>8, <2>2 DEF Orderly
        <3> QED BY <1>3, <1>7, <3>1 DEF Solitary
    <2> QED BY <2>1, <2>2
<1>10. ASSUME NEW q \in Procs PROVE Identified(q)'
    BY <1>1, <1>2, <1>3 DEF Identified
<1>11. ASSUME NEW q \in Procs, q = latest PROVE Settled(q)'
    <2>1. \A r \in Procs : \A i, f, c : Fits(r, i, f, c)' = Fits(r, i, f, c)
        BY <1>3 DEF Fits, Role, Is, Parsed, Default
    <2>2. CASE q = p
        BY <1>1, <1>2, <1>3, <1>8, <1>11, <2>1, <2>2 DEF Settled, At, Saving, Resumed
    <2>3. CASE q # p
        <3>1. /\ alone[q] /\ pc[q] \in Saving => Fits(q, then[q], mem[q], mem[q])
              /\ alone[q] /\ pc[q] \notin Saving => Fits(q, pc[q], config, mem[q])
              /\ Is(q, "serve") \/ Is(q, "connect")
              /\ pc[q] # "idle"
            BY <1>11 DEF Settled
        <3>2. ASSUME alone[q], At(q, "running")
              PROVE  \A r \in Procs : Starting(r)' =>
                        ~Is(r, "serve") /\ ~Is(r, "connect") /\ pc'[r] \notin Saving
            <4>1. \A r \in Procs : Starting(r) =>
                     ~Is(r, "serve") /\ ~Is(r, "connect") /\ pc[r] \notin Saving
                BY <1>11, <3>2 DEF Settled
            <4>2. Starting(p)
                BY DEF Starting
            <4>3. config # Missing
                BY <3>1, <3>2, FilesAssumption DEF At, Saving, Fits
            <4>4. step # "truncate" /\ pc'[p] \notin Saving
                BY <1>1, <1>2, <4>1, <4>2, <4>3 DEF Saving
            <4> QED BY <1>2, <1>7, <4>1, <4>4
        <3> QED BY <1>2, <1>3, <1>8, <2>1, <2>3, <3>1, <3>2 DEF Settled, At
    <2> QED BY <2>2, <2>3
<1>12. ASSUME NEW q \in Procs, q # latest PROVE Settled(q)'
    BY <1>3, <1>12 DEF Settled
<1> QED BY <1>4, <1>5, <1>6, <1>9, <1>10, <1>11, <1>12

\* The steps a process may resume at.
LEMMA ResumedFacts ==
    /\ {"args", "pin", "role", "identify", "report"} \subseteq Resumed
    /\ "pin" \in Resumed /\ "role" \in Resumed /\ "identify" \in Resumed
    /\ "done" \in Resumed \cup {"done"}
BY DEF Resumed

\* Such a step that saves a configuration.
LEMMA SaveStep ==
    ASSUME Inv, NEW p \in Procs, NEW cfg \in Configs, NEW next \in Resumed,
           Save(p, cfg, next), OnlyProcess,
           pc[p] \in {"load", "args", "pin", "role"},
           next \in {"pin", "role"} => Is(p, "connect") /\ cfg.addr # None,
           cfg.role = "spoke" => cfg.addr # None,
           config = Missing \/ Is(p, "serve") \/ Is(p, "connect"),
           p = latest /\ alone[p] => Fits(p, next, cfg, cfg)
    PROVE  Inv'
<1> DEFINE step == "truncate"
<1>1. Moves(p, cfg, step, next)
    BY DEF Moves, Save
<1>2. /\ \/ step = "truncate" /\ next \in Resumed
         \/ step \in Resumed \cup {"done"} /\ next = "idle"
      /\ step \in {"pin", "role"} \/ next \in {"pin", "role"} =>
            Is(p, "connect") /\ cfg.addr # None
      /\ step = "truncate" => config = Missing \/ Is(p, "serve") \/ Is(p, "connect")
      /\ p = latest /\ alone[p] /\ step = "truncate" => Fits(p, next, cfg, cfg)
      /\ p = latest /\ alone[p] /\ step # "truncate" => Fits(p, step, config, cfg)
    OBVIOUS
<1> HIDE DEF step
<1> QED BY <1>1, <1>2, DecisionStep

\* Such a step that goes on with no save.
LEMMA KeepStep ==
    ASSUME Inv, NEW p \in Procs, NEW cfg \in Configs,
           NEW step \in Resumed \cup {"done"},
           Keep(p, cfg, step), OnlyProcess,
           pc[p] \in {"load", "args", "pin", "role"},
           step \in {"pin", "role"} => Is(p, "connect") /\ cfg.addr # None,
           cfg.role = "spoke" => cfg.addr # None,
           p = latest /\ alone[p] => Fits(p, step, config, cfg)
    PROVE  Inv'
<1> DEFINE next == "idle"
<1>1. Moves(p, cfg, step, next)
    BY DEF Moves, Keep, Goto
<1>2. /\ \/ step = "truncate" /\ next \in Resumed
         \/ step \in Resumed \cup {"done"} /\ next = "idle"
      /\ step \in {"pin", "role"} \/ next \in {"pin", "role"} =>
            Is(p, "connect") /\ cfg.addr # None
      /\ step = "truncate" => config = Missing \/ Is(p, "serve") \/ Is(p, "connect")
      /\ p = latest /\ alone[p] /\ step = "truncate" => Fits(p, next, cfg, cfg)
      /\ p = latest /\ alone[p] /\ step # "truncate" => Fits(p, step, config, cfg)
    BY DEF Resumed
<1> HIDE DEF next
<1> QED BY <1>1, <1>2, DecisionStep

\* load_or_default (config.rs:171-183).
LEMMA LoadInv ==
    ASSUME Inv, NEW p \in Procs, Load(p)
    PROVE  Inv'
<1> USE DEF Inv
<1>1. pc[p] = "load" /\ First(p) \in {"identify", "report", "args"} /\ OnlyProcess
    BY DEF Load, At, First
<1>2. p = latest => First(p) = "args"
    BY DEF Settled, First, Is
<1>3. CASE config = Missing
    <2>1. Save(p, Default, First(p))
        BY <1>3 DEF Load
    <2>2. p = latest => Fits(p, First(p), Default, Default)
        BY <1>2, ConfigFacts, FilesAssumption DEF Fits
    <2>3. Default \in Configs /\ Default.role # "spoke" /\ First(p) \in Resumed
        BY <1>1, ConfigFacts DEF Resumed
    <2> QED BY <1>1, <1>3, <2>1, <2>2, <2>3, SaveStep
<1>4. CASE config # Missing
    <2>1. Keep(p, Parsed(config), First(p)) /\ First(p) \in Resumed
        BY <1>1, <1>4 DEF Load, Resumed
    <2>2. Parsed(config) \in Configs
        BY <1>4, ConfigFacts DEF TypeOK
    <2>3. Parsed(config).role = "spoke" => Parsed(config).addr # None
        BY <1>4, ConfigFacts DEF TypeOK, SpokeHasAddress
    <2>4. p = latest => Fits(p, First(p), config, Parsed(config))
        BY <1>2, <1>4 DEF Fits
    <2> QED BY <1>1, <2>1, <2>2, <2>3, <2>4, KeepStep
<1> QED BY <1>3, <1>4

\* What ensure_role does: it saves a changed role, and goes on with it.
LEMMA EnsureRoleCases ==
    ASSUME NEW p, NEW cfg, NEW want, NEW step, EnsureRole(p, cfg, want, step)
    PROVE  \/ cfg.role # want /\ Save(p, [cfg EXCEPT !.role = want], step)
           \/ cfg.role = want /\ Keep(p, cfg, step)
BY DEF EnsureRole

\* A configuration whose role is a command's own is not one of an empty file.
LEMMA TakenFromFile ==
    ASSUME Inv, NEW p \in Procs, p = latest, alone[p], At(p, "args"),
           mem[p].role # "unconfigured" \/ mem[p].addr # None
    PROVE  config \in Configs /\ config = mem[p]
BY ConfigFacts DEF Inv, Settled, Fits, At, Saving, TypeOK

\* Command::Serve (main.rs:190-205).
LEMMA ServeInv ==
    ASSUME Inv, NEW p \in Procs, Serve(p)
    PROVE  Inv'
<1> USE DEF Inv
<1> DEFINE b == command[p].bind
           cfg == IF b = None THEN mem[p] ELSE [mem[p] EXCEPT !.bind = b]
<1>1. /\ pc[p] = "args" /\ Is(p, "serve") /\ OnlyProcess
      /\ EnsureRole(p, cfg, "hub", "identify")
    BY DEF Serve, At
<1>2. ~Is(p, "connect") /\ Role(p) = "hub"
    BY <1>1, CommandFacts DEF Role
<1>3. cfg \in Configs /\ cfg.role = mem[p].role
    BY <1>1, CommandFacts, ConfigFacts DEF TypeOK, Configs
<1> HIDE DEF cfg, b
<1>4. CASE cfg.role # "hub" /\ Save(p, [cfg EXCEPT !.role = "hub"], "identify")
    <2> DEFINE new == [cfg EXCEPT !.role = "hub"]
    <2>1. new \in Configs /\ new.role = "hub"
        BY <1>3, ConfigFacts DEF Configs
    <2>2. Fits(p, "identify", new, new)
        BY <1>2, <2>1 DEF Fits
    <2> HIDE DEF new
    <2>3. Save(p, new, "identify")
        BY <1>4 DEF new
    <2> QED BY <1>1, <2>1, <2>2, <2>3, ResumedFacts, SaveStep
<1>5. CASE cfg.role = "hub" /\ Keep(p, cfg, "identify")
    <2>1. p = latest /\ alone[p] => Fits(p, "identify", config, cfg)
        BY <1>1, <1>2, <1>3, <1>5, TakenFromFile DEF Fits, At
    <2> QED BY <1>1, <1>3, <1>5, <2>1, ResumedFacts, KeepStep
<1> QED BY <1>1, <1>4, <1>5, EnsureRoleCases

\* Command::Connect, the address (main.rs:225-247).
LEMMA ConnectInv ==
    ASSUME Inv, NEW p \in Procs, Connect(p)
    PROVE  Inv'
<1> USE DEF Inv
<1> DEFINE a == command[p].addr
<1>1. /\ pc[p] = "args" /\ At(p, "args") /\ Is(p, "connect") /\ OnlyProcess
      /\ mem[p] \in Configs
    BY DEF Connect, At, TypeOK
<1>2. CASE a # None
    <2> DEFINE cfg == [mem[p] EXCEPT !.addr = a]
    <2>1. EnsureRole(p, cfg, "spoke", "pin")
        BY <1>2 DEF Connect, Addressed
    <2>2. /\ cfg \in Configs /\ cfg.role = mem[p].role /\ cfg.pin = mem[p].pin
          /\ cfg.addr = a
        BY <1>1, <1>2, CommandFacts, ConfigFacts DEF Configs
    <2> HIDE DEF cfg
    <2>3. CASE cfg.role # "spoke" /\ Save(p, [cfg EXCEPT !.role = "spoke"], "pin")
        <3> DEFINE new == [cfg EXCEPT !.role = "spoke"]
        <3>1. new \in Configs /\ new.addr # None
            BY <1>2, <2>2, ConfigFacts DEF Configs
        <3>2. Fits(p, "pin", new, new)
            BY <3>1 DEF Fits
        <3> HIDE DEF new
        <3>3. Save(p, new, "pin")
            BY <2>3 DEF new
        <3> QED BY <1>1, <3>1, <3>2, <3>3, ResumedFacts, SaveStep
    <2>4. CASE cfg.role = "spoke" /\ Keep(p, cfg, "pin")
        <3>1. p = latest /\ alone[p] => Fits(p, "pin", config, cfg)
            BY <1>1, <2>2, <2>4, TakenFromFile DEF Fits
        <3> QED BY <1>1, <1>2, <2>2, <2>4, <3>1, ResumedFacts, KeepStep
    <2> QED BY <2>1, <2>3, <2>4, EnsureRoleCases
<1>3. CASE a = None /\ mem[p].addr = None
    <2>1. Keep(p, mem[p], "done")
        BY <1>3 DEF Connect
    <2>2. Fits(p, "done", config, mem[p])
        BY DEF Fits
    <2>3. mem[p].role # "spoke"
        BY <1>3 DEF Orderly
    <2> QED BY <1>1, <2>1, <2>2, <2>3, KeepStep
<1>4. CASE a = None /\ mem[p].addr # None
    <2>1. Keep(p, mem[p], "pin")
        BY <1>4 DEF Connect
    <2>2. p = latest /\ alone[p] => Fits(p, "pin", config, mem[p])
        BY <1>1, <1>4, TakenFromFile DEF Fits
    <2> QED BY <1>1, <1>4, <2>1, <2>2, ResumedFacts, KeepStep
<1> QED BY <1>2, <1>3, <1>4

\* Command::Connect, the pin (main.rs:248-252).
LEMMA PinDownInv ==
    ASSUME Inv, NEW p \in Procs, PinDown(p)
    PROVE  Inv'
<1> USE DEF Inv
<1> DEFINE expected == IF command[p].pin # None THEN command[p].pin ELSE mem[p].pin
<1>1. /\ pc[p] = "pin" /\ OnlyProcess /\ mem[p] \in Configs
      /\ Is(p, "connect") /\ mem[p].addr # None
    BY DEF PinDown, At, TypeOK, Orderly
<1>2. p = latest /\ alone[p] =>
         config \in Configs /\ config.pin = mem[p].pin /\ config.role = mem[p].role
    BY <1>1 DEF Settled, Fits, Saving
<1>3. CASE expected = None
    <2>1. Keep(p, mem[p], "role") /\ mem[p].pin = None
        BY <1>3 DEF PinDown
    <2>2. p = latest /\ alone[p] => Fits(p, "role", config, mem[p])
        BY <1>2, <2>1 DEF Fits
    <2>3. mem[p].role = "spoke" => mem[p].addr # None
        BY <1>1
    <2> QED BY <1>1, <2>1, <2>2, <2>3, ResumedFacts, KeepStep
<1>4. CASE expected # None
    <2> DEFINE new == [mem[p] EXCEPT !.pin = expected]
    <2>1. expected \in Pins
        BY <1>1, <1>4, CommandFacts DEF Configs
    <2>2. new \in Configs /\ new.addr = mem[p].addr
        BY <1>1, <2>1, ConfigFacts DEF Configs
    <2>3. Fits(p, "role", new, new)
        BY <2>2 DEF Fits
    <2>4. Save(p, new, "role")
        BY <1>4 DEF PinDown
    <2> HIDE DEF new
    <2> QED BY <1>1, <2>2, <2>3, <2>4, ResumedFacts, SaveStep
<1> QED BY <1>3, <1>4

\* Command::Connect, the role (main.rs:253-258).
LEMMA TakeRoleInv ==
    ASSUME Inv, NEW p \in Procs, TakeRole(p)
    PROVE  Inv'
<1> USE DEF Inv
<1>1. /\ pc[p] = "role" /\ OnlyProcess /\ mem[p] \in Configs
      /\ Is(p, "connect") /\ mem[p].addr # None
      /\ EnsureRole(p, mem[p], "spoke", "identify")
    BY DEF TakeRole, At, TypeOK, Orderly
<1>2. Role(p) = "spoke"
    BY <1>1, CommandFacts DEF Role
<1>3. CASE mem[p].role # "spoke" /\ Save(p, [mem[p] EXCEPT !.role = "spoke"], "identify")
    <2> DEFINE new == [mem[p] EXCEPT !.role = "spoke"]
    <2>1. new \in Configs /\ new.role = "spoke" /\ new.addr # None
        BY <1>1, ConfigFacts DEF Configs
    <2>2. Fits(p, "identify", new, new)
        BY <1>2, <2>1 DEF Fits
    <2> HIDE DEF new
    <2>3. Save(p, new, "identify")
        BY <1>3 DEF new
    <2> QED BY <1>1, <2>1, <2>2, <2>3, ResumedFacts, SaveStep
<1>4. CASE mem[p].role = "spoke" /\ Keep(p, mem[p], "identify")
    <2>1. p = latest /\ alone[p] => Fits(p, "identify", config, mem[p])
        BY <1>1, <1>2, <1>4 DEF Settled, Fits, Saving
    <2> QED BY <1>1, <1>4, <2>1, ResumedFacts, KeepStep
<1> QED BY <1>1, <1>3, <1>4, EnsureRoleCases
-------------------------------------------------------------------------------
\* A command is entered: it overlaps what has not come up yet.
LEMMA StartInv ==
    ASSUME Inv, NEW p \in Procs, NEW c \in Commands, Start(p, c)
    PROVE  Inv'
<1> USE DEF Inv
<1>1. /\ pc[p] = "idle" /\ starts < MaxStarts /\ starts' = starts + 1
      /\ pc'[p] = "load" /\ then'[p] = "idle" /\ command'[p] = c
      /\ \A q \in Procs \ {p} :
            pc'[q] = pc[q] /\ then'[q] = then[q] /\ command'[q] = command[q]
      /\ \A q \in Procs : alone'[q] = IF q = p THEN \A r \in Procs : ~Starting(r)
                                      ELSE alone[q] /\ ~Starting(q)
      /\ latest' = (IF c.name \in {"serve", "connect"} THEN p ELSE latest)
      /\ report' = {}
    BY DEF Start, At, Goto, TypeOK
<1>2. UNCHANGED <<config, identity, mem, key, reachable, generated>>
    BY DEF Start, files
<1>3. TypeOK'
    <2>1. alone' \in [Procs -> BOOLEAN]
        BY DEF Start
    <2>2. pc' \in [Procs -> Steps] /\ then' \in [Procs -> Steps] /\ command' \in [Procs -> Commands]
        BY DEF Start, Goto, TypeOK, Steps
    <2>3. starts' \in 0 .. MaxStarts /\ generated \in 0 .. starts'
        BY <1>1, CliAssumption DEF TypeOK
    <2> QED BY <1>1, <1>2, <2>1, <2>2, <2>3 DEF TypeOK
<1>4. SpokeHasAddress'
    BY <1>1, <1>2 DEF SpokeHasAddress
<1>5. KeysCounted'
    <2>1. p \notin Fresh /\ Fresh' = Fresh \cup {p}
        BY <1>1 DEF Fresh, Before
    <2>2. IsFiniteSet(Fresh') /\ Cardinality(Fresh') = Cardinality(Fresh) + 1
        BY <2>1, FS_AddElement DEF KeysCounted
    <2>3. Cardinality(Fresh) \in Nat
        BY FS_CardinalityType DEF KeysCounted
    <2> QED BY <1>1, <1>2, <2>2, <2>3 DEF KeysCounted, TypeOK
<1>6. \A q \in Procs \ {p} : Starting(q)' <=> Starting(q)
    BY <1>1 DEF Starting
<1>7. \A q \in Procs \ {p} : \A name : Is(q, name)' <=> Is(q, name)
    BY <1>1 DEF Is
<1>8. ASSUME NEW q \in Procs PROVE Orderly(q)'
    <2>1. CASE q = p
        BY <1>1, <1>2, <2>1 DEF Orderly, Saving
    <2>2. CASE q # p
        BY <1>1, <1>2, <1>7, <2>2 DEF Orderly
    <2> QED BY <2>1, <2>2
<1>9. ASSUME NEW q \in Procs PROVE Solitary(q)'
    BY <1>1, <1>6 DEF Solitary
<1>10. ASSUME NEW q \in Procs PROVE Identified(q)'
    BY <1>1, <1>2 DEF Identified
<1>11. ASSUME NEW q \in Procs PROVE Settled(q)'
    <2>1. CASE q = p /\ latest' = p
        <3>1. c.name \in {"serve", "connect"}
            BY <1>1, <2>1 DEF Settled
        <3> QED BY <1>1, <2>1, <3>1 DEF Settled, Is, At, Saving, Fits
    <2>2. CASE q # p /\ latest' = q
        <3>1. latest = q /\ c.name \notin {"serve", "connect"}
            BY <1>1, <2>2
        <3>2. ~Is(p, "serve")' /\ ~Is(p, "connect")' /\ pc'[p] \notin Saving
            BY <1>1, <3>1 DEF Is, Saving
        <3>3. \A i, f, d : Fits(q, i, f, d)' <=> Fits(q, i, f, d)
            BY <1>7, <2>2 DEF Fits, Role, Parsed, Default
        <3> QED BY <1>1, <1>2, <1>6, <1>7, <2>2, <3>1, <3>2, <3>3 DEF Settled, At
    <2>3. CASE latest' # q
        BY <2>3 DEF Settled
    <2> QED BY <2>1, <2>2, <2>3
<1> QED BY <1>3, <1>4, <1>5, <1>8, <1>9, <1>10, <1>11

\* A process ends, wherever it is.
LEMMA EndInv ==
    ASSUME Inv, NEW p \in Procs, End(p)
    PROVE  Inv'
<1> USE DEF Inv
<1>1. /\ pc'[p] = "idle" /\ then'[p] = "idle" /\ mem'[p] = Default /\ ~alone'[p]
      /\ \A q \in Procs \ {p} :
            /\ pc'[q] = pc[q] /\ then'[q] = then[q] /\ command'[q] = command[q]
            /\ mem'[q] = mem[q] /\ key'[q] = key[q] /\ alone'[q] = alone[q]
      /\ latest' = (IF latest = p THEN None ELSE latest)
      /\ UNCHANGED <<config, identity, report, generated, starts>>
    BY DEF End, Goto, TypeOK, files
<1>2. TypeOK'
    BY ConfigFacts DEF End, Goto, TypeOK, files, Steps, Commands
<1>3. SpokeHasAddress'
    BY <1>1 DEF SpokeHasAddress
<1>4. KeysCounted'
    <2>1. Fresh' \subseteq Fresh
        BY <1>1 DEF Fresh, Before
    <2> QED BY <1>1, <2>1, CountKept
<1>5. \A q \in Procs : Starting(q)' => Starting(q) /\ q # p
    BY <1>1 DEF Starting
<1>6. \A q \in Procs \ {p} : \A name : Is(q, name)' <=> Is(q, name)
    BY <1>1 DEF Is
<1>7. ASSUME NEW q \in Procs PROVE Orderly(q)'
    <2>1. CASE q = p
        BY <1>1, <2>1, ConfigFacts DEF Orderly, Saving
    <2>2. CASE q # p
        BY <1>1, <1>6, <2>2 DEF Orderly
    <2> QED BY <2>1, <2>2
<1>8. ASSUME NEW q \in Procs PROVE Solitary(q)' /\ Identified(q)'
    <2>1. CASE q = p
        BY <1>1, <2>1 DEF Solitary, Identified
    <2>2. CASE q # p
        BY <1>1, <1>5, <2>2 DEF Solitary, Identified
    <2> QED BY <2>1, <2>2
<1>9. ASSUME NEW q \in Procs, q = latest' PROVE Settled(q)'
    <2>1. q # p /\ q = latest
        BY <1>1, <1>9, CliAssumption
    <2>2. \A i, f, d : Fits(q, i, f, d)' <=> Fits(q, i, f, d)
        BY <1>6, <2>1 DEF Fits, Role, Parsed, Default
    <2> QED BY <1>1, <1>5, <1>6, <2>1, <2>2 DEF Settled, At
<1>10. ASSUME NEW q \in Procs, q # latest' PROVE Settled(q)'
    BY <1>10 DEF Settled
<1> QED BY <1>2, <1>3, <1>4, <1>7, <1>8, <1>9, <1>10

\* What the last serve or connect relies on is out of reach for the writes of
\* others: who writes overlaps its start-up, or found the file written.
LEMMA NobodyElseWrites ==
    ASSUME Inv, NEW p \in Procs, NEW q \in Procs \ {p},
           pc[p] \in Saving, q = latest, alone[q]
    PROVE  pc[q] = "done"
<1>1. Starting(p)
    BY DEF Saving, Starting
<1>2. ~Starting(q)
    BY <1>1 DEF Inv, Solitary
<1>3. pc[q] # "running" /\ pc[q] # "idle"
    BY <1>1 DEF Inv, Settled, At
<1> QED BY <1>2, <1>3 DEF Starting

\* The first half of config::save: the file is empty (config.rs:185-190).
LEMMA TruncateInv ==
    ASSUME Inv, NEW p \in Procs, Truncate(p)
    PROVE  Inv'
<1> USE DEF Inv
<1>1. /\ pc[p] = "truncate" /\ pc'[p] = "fill" /\ config' = Empty
      /\ \A q \in Procs \ {p} : pc'[q] = pc[q]
      /\ UNCHANGED <<identity, then, command, mem, key, reachable, report,
                     generated, starts, alone, latest>>
    BY DEF Truncate, At, TypeOK, history
<1>2. TypeOK'
    BY <1>1 DEF TypeOK, Truncate, Steps
<1>3. SpokeHasAddress'
    BY <1>1, FilesAssumption DEF SpokeHasAddress
<1>4. KeysCounted'
    <2>1. Fresh' \subseteq Fresh
        BY <1>1 DEF Fresh, Before
    <2> QED BY <1>1, <2>1, CountKept
<1>5. /\ \A q \in Procs : Starting(q)' <=> Starting(q)
      /\ \A q \in Procs : \A name : Is(q, name)' <=> Is(q, name)
    BY <1>1 DEF Starting, Is
<1>6. ASSUME NEW q \in Procs PROVE Orderly(q)' /\ Solitary(q)' /\ Identified(q)'
    BY <1>1, <1>5 DEF Orderly, Solitary, Identified, Saving
<1>7. ASSUME NEW q \in Procs, q = latest PROVE Settled(q)'
    <2>1. \A i, f, d : Fits(q, i, f, d)' <=> Fits(q, i, f, d)
        BY <1>5 DEF Fits, Role, Parsed, Default
    <2>2. CASE q = p
        BY <1>1, <1>5, <1>7, <2>1, <2>2 DEF Settled, At, Saving
    <2>3. CASE q # p
        <3>1. alone[q] => pc[q] = "done" /\ pc'[q] = "done"
            BY <1>1, <1>7, <2>3, NobodyElseWrites DEF Saving
        <3>2. Fits(q, "done", Empty, mem[q])
            BY DEF Fits
        <3> QED BY <1>1, <1>5, <1>7, <2>1, <2>3, <3>1, <3>2 DEF Settled, At, Saving
    <2> QED BY <2>2, <2>3
<1>8. ASSUME NEW q \in Procs, q # latest PROVE Settled(q)'
    BY <1>1, <1>8 DEF Settled
<1> QED BY <1>2, <1>3, <1>4, <1>6, <1>7, <1>8

\* The second half: the file is what the process has in memory.
LEMMA FillInv ==
    ASSUME Inv, NEW p \in Procs, Fill(p)
    PROVE  Inv'
<1> USE DEF Inv
<1>1. /\ pc[p] = "fill" /\ pc'[p] = then[p] /\ then'[p] = "idle" /\ config' = mem[p]
      /\ then[p] \in Resumed /\ mem[p] \in Configs
      /\ \A q \in Procs \ {p} : pc'[q] = pc[q] /\ then'[q] = then[q]
      /\ UNCHANGED <<identity, command, mem, key, reachable, report,
                     generated, starts, alone, latest>>
    BY DEF Fill, At, Goto, TypeOK, history, Orderly, Saving
<1>2. TypeOK'
    BY <1>1 DEF TypeOK, Fill, Goto, Steps
<1>3. SpokeHasAddress'
    BY <1>1 DEF SpokeHasAddress, Orderly
<1>4. KeysCounted'
    <2>1. Fresh' \subseteq Fresh
        BY <1>1 DEF Fresh, Before
    <2> QED BY <1>1, <2>1, CountKept
<1>5. /\ Starting(p)
      /\ \A q \in Procs : Starting(q)' => Starting(q)
      /\ \A q \in Procs : \A name : Is(q, name)' <=> Is(q, name)
    BY <1>1 DEF Starting, Is
<1>6. ASSUME NEW q \in Procs PROVE Orderly(q)'
    <2>1. CASE q = p
        BY <1>1, <1>5, <2>1 DEF Orderly, Saving, Resumed
    <2>2. CASE q # p
        BY <1>1, <1>5, <2>2 DEF Orderly
    <2> QED BY <2>1, <2>2
<1>7. ASSUME NEW q \in Procs PROVE Solitary(q)' /\ Identified(q)'
    BY <1>1, <1>5 DEF Solitary, Identified, Resumed
<1>8. ASSUME NEW q \in Procs, q = latest PROVE Settled(q)'
    <2>1. \A i, f, d : Fits(q, i, f, d)' <=> Fits(q, i, f, d)
        BY <1>5 DEF Fits, Role, Parsed, Default
    <2>2. CASE q = p
        BY <1>1, <1>5, <1>8, <2>1, <2>2 DEF Settled, At, Saving, Resumed
    <2>3. CASE q # p
        <3>1. alone[q] => pc[q] = "done" /\ pc'[q] = "done"
            BY <1>1, <1>8, <2>3, NobodyElseWrites DEF Saving
        <3>2. Fits(q, "done", mem[p], mem[q])
            BY DEF Fits
        <3> QED BY <1>1, <1>5, <1>8, <2>1, <2>3, <3>1, <3>2 DEF Settled, At, Saving
    <2> QED BY <2>2, <2>3
<1>9. ASSUME NEW q \in Procs, q # latest PROVE Settled(q)'
    BY <1>1, <1>9 DEF Settled
<1> QED BY <1>2, <1>3, <1>4, <1>6, <1>7, <1>8, <1>9
-------------------------------------------------------------------------------
Later == {"identify", "keygen", "keyfill", "boot", "report"}

\* What the steps after the configuration leave as it was: what is orderly,
\* alone and settled. Who comes up alone finds no other on its way.
LEMMA LaterStep ==
    ASSUME Inv, NEW p \in Procs, NEW step \in Later \cup {"running", "done"},
           pc[p] \in Later, Goto(p, step),
           step # "report", step # "identify",
           step \in {"keygen", "keyfill"} => key'[p] \in Keys,
           step = "running" => pc[p] = "boot",
           pc[p] = "report" => step = "done",
           \A q \in Procs \ {p} : key'[q] = key[q],
           UNCHANGED <<config, command, mem, alone, latest>>
    PROVE  \A q \in Procs : Orderly(q)' /\ Solitary(q)' /\ Settled(q)'
<1> USE DEF Inv
<1>1. /\ pc'[p] = step /\ then'[p] = "idle"
      /\ \A q \in Procs \ {p} : pc'[q] = pc[q] /\ then'[q] = then[q]
    BY DEF Goto, TypeOK
<1>2. /\ Starting(p)
      /\ \A q \in Procs : Starting(q)' => Starting(q)
      /\ \A q \in Procs : \A name : Is(q, name)' <=> Is(q, name)
    BY <1>1 DEF Starting, Is, Later
<1>3. ASSUME NEW q \in Procs PROVE Orderly(q)'
    <2>1. CASE q = p
        BY <1>1, <1>2, <2>1 DEF Orderly, Saving, Later
    <2>2. CASE q # p
        BY <1>1, <1>2, <2>2 DEF Orderly
    <2> QED BY <2>1, <2>2
<1>4. ASSUME NEW q \in Procs PROVE Solitary(q)'
    BY <1>2 DEF Solitary
<1>5. ASSUME NEW q \in Procs, q = latest PROVE Settled(q)'
    <2>1. \A i, f, d : Fits(q, i, f, d)' <=> Fits(q, i, f, d)
        BY <1>2 DEF Fits, Role, Parsed, Default
    <2>2. CASE q = p
        <3>1. alone[p] => Fits(p, step, config, mem[p])
            BY <1>5, <2>2 DEF Settled, Fits, Later, Saving
        <3>2. alone[p] => \A r \in Procs \ {p} : ~Starting(r)
            BY <1>2 DEF Solitary
        <3>3. step = "running" => ~Starting(p)'
            BY <1>1 DEF Starting
        <3> QED BY <1>1, <1>2, <1>5, <2>1, <2>2, <3>1, <3>2, <3>3
                DEF Settled, At, Saving, Later
    <2>3. CASE q # p
        <3>1. \A r \in Procs : Starting(r)' /\ pc[r] \notin Saving => pc'[r] \notin Saving
            BY <1>1 DEF Saving, Later
        <3> QED BY <1>1, <1>2, <1>5, <2>1, <2>3, <3>1 DEF Settled, At
    <2> QED BY <2>2, <2>3
<1>6. ASSUME NEW q \in Procs, q # latest PROVE Settled(q)'
    BY <1>6 DEF Settled
<1> QED BY <1>3, <1>4, <1>5, <1>6

\* load_or_generate: the key of the file, or a new one (identity.rs:31-40).
LEMMA IdentifyInv ==
    ASSUME Inv, NEW p \in Procs, Identify(p)
    PROVE  Inv'
<1> USE DEF Inv
<1>1. /\ pc[p] = "identify"
      /\ UNCHANGED <<config, identity, command, mem, reachable, report, starts,
                     alone, latest>>
    BY DEF Identify, At, files, history
<1>2. SpokeHasAddress'
    BY <1>1 DEF SpokeHasAddress
<1>3. Starting(p) /\ p \in Fresh
    BY <1>1 DEF Starting, Fresh, Before
<1>4. CASE identity = Missing
    <2>1. /\ generated' = generated + 1 /\ key' = [key EXCEPT ![p] = generated']
          /\ Goto(p, "keygen")
        BY <1>4 DEF Identify, Absent
    <2>2. pc'[p] = "keygen" /\ \A q \in Procs \ {p} : pc'[q] = pc[q]
        BY <2>1 DEF Goto, TypeOK
    <2>3. Fresh' = Fresh \ {p}
        BY <2>2 DEF Fresh, Before
    <2>4. /\ IsFiniteSet(Fresh') /\ Cardinality(Fresh') = Cardinality(Fresh) - 1
          /\ Cardinality(Fresh) \in Nat /\ Cardinality(Fresh') \in Nat
        BY <1>3, <2>3, FS_RemoveElement, FS_CardinalityType DEF KeysCounted
    <2>5. KeysCounted' /\ generated' \in 0 .. starts
        BY <1>1, <2>1, <2>4 DEF KeysCounted, TypeOK
    <2>6. generated' \in Keys
        BY <2>1, <2>5, CliAssumption DEF Keys, TypeOK
    <2>7. TypeOK'
        BY <1>1, <2>1, <2>5, <2>6 DEF TypeOK, Goto, Steps
    <2>8. key'[p] \in Keys /\ \A q \in Procs \ {p} : key'[q] = key[q]
        BY <2>1, <2>6 DEF TypeOK
    <2>9. \A q \in Procs : Orderly(q)' /\ Solitary(q)' /\ Settled(q)'
        BY <1>1, <2>1, <2>8, LaterStep DEF Later
    <2>10. \A q \in Procs : Identified(q)'
        BY <1>1, <1>4, <2>2, FilesAssumption DEF Identified
    <2> QED BY <1>2, <2>5, <2>7, <2>9, <2>10
<1>5. CASE identity = Empty
    <2>1. Goto(p, "done") /\ UNCHANGED <<key, generated>>
        BY <1>5, FilesAssumption DEF Identify, Absent
    <2>2. pc'[p] = "done" /\ \A q \in Procs \ {p} : pc'[q] = pc[q]
        BY <2>1 DEF Goto, TypeOK
    <2>3. Fresh' \subseteq Fresh
        BY <2>2 DEF Fresh, Before
    <2>4. KeysCounted'
        BY <1>1, <2>1, <2>3, CountKept
    <2>5. TypeOK'
        BY <1>1, <2>1 DEF TypeOK, Goto, Steps
    <2>6. \A q \in Procs : Orderly(q)' /\ Solitary(q)' /\ Settled(q)'
        BY <1>1, <2>1, LaterStep DEF Later
    <2>7. \A q \in Procs : Identified(q)'
        BY <1>1, <1>5, <2>2, FilesAssumption DEF Identified
    <2> QED BY <1>2, <2>4, <2>5, <2>6, <2>7
<1>6. CASE identity \in Keys
    <2>1. Goto(p, "boot") /\ key' = [key EXCEPT ![p] = identity] /\ UNCHANGED generated
        BY <1>6, FilesAssumption DEF Identify, Absent
    <2>2. pc'[p] = "boot" /\ \A q \in Procs \ {p} : pc'[q] = pc[q]
        BY <2>1 DEF Goto, TypeOK
    <2>3. Fresh' \subseteq Fresh
        BY <2>2 DEF Fresh, Before
    <2>4. KeysCounted'
        BY <1>1, <2>1, <2>3, CountKept
    <2>5. TypeOK'
        BY <1>1, <1>6, <2>1 DEF TypeOK, Goto, Steps
    <2>6. key'[p] = identity /\ \A q \in Procs \ {p} : key'[q] = key[q]
        BY <2>1 DEF TypeOK
    <2>7. \A q \in Procs : Orderly(q)' /\ Solitary(q)' /\ Settled(q)'
        BY <1>1, <2>1, <2>6, LaterStep DEF Later
    <2>8. ASSUME NEW q \in Procs PROVE Identified(q)'
        <3>1. CASE q = p
            <4>1. alone[p] => \A r \in Procs \ {p} : pc[r] \notin {"keygen", "keyfill"}
                BY <1>3 DEF Solitary, Starting
            <4> QED BY <1>1, <1>6, <2>2, <2>6, <3>1, <4>1 DEF Identified
        <3>2. CASE q # p
            BY <1>1, <2>2, <2>6, <3>2 DEF Identified
        <3> QED BY <3>1, <3>2
    <2> QED BY <1>2, <2>4, <2>5, <2>7, <2>8
<1> QED BY <1>4, <1>5, <1>6 DEF TypeOK

\* The new key is written: first the file is empty...
LEMMA TruncateKeyInv ==
    ASSUME Inv, NEW p \in Procs, TruncateKey(p)
    PROVE  Inv'
<1> USE DEF Inv
<1>1. /\ pc[p] = "keygen" /\ Goto(p, "keyfill") /\ identity' = Empty
      /\ UNCHANGED <<config, command, mem, key, reachable, report, generated,
                     starts, alone, latest>>
    BY DEF TruncateKey, At, history
<1>2. pc'[p] = "keyfill" /\ \A q \in Procs \ {p} : pc'[q] = pc[q]
    BY <1>1 DEF Goto, TypeOK
<1>3. TypeOK'
    BY <1>1 DEF TypeOK, Goto, Steps
<1>4. SpokeHasAddress'
    BY <1>1 DEF SpokeHasAddress
<1>5. KeysCounted'
    <2>1. Fresh' \subseteq Fresh
        BY <1>2 DEF Fresh, Before
    <2> QED BY <1>1, <2>1, CountKept
<1>6. key[p] \in Keys
    BY <1>1 DEF Orderly
<1>7. \A q \in Procs : Orderly(q)' /\ Solitary(q)' /\ Settled(q)'
    BY <1>1, <1>6, LaterStep DEF Later
<1>8. \A q \in Procs : Identified(q)'
    BY <1>1, <1>2 DEF Identified
<1> QED BY <1>3, <1>4, <1>5, <1>7, <1>8

\* ... then it holds the key.
LEMMA FillKeyInv ==
    ASSUME Inv, NEW p \in Procs, FillKey(p)
    PROVE  Inv'
<1> USE DEF Inv
<1>1. /\ pc[p] = "keyfill" /\ Goto(p, "boot") /\ identity' = key[p]
      /\ UNCHANGED <<config, command, mem, key, reachable, report, generated,
                     starts, alone, latest>>
    BY DEF FillKey, At, history
<1>2. pc'[p] = "boot" /\ \A q \in Procs \ {p} : pc'[q] = pc[q]
    BY <1>1 DEF Goto, TypeOK
<1>3. key[p] \in Keys /\ Starting(p)
    BY <1>1 DEF Orderly, Starting
<1>4. TypeOK'
    BY <1>1, <1>3 DEF TypeOK, Goto, Steps
<1>5. SpokeHasAddress'
    BY <1>1 DEF SpokeHasAddress
<1>6. KeysCounted'
    <2>1. Fresh' \subseteq Fresh
        BY <1>2 DEF Fresh, Before
    <2> QED BY <1>1, <2>1, CountKept
<1>7. \A q \in Procs : Orderly(q)' /\ Solitary(q)' /\ Settled(q)'
    BY <1>1, <1>3, LaterStep DEF Later
<1>8. ASSUME NEW q \in Procs PROVE Identified(q)'
    <2>1. CASE q = p
        <3>1. alone[p] => \A r \in Procs \ {p} : pc[r] \notin {"keygen", "keyfill"}
            BY <1>3 DEF Solitary, Starting
        <3> QED BY <1>1, <1>2, <1>3, <2>1, <3>1 DEF Identified
    <2>2. CASE q # p
        BY <1>1, <1>2, <2>2 DEF Identified
    <2> QED BY <2>1, <2>2
<1> QED BY <1>4, <1>5, <1>6, <1>7, <1>8

\* bootstrap returns a runtime, or an error.
LEMMA BootInv ==
    ASSUME Inv, NEW p \in Procs, Boot(p)
    PROVE  Inv'
<1> USE DEF Inv
<1>1. PICK step \in {"done", "running"} : Goto(p, step)
    BY DEF Boot
<1>2. /\ pc[p] = "boot"
      /\ UNCHANGED <<config, identity, command, mem, key, reachable, report,
                     generated, starts, alone, latest>>
    BY DEF Boot, At, OnlyProcess, files, history
<1>3. pc'[p] = step /\ \A q \in Procs \ {p} : pc'[q] = pc[q]
    BY <1>1 DEF Goto, TypeOK
<1>4. TypeOK'
    BY <1>1, <1>2 DEF TypeOK, Goto, Steps
<1>5. SpokeHasAddress'
    BY <1>2 DEF SpokeHasAddress
<1>6. KeysCounted'
    <2>1. Fresh' \subseteq Fresh
        BY <1>3 DEF Fresh, Before
    <2> QED BY <1>2, <2>1, CountKept
<1>7. \A q \in Procs : Orderly(q)' /\ Solitary(q)' /\ Settled(q)'
    BY <1>1, <1>2, LaterStep DEF Later
<1>8. \A q \in Procs : Identified(q)'
    BY <1>2, <1>3 DEF Identified
<1> QED BY <1>4, <1>5, <1>6, <1>7, <1>8

\* The report on a spoke with an address does not miss it.
LEMMA RoleChecksFacts ==
    ASSUME NEW cfg, cfg.role = "spoke" => cfg.addr # None
    PROVE  /\ RoleChecks(cfg) \subseteq Checks \X {"Ok", "Warn", "Fail"}
           /\ <<"spoke server addr", "Fail">> \notin RoleChecks(cfg)
<1> DEFINE Lines == Checks \X {"Ok", "Warn", "Fail"}
<1>1. PICK a, b \in {"Ok", "Fail"} :
         \/ RoleChecks(cfg) = {<<"hub bind", a>>, <<"firewall hint", "Warn">>}
         \/ RoleChecks(cfg) = {<<"role", "Warn">>}
         \/ RoleChecks(cfg) = {<<"spoke server addr", "Ok">>, <<"spoke reachability", b>>}
    BY DEF RoleChecks
<1>2. /\ <<"hub bind", a>> \in Lines /\ <<"firewall hint", "Warn">> \in Lines
      /\ <<"role", "Warn">> \in Lines
      /\ <<"spoke server addr", "Ok">> \in Lines /\ <<"spoke reachability", b>> \in Lines
    BY DEF Checks
<1>3. \A v : /\ <<"hub bind", v>> # <<"spoke server addr", "Fail">>
             /\ <<"firewall hint", v>> # <<"spoke server addr", "Fail">>
             /\ <<"role", v>> # <<"spoke server addr", "Fail">>
             /\ <<"spoke reachability", v>> # <<"spoke server addr", "Fail">>
    OBVIOUS
<1>4. <<"spoke server addr", "Ok">> # <<"spoke server addr", "Fail">>
    OBVIOUS
<1> HIDE DEF Lines
<1>5. RoleChecks(cfg) \subseteq Lines
    BY <1>1, <1>2
<1>6. <<"spoke server addr", "Fail">> \notin RoleChecks(cfg)
    BY <1>1, <1>3, <1>4
<1> QED BY <1>5, <1>6 DEF Lines

\* doctor reports on the configuration it has loaded (doctor.rs:125-171).
LEMMA DoctorInv ==
    ASSUME Inv, NEW p \in Procs, Doctor(p)
    PROVE  Inv'
<1> USE DEF Inv
<1>1. /\ pc[p] = "report" /\ Goto(p, "done") /\ report' = RoleChecks(mem[p])
      /\ UNCHANGED <<config, identity, command, mem, key, reachable, generated,
                     starts, alone, latest>>
    BY DEF Doctor, At, files, history
<1>2. pc'[p] = "done" /\ \A q \in Procs \ {p} : pc'[q] = pc[q]
    BY <1>1 DEF Goto, TypeOK
<1>3. mem[p].role = "spoke" => mem[p].addr # None
    BY DEF Orderly
<1>4. /\ RoleChecks(mem[p]) \subseteq Checks \X {"Ok", "Warn", "Fail"}
      /\ <<"spoke server addr", "Fail">> \notin RoleChecks(mem[p])
    BY <1>3, RoleChecksFacts
<1>5. TypeOK'
    BY <1>1, <1>4 DEF TypeOK, Goto, Steps
<1>6. SpokeHasAddress'
    BY <1>1, <1>4 DEF SpokeHasAddress
<1>7. KeysCounted'
    <2>1. Fresh' \subseteq Fresh
        BY <1>2 DEF Fresh, Before
    <2> QED BY <1>1, <2>1, CountKept
<1>8. \A q \in Procs : Orderly(q)' /\ Solitary(q)' /\ Settled(q)'
    BY <1>1, LaterStep DEF Later
<1>9. \A q \in Procs : Identified(q)'
    BY <1>1, <1>2 DEF Identified
<1> QED BY <1>5, <1>6, <1>7, <1>8, <1>9
-------------------------------------------------------------------------------
\* Before any command there are no files, and nobody is on the way.
LEMMA InvInit == Init => Inv
<1> SUFFICES ASSUME Init PROVE Inv
    OBVIOUS
<1>1. TypeOK
    BY CliAssumption, ConfigFacts DEF Init, TypeOK, Steps, Commands
<1>2. SpokeHasAddress
    BY FilesAssumption DEF Init, SpokeHasAddress
<1>3. KeysCounted
    <2>1. Fresh = {}
        BY DEF Init, Fresh, Before
    <2>2. IsFiniteSet(Fresh) /\ Cardinality(Fresh) = 0
        BY <2>1, FS_EmptySet
    <2> QED BY <2>2 DEF Init, KeysCounted
<1>4. ASSUME NEW p \in Procs
      PROVE  Orderly(p) /\ Solitary(p) /\ Identified(p) /\ Settled(p)
    <2>1. p # latest
        BY CliAssumption DEF Init
    <2> QED BY <2>1, ConfigFacts DEF Init, Orderly, Solitary, Identified, Settled, Saving
<1> QED BY <1>1, <1>2, <1>3, <1>4 DEF Inv

\* Every step of every process keeps the invariant.
LEMMA InvNext == Inv /\ [Next]_vars => Inv'
<1> SUFFICES ASSUME Inv, [Next]_vars PROVE Inv'
    OBVIOUS
<1>1. ASSUME NEW p \in Procs, NEW c \in Commands, Start(p, c) PROVE Inv'
    BY <1>1, StartInv
<1>2. ASSUME NEW p \in Procs,
             End(p) \/ Load(p) \/ Truncate(p) \/ Fill(p)
      PROVE  Inv'
    BY <1>2, EndInv, LoadInv, TruncateInv, FillInv
<1>3. ASSUME NEW p \in Procs,
             Serve(p) \/ Connect(p) \/ PinDown(p) \/ TakeRole(p)
      PROVE  Inv'
    BY <1>3, ServeInv, ConnectInv, PinDownInv, TakeRoleInv
<1>4. ASSUME NEW p \in Procs,
             Identify(p) \/ TruncateKey(p) \/ FillKey(p) \/ Boot(p) \/ Doctor(p)
      PROVE  Inv'
    BY <1>4, IdentifyInv, TruncateKeyInv, FillKeyInv, BootInv, DoctorInv
<1>5. CASE UNCHANGED vars
    <2>1. UNCHANGED <<config, identity, pc, then, command, mem, key, reachable,
                      report, starts, generated, alone, latest>>
        BY <1>5 DEF vars, files, procs, history
    <2>2. TypeOK' /\ SpokeHasAddress'
        BY <2>1 DEF Inv, TypeOK, SpokeHasAddress
    <2>3. Fresh' = Fresh
        BY <2>1 DEF Fresh
    <2>4. KeysCounted'
        BY <2>1, <2>3, CountKept DEF Inv
    <2>5. /\ \A p \in Procs : Starting(p)' <=> Starting(p)
          /\ \A p \in Procs : \A name : Is(p, name)' <=> Is(p, name)
          /\ \A p \in Procs : \A i, f, d : Fits(p, i, f, d)' <=> Fits(p, i, f, d)
        BY <2>1 DEF Starting, Is, Fits, Role, Parsed, Default
    <2>6. \A p \in Procs : Orderly(p)' /\ Solitary(p)' /\ Identified(p)'
        BY <2>1, <2>5 DEF Inv, Orderly, Solitary, Identified
    <2>7. \A p \in Procs : Settled(p)'
        BY <2>1, <2>5 DEF Inv, Settled, At
    <2> QED BY <2>2, <2>4, <2>6, <2>7 DEF Inv
<1> QED BY <1>1, <1>2, <1>3, <1>4, <1>5 DEF Next

\* The inductive invariant holds throughout.
THEOREM InvAlways == Spec => []Inv
<1> QED BY InvInit, InvNext, PTL DEF Spec

\* The files and processes keep their types, and a spoke that is saved or
\* diagnosed has an address, kills and overlaps included (config.rs:169-190).
THEOREM SpokesHaveAddresses == Spec => []CliInv
<1>1. Inv => CliInv
    BY DEF Inv, CliInv
<1> QED BY <1>1, InvAlways, PTL

\* All processes that came up alone are one node (identity.rs:31-52).
THEOREM OneNode == Spec => []OneIdentity
<1>1. Inv => OneIdentity
    BY DEF Inv, Identified, OneIdentity, At
<1> QED BY <1>1, InvAlways, PTL

\* What the last serve or connect runs with is what the next start will find
\* in the files (main.rs:190-258).
THEOREM RestartsComeBackTheSame == Spec => []SavedIsWhatRuns
<1>1. Inv => SavedIsWhatRuns
    <2> SUFFICES ASSUME Inv, NEW p \in Procs, p = latest, At(p, "running"), alone[p]
                 PROVE  /\ identity = key[p]
                        /\ config \in Configs /\ config.role = Role(p)
                        /\ Is(p, "connect") =>
                             /\ config.pin = mem[p].pin
                             /\ config.addr = mem[p].addr \/ mem[p].pin = None
        BY DEF SavedIsWhatRuns
    <2>1. Identified(p) /\ Fits(p, "running", config, mem[p])
        BY DEF Inv, Settled, At, Saving
    <2> QED BY <2>1 DEF Identified, Fits, At
<1> QED BY <1>1, InvAlways, PTL
===============================================================================
