------------------------------- MODULE Pairing --------------------------------
(***************************************************************************)
(* Who talks to whom: identities and trusted peers on disk, the spoke's    *)
(* pinned hub, the dial loop of a spoke and the accept loop of a hub, the  *)
(* SignedHello handshake between them, and processes that stop, crash in   *)
(* the middle of a file write, and start again (crates/transport,          *)
(* crates/cli/src/main.rs, crates/cli/src/runtime/client.rs).              *)
(*                                                                         *)
(* Signatures are left out: every machine here signs its own hello over    *)
(* the exporter of the very session it speaks on, so they always verify.   *)
(* Time is left out: the delays of the backoff and of the accept loop.     *)
(***************************************************************************)
EXTENDS Naturals, FiniteSets, Sequences

CONSTANTS
    Spokes, Hubs,
    Desktops,       \* the spokes with a local clipboard backend
    Addresses,      \* the hubs the configured host name resolves to, in order
    MaxStarts,      \* bound: processes started in a run
    MaxLinks,       \* bound: connections that exist at a time
    MaxFaults       \* bound: file writes that fail or are cut short

Machines == Spokes \cup Hubs
Keys == Machines \X (1 .. MaxStarts)
NoKey == <<>>
Elsewhere == <<"elsewhere">>    \* the key of a hub that is not in the model
Nobody == <<>>
Absent == <<"absent">>
Short == <<"short">>
CorruptPeers == {<<"corrupt">>}
CorruptConfig == [role |-> "corrupt", pin |-> NoKey]

ASSUME PairingAssumption ==
    /\ Spokes \cap Hubs = {}
    /\ Desktops \subseteq Spokes
    /\ Addresses \in Seq(Hubs) /\ Addresses # <<>>
    /\ {MaxStarts, MaxLinks, MaxFaults} \subseteq Nat

Links == 1 .. MaxLinks
NoLink == [spoke |-> Nobody, hub |-> Nobody, s |-> "none", h |-> "none",
           sHello |-> NoKey, hHello |-> NoKey]
Gone == {"none", "closed"}

VARIABLES
    idFile,     \* idFile[m]: the key in identity.key
    peerFile,   \* peerFile[m]: the keys in known_peers.toml
    config,     \* config[s]: role and pin in the config.toml of a spoke
    up,         \* the machines whose process runs
    key,        \* key[m]: the identity its process signs with
    known,      \* known[m]: its PeerStore in memory
    tofu,       \* tofu[m]: started with --pair or --accept-new-peers
    pin,        \* pin[s]: the key the running spoke insists on
    rest,       \* rest[s]: addresses left in this attempt of run_once
    link,       \* link[c]: both ends of a connection
    backlog,    \* backlog[h]: connections not yet accepted
    gens,       \* gens[m]: keys machine m has generated
    told,       \* told[s]: the last pin the user of s gave
    paired,     \* the pairs that had a session open at both ends
    lost,       \* the <<machine, file>> whose write failed or was cut short
    starts, faults

diskVars == <<idFile, peerFile, config>>
procVars == <<up, key, known, tofu, pin>>
netVars == <<link, backlog, rest>>
ghostVars == <<gens, told, paired, lost, starts, faults>>
vars == <<diskVars, procVars, netVars, ghostVars>>

Configs == [role : {"unset", "spoke"}, pin : Keys \cup {NoKey, Elsewhere}]

Connections ==
    [spoke : Spokes \cup {Nobody}, hub : Hubs \cup {Nobody},
     s : {"none", "tls", "read", "up", "drain", "closed"},
     h : {"none", "backlog", "tls", "read", "check", "up", "closed"},
     sHello : Keys \cup {NoKey}, hHello : Keys \cup {NoKey}]

TypeOK ==
    /\ idFile \in [Machines -> Keys \cup {Absent, Short}]
    /\ peerFile \in [Machines -> (SUBSET Keys) \cup {CorruptPeers}]
    /\ config \in [Spokes -> Configs \cup {CorruptConfig}]
    /\ up \subseteq Machines
    /\ key \in [Machines -> Keys \cup {NoKey}]
    /\ known \in [Machines -> SUBSET Keys]
    /\ tofu \in [Machines -> BOOLEAN]
    /\ pin \in [Spokes -> Keys \cup {NoKey, Elsewhere}]
    /\ rest \in [Spokes -> Seq(Hubs)]
    /\ link \in [Links -> Connections]
    /\ backlog \in [Hubs -> Seq(Links)]
    /\ gens \in [Machines -> 0 .. MaxStarts]
    /\ told \in [Spokes -> Keys \cup {NoKey, Elsewhere}]
    /\ paired \subseteq Spokes \X Hubs
    /\ lost \subseteq Machines \X {"identity", "peers", "config"}
    /\ starts \in 0 .. MaxStarts /\ faults \in 0 .. MaxFaults

Init ==
    /\ idFile = [m \in Machines |-> Absent]
    /\ peerFile = [m \in Machines |-> {}]
    /\ config = [s \in Spokes |-> [role |-> "unset", pin |-> NoKey]]
    /\ up = {}
    /\ key = [m \in Machines |-> NoKey]
    /\ known = [m \in Machines |-> {}]
    /\ tofu = [m \in Machines |-> FALSE]
    /\ pin = [s \in Spokes |-> NoKey]
    /\ rest = [s \in Spokes |-> <<>>]
    /\ link = [c \in Links |-> NoLink]
    /\ backlog = [h \in Hubs |-> <<>>]
    /\ gens = [m \in Machines |-> 0]
    /\ told = [s \in Spokes |-> NoKey]
    /\ paired = {} /\ lost = {} /\ starts = 0 /\ faults = 0
-------------------------------------------------------------------------------
(* Files. fs::write truncates the file and then fills it, so a write that   *)
(* fails or is cut short leaves a prefix. A prefix of a TOML file may parse *)
(* (tables that are missing take their defaults) or not.                    *)

Fault(m, file) ==
    /\ faults < MaxFaults
    /\ faults' = faults + 1
    /\ lost' = lost \cup {<<m, file>>}

PeerPrefixes(S) == {CorruptPeers} \cup (SUBSET S)

ConfigPrefixes ==
    {CorruptConfig} \cup [role : {"unset", "spoke"}, pin : {NoKey}]

\* Mutant of Identity: a new key in every run.
IdentityRenewed(m) == <<m, gens[m] + 1>>

\* Identity::load_or_generate: the key in the file, or a new one.
Identity(m) == IF idFile[m] = Absent THEN <<m, gens[m] + 1>> ELSE idFile[m]

\* The identity and the peer store of m can be loaded.
Loads(m) == idFile[m] # Short /\ peerFile[m] # CorruptPeers

\* bootstrap: identity, then peer store, then the rest of the process.
Boot(m, trusting) ==
    /\ up' = up \cup {m}
    /\ key' = [key EXCEPT ![m] = Identity(m)]
    /\ idFile' = [idFile EXCEPT ![m] = Identity(m)]
    /\ gens' = [gens EXCEPT ![m] = Identity(m)[2]]
    /\ known' = [known EXCEPT ![m] = peerFile[m]]
    /\ tofu' = [tofu EXCEPT ![m] = trusting]

Start == starts < MaxStarts /\ starts' = starts + 1

\* `borderless serve`, with or without --accept-new-peers.
StartHub(h, trusting) ==
    /\ h \notin up /\ Loads(h) /\ Start
    /\ Boot(h, trusting)
    /\ UNCHANGED <<peerFile, config, pin, netVars, told, paired, lost, faults>>

\* The pin of this run: the argument, or else the one saved.
Expected(s, given) == IF given # NoKey THEN given ELSE config[s].pin

\* Mutant of Saved: the pin of the run is not saved.
SavedRoleOnly(s, given) == [role |-> "spoke", pin |-> config[s].pin]

\* Mutant of Saved: the role of the other subcommand.
SavedAsHub(s, given) == [role |-> "hub", pin |-> Expected(s, given)]

\* What `borderless connect` leaves in the config file.
Saved(s, given) == [role |-> "spoke", pin |-> Expected(s, given)]

\* The file is written for a new role, and in every run that has a pin.
SavesConfig(s, given) ==
    config[s].role # "spoke" \/ Expected(s, given) # NoKey

\* `borderless connect`, with or without --pair and --pin.
StartSpoke(s, trusting, given) ==
    /\ s \notin up /\ config[s] # CorruptConfig /\ Start
    /\ config' = IF SavesConfig(s, given)
                 THEN [config EXCEPT ![s] = Saved(s, given)] ELSE config
    /\ told' = IF given # NoKey THEN [told EXCEPT ![s] = given] ELSE told
    /\ IF Loads(s)
       THEN Boot(s, trusting) /\ pin' = [pin EXCEPT ![s] = Expected(s, given)]
       ELSE UNCHANGED <<idFile, procVars, gens>>
    /\ UNCHANGED <<peerFile, netVars, paired, lost, faults>>

\* The process ends while it writes its config...
StartLosesConfig(s, given) ==
    /\ s \notin up /\ config[s] # CorruptConfig /\ SavesConfig(s, given) /\ Start
    /\ Fault(s, "config")
    /\ \E left \in ConfigPrefixes : config' = [config EXCEPT ![s] = left]
    /\ told' = IF given # NoKey THEN [told EXCEPT ![s] = given] ELSE told
    /\ UNCHANGED <<idFile, peerFile, procVars, netVars, gens, paired>>

\* ... or its new identity.
StartLosesIdentity(m) ==
    /\ m \notin up /\ idFile[m] = Absent /\ Start
    /\ Fault(m, "identity")
    /\ idFile' = [idFile EXCEPT ![m] = Short]
    /\ gens' = [gens EXCEPT ![m] = @ + 1]
    /\ UNCHANGED <<peerFile, config, procVars, netVars, told, paired>>
-------------------------------------------------------------------------------
(* Connections. A connection whose two ends are gone is forgotten.          *)

Kept(l) == IF l.s \in Gone /\ l.h \in Gone THEN NoLink ELSE l

SetLink(c, l) == link' = [link EXCEPT ![c] = Kept(l)]

\* The connection once the process of m has ended.
Without(l, m) ==
    [l EXCEPT !.s = IF l.spoke = m THEN "closed" ELSE @,
              !.h = IF l.hub = m THEN "closed" ELSE @]

\* The process of m ends: what it held in memory is gone, its ends close.
Ends(m) ==
    /\ up' = up \ {m}
    /\ key' = [key EXCEPT ![m] = NoKey]
    /\ known' = [known EXCEPT ![m] = {}]
    /\ tofu' = [tofu EXCEPT ![m] = FALSE]
    /\ pin' = IF m \in Spokes THEN [pin EXCEPT ![m] = NoKey] ELSE pin
    /\ rest' = IF m \in Spokes THEN [rest EXCEPT ![m] = <<>>] ELSE rest
    /\ backlog' = IF m \in Hubs THEN [backlog EXCEPT ![m] = <<>>] ELSE backlog
    /\ link' = [c \in Links |-> Kept(Without(link[c], m))]

\* Ctrl-C or a crash, at any moment.
Stop(m) ==
    /\ m \in up
    /\ Ends(m)
    /\ UNCHANGED <<diskVars, ghostVars>>

\* The spoke dials or has a session; without a connection it is between two
\* dials.
Engaged(s) == \E c \in Links : link[c].spoke = s /\ link[c].s \notin Gone

\* run_once tries the addresses in order, and run starts over at the end.
Candidates(s) == IF rest[s] = <<>> THEN Addresses ELSE rest[s]

Dial(s) ==
    /\ s \in up /\ ~Engaged(s)
    /\ rest' = [rest EXCEPT ![s] = Tail(Candidates(s))]
    /\ LET h == Head(Candidates(s)) IN
       IF h \notin up THEN UNCHANGED <<link, backlog>>
       ELSE \E c \in Links :
              /\ link[c] = NoLink
              /\ \A d \in Links : link[d] = NoLink => c <= d
              /\ link' = [link EXCEPT ![c] = [NoLink EXCEPT !.spoke = s,
                            !.hub = h, !.s = "tls", !.h = "backlog"]]
              /\ backlog' = [backlog EXCEPT ![h] = Append(@, c)]
    /\ UNCHANGED <<diskVars, procVars, ghostVars>>

\* The hub is inside Listener::accept: one handshake at a time.
Accepting(h) ==
    \E c \in Links : link[c].hub = h /\ link[c].h \in {"tls", "read", "check"}

Accept(h) ==
    /\ h \in up /\ ~Accepting(h) /\ backlog[h] # <<>>
    /\ SetLink(Head(backlog[h]), [link[Head(backlog[h])] EXCEPT !.h = "tls"])
    /\ backlog' = [backlog EXCEPT ![h] = Tail(@)]
    /\ UNCHANGED <<diskVars, procVars, rest, ghostVars>>

\* Mutant of FirstHello: both sides read before they write.
NoFirstHello(s) == NoKey

\* The hello an initiator writes before it reads: its own.
FirstHello(s) == key[s]

\* TLS is up at both ends and the spoke, the initiator, writes its hello.
Secured(c) ==
    /\ link[c].s = "tls" /\ link[c].h = "tls"
    /\ SetLink(c, [link[c] EXCEPT !.s = "read", !.h = "read",
                                  !.sHello = FirstHello(link[c].spoke)])
    /\ UNCHANGED <<diskVars, procVars, backlog, rest, ghostVars>>

\* The listener reads the hello of the spoke and answers before it judges.
HubReads(c) ==
    /\ link[c].h = "read" /\ link[c].sHello # NoKey
    /\ SetLink(c, [link[c] EXCEPT !.h = "check", !.hHello = key[link[c].hub]])
    /\ UNCHANGED <<diskVars, procVars, backlog, rest, ghostVars>>

\* An end sees the other one gone, in TLS, in a hello or in the session. A
\* hello already sent may be lost with it.
HubHangsUp(c) ==
    /\ link[c].h \in {"tls", "read", "up"} /\ link[c].s \in Gone
    /\ SetLink(c, [link[c] EXCEPT !.h = "closed"])
    /\ UNCHANGED <<diskVars, procVars, backlog, rest, ghostVars>>

SpokeHangsUp(c) ==
    /\ link[c].s \in {"tls", "read"} /\ link[c].h \in Gone
    /\ SetLink(c, [link[c] EXCEPT !.s = "closed"])
    /\ UNCHANGED <<diskVars, procVars, backlog, rest, ghostVars>>
-------------------------------------------------------------------------------
(* The judgement at the end of handshake.                                   *)

\* The peer is in the store.
Recognises(m, k) ==
    k \in known[m] /\ UNCHANGED <<known, peerFile, lost, faults>>

\* Mutant of Learns: the peer is only kept in memory.
LearnsInMemory(m, k) ==
    /\ k \notin known[m] /\ tofu[m]
    /\ known' = [known EXCEPT ![m] = @ \cup {k}]
    /\ UNCHANGED <<peerFile, lost, faults>>

\* PeerStore::insert: into memory, then flush writes the whole file.
Learns(m, k) ==
    /\ k \notin known[m] /\ tofu[m]
    /\ known' = [known EXCEPT ![m] = @ \cup {k}]
    /\ peerFile' = [peerFile EXCEPT ![m] = known[m] \cup {k}]
    /\ UNCHANGED <<lost, faults>>

Admits(m, k) == Recognises(m, k) \/ Learns(m, k)

\* flush returns an error: the handshake fails, but memory keeps the peer.
FlushFails(m, k) ==
    /\ k \notin known[m] /\ tofu[m]
    /\ Fault(m, "peers")
    /\ known' = [known EXCEPT ![m] = @ \cup {k}]
    /\ \E left \in {peerFile[m]} \cup PeerPrefixes(known[m] \cup {k}) :
          peerFile' = [peerFile EXCEPT ![m] = left]

Unknown(m, k) ==
    /\ k \notin known[m] /\ ~tofu[m]
    /\ UNCHANGED <<known, peerFile, lost, faults>>

Refuses(m, k) == Unknown(m, k) \/ FlushFails(m, k)

\* The process dies inside flush.
DiesInFlush(m, k) ==
    /\ k \notin known[m] /\ tofu[m]
    /\ Fault(m, "peers")
    /\ \E left \in PeerPrefixes(known[m] \cup {k}) :
          peerFile' = [peerFile EXCEPT ![m] = left]
    /\ Ends(m)

Judged == <<idFile, config, up, key, tofu, pin, gens, told, starts>>

HubAdmits(c) ==
    /\ link[c].h = "check"
    /\ Admits(link[c].hub, link[c].sHello)
    /\ SetLink(c, [link[c] EXCEPT !.h = "up"])
    /\ paired' = IF link[c].s = "up"
                 THEN paired \cup {<<link[c].spoke, link[c].hub>>} ELSE paired
    /\ UNCHANGED <<Judged, backlog, rest>>

HubRefuses(c) ==
    /\ link[c].h = "check"
    /\ Refuses(link[c].hub, link[c].sHello)
    /\ SetLink(c, [link[c] EXCEPT !.h = "closed"])
    /\ UNCHANGED <<Judged, backlog, rest, paired>>

HubDies(c) ==
    /\ link[c].h = "check"
    /\ DiesInFlush(link[c].hub, link[c].sHello)
    /\ UNCHANGED <<idFile, config, gens, told, starts, paired>>

\* Mutant of PinHolds: --pair trusts whoever answers, whatever the pin.
PinHoldsOrPairing(s, k) == pin[s] \in {NoKey, k} \/ tofu[s]

\* The initiator has the hello of the hub to judge.
Answered(c) == link[c].s = "read" /\ link[c].hHello # NoKey

PinHolds(s, k) == pin[s] \in {NoKey, k}

WrongPin(c) ==
    /\ Answered(c) /\ ~PinHolds(link[c].spoke, link[c].hHello)
    /\ SetLink(c, [link[c] EXCEPT !.s = "closed"])
    /\ UNCHANGED <<diskVars, procVars, backlog, rest, ghostVars>>

SpokeAdmits(c) ==
    /\ Answered(c) /\ PinHolds(link[c].spoke, link[c].hHello)
    /\ Admits(link[c].spoke, link[c].hHello)
    /\ SetLink(c, [link[c] EXCEPT !.s = "up"])
    /\ rest' = [rest EXCEPT ![link[c].spoke] = <<>>]
    /\ paired' = IF link[c].h = "up"
                 THEN paired \cup {<<link[c].spoke, link[c].hub>>} ELSE paired
    /\ UNCHANGED <<Judged, backlog>>

SpokeRefuses(c) ==
    /\ Answered(c) /\ PinHolds(link[c].spoke, link[c].hHello)
    /\ Refuses(link[c].spoke, link[c].hHello)
    /\ SetLink(c, [link[c] EXCEPT !.s = "closed"])
    /\ UNCHANGED <<Judged, backlog, rest, paired>>

SpokeDies(c) ==
    /\ Answered(c) /\ PinHolds(link[c].spoke, link[c].hHello)
    /\ DiesInFlush(link[c].spoke, link[c].hHello)
    /\ UNCHANGED <<idFile, config, gens, told, starts, paired>>

\* Mutant of AfterSession: every spoke waits for its writer task.
AlwaysDrains(s) == "drain"

\* run_session once its reader has failed: the writer task ends when the
\* last sender of its channel is dropped, and the task that forwards the
\* local clipboard holds one. Only a spoke without a clipboard leaves.
AfterSession(s) == IF s \in Desktops THEN "drain" ELSE "closed"

SessionLost(c) ==
    /\ link[c].s = "up" /\ link[c].h \in Gone
    /\ SetLink(c, [link[c] EXCEPT !.s = AfterSession(link[c].spoke)])
    /\ UNCHANGED <<diskVars, procVars, backlog, rest, ghostVars>>

\* A local copy gives the writer a frame; sending it fails, so it returns.
UserCopies(c) ==
    /\ link[c].s = "drain" /\ link[c].spoke \in Desktops
    /\ SetLink(c, [link[c] EXCEPT !.s = "closed"])
    /\ UNCHANGED <<diskVars, procVars, backlog, rest, ghostVars>>
-------------------------------------------------------------------------------
\* The pins a user can give: none, the key of a hub here, another one.
Pins == {NoKey, Elsewhere}
          \cup {idFile[h] : h \in {g \in Hubs : idFile[g] \in Keys}}

User ==
    \/ \E h \in Hubs, t \in BOOLEAN : StartHub(h, t)
    \/ \E s \in Spokes, t \in BOOLEAN, p \in Pins : StartSpoke(s, t, p)
    \/ \E m \in Machines : Stop(m)
    \/ \E c \in Links : UserCopies(c)

Faults ==
    \/ \E s \in Spokes, p \in Pins : StartLosesConfig(s, p)
    \/ \E m \in Machines : StartLosesIdentity(m)
    \/ \E c \in Links : HubDies(c) \/ SpokeDies(c)

HubStep(c) ==
    HubReads(c) \/ HubHangsUp(c) \/ HubAdmits(c) \/ HubRefuses(c)

SpokeStep(c) ==
    \/ Secured(c) \/ SpokeHangsUp(c) \/ SessionLost(c)
    \/ WrongPin(c) \/ SpokeAdmits(c) \/ SpokeRefuses(c)

Next ==
    \/ User \/ Faults
    \/ \E s \in Spokes : Dial(s)
    \/ \E h \in Hubs : Accept(h)
    \/ \E c \in Links : HubStep(c) \/ SpokeStep(c)

Spec == Init /\ [][Next]_vars

\* A running process keeps running its tasks. Users, and files, do as they
\* like.
Fairness ==
    /\ \A s \in Spokes : WF_vars(Dial(s))
    /\ \A h \in Hubs : WF_vars(Accept(h))
    /\ \A c \in Links : WF_vars(HubStep(c)) /\ WF_vars(SpokeStep(c))

FairSpec == Spec /\ Fairness
-------------------------------------------------------------------------------
\* Two machines that had a session with each other recognise each other in
\* every later run, whatever order they restart in, unless a write of one's
\* peer store went wrong (peer_store.rs:94-102, connection.rs:187-202).
PairedIsRecognised ==
    \A p \in paired : LET s == p[1] h == p[2] IN
        /\ h \in up /\ <<h, "peers">> \notin lost => idFile[s] \in known[h]
        /\ s \in up /\ <<s, "peers">> \notin lost => idFile[h] \in known[s]

\* A machine has one identity for good: whatever key of its any machine
\* trusts, in memory or on disk, or has received, is the one its identity
\* file holds (identity.rs:31-67).
KeysOf(m) ==
    (UNION {known[n] : n \in Machines})
        \cup (UNION {peerFile[n] : n \in {i \in Machines : peerFile[i] # CorruptPeers}})
        \cup {key[n] : n \in up}
        \cup {link[c].sHello : c \in Links} \cup {link[c].hHello : c \in Links}

IdentityIsStable ==
    \A m \in Machines : \A k \in KeysOf(m) :
        k # NoKey /\ k[1] = m => k = idFile[m]

\* Once its user has pinned a hub, a spoke has no session with another one,
\* in this run or a later one without --pin, unless the write of its config
\* went wrong (main.rs:248-252, connection.rs:176-184).
PinOutlivesRestarts ==
    \A c \in Links : LET s == link[c].spoke IN
        link[c].s = "up" /\ <<s, "config">> \notin lost =>
            told[s] \in {NoKey, link[c].hHello}

\* A pinned run never adds another hub to the store, even with --pair: the
\* pin is judged before the store is touched (connection.rs:176-202).
PinnedLearnsItsPinOnly ==
    [][\A s \in up \cap up' \cap Spokes :
          pin[s] # NoKey => known'[s] \ known[s] \subseteq {pin[s]}]_vars

\* Every dial is answered, by a session or by an error, although the hub
\* handles one handshake at a time and both sides read and write in turn
\* (connection.rs:157-164, server.rs:141-169).
DialIsAnswered ==
    \A c \in Links :
        link[c].s \in {"tls", "read"} ~> link[c].s \notin {"tls", "read"}

\* A spoke without a clipboard backend that has lost its hub gets back to
\* dialing (client.rs:93-122, 177-220).
LostHub(s) ==
    \E c \in Links : link[c].spoke = s /\ link[c].s = "up" /\ link[c].h \in Gone

HeadlessSpokeRedials == \A s \in Spokes \ Desktops : LostHub(s) ~> ~Engaged(s)

\* The same of every spoke: "on failure, retry with exponential backoff"
\* (client.rs:5-6).
SpokeRedials == \A s \in Spokes : LostHub(s) ~> ~Engaged(s)
===============================================================================
