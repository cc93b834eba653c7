----------------------------- MODULE PairingProofs -----------------------------
(***************************************************************************)
(* Proofs about Pairing for every set of machines, every list of           *)
(* addresses and any number of starts, connections and faults.             *)
(*                                                                         *)
(* The argument: an identity file changes only while no key of the machine *)
(* is known anywhere, so every key that travels, is trusted or is stored   *)
(* is the one its machine has for good (MachineOK). Each end of a          *)
(* connection carries what it has judged (Sound): the pin the spoke        *)
(* insisted on, and, unless a write of its store went wrong, the peer in   *)
(* its store. While a machine runs, its store in memory is the one on      *)
(* disk, so pairs are recognised in every later run (PairOK).            *)
(***************************************************************************)
EXTENDS Pairing, SequenceTheorems, TLAPS

Genuine == {k \in Keys : idFile[k[1]] = k}

\* A machine's files, and its process.
MachineOK(m) ==
    /\ gens[m] <= starts
    /\ idFile[m] \in Keys => idFile[m][1] = m /\ idFile[m][2] <= starts
    /\ m \in up => key[m] = idFile[m] /\ key[m] \in Keys
    /\ m \notin up => key[m] = NoKey /\ known[m] = {}
    /\ known[m] \subseteq Genuine
    /\ peerFile[m] # CorruptPeers => peerFile[m] \subseteq Genuine
    /\ <<m, "peers">> \notin lost =>
         peerFile[m] # CorruptPeers /\ (m \in up => known[m] = peerFile[m])

\* A spoke runs with the pin of its config, which is the last one it was told.
SpokeOK(s) ==
    /\ s \in up => pin[s] = config[s].pin
    /\ <<s, "config">> \notin lost /\ told[s] # NoKey => config[s].pin = told[s]

\* A connection in terms of the state it is in: identity files, running
\* processes, pins, stores in memory and lost writes.
Sound(l, id, running, pins, stores, losses) ==
    /\ l = NoLink \/ /\ l.spoke \in Spokes /\ l.hub \in Hubs
                     /\ l.s # "none" /\ l.h # "none"
    /\ l.s \notin Gone => l.spoke \in running
    /\ l.h \notin Gone => l.hub \in running
    /\ l.sHello # NoKey => l.sHello = id[l.spoke] /\ l.sHello \in Keys
    /\ l.hHello # NoKey => l.hHello = id[l.hub] /\ l.hHello \in Keys
    /\ l.h \in {"check", "up"} => l.sHello # NoKey
    /\ l.h = "up" /\ <<l.hub, "peers">> \notin losses => l.sHello \in stores[l.hub]
    /\ l.s = "up" =>
         /\ l.hHello # NoKey /\ pins[l.spoke] \in {NoKey, l.hHello}
         /\ <<l.spoke, "peers">> \notin losses => l.hHello \in stores[l.spoke]

LinkOK(c) == Sound(link[c], idFile, up, pin, known, lost)

\* A connection not yet accepted waits in one place.
BacklogOK(h) ==
    /\ \A i \in 1 .. Len(backlog[h]) :
          link[backlog[h][i]].hub = h /\ link[backlog[h][i]].h = "backlog"
    /\ \A i, j \in 1 .. Len(backlog[h]) : backlog[h][i] = backlog[h][j] => i = j

\* A pair is on the disks of both.
PairOK(s, h) ==
    /\ idFile[s] \in Keys /\ idFile[h] \in Keys
    /\ <<h, "peers">> \notin lost => idFile[s] \in peerFile[h]
    /\ <<s, "peers">> \notin lost => idFile[h] \in peerFile[s]

\* The inductive invariant.
Inv ==
    /\ TypeOK
    /\ \A m \in Machines : MachineOK(m)
    /\ \A s \in Spokes : SpokeOK(s)
    /\ \A c \in Links : LinkOK(c)
    /\ \A h \in Hubs : BacklogOK(h)
    /\ \A s \in Spokes, h \in Hubs : <<s, h>> \in paired => PairOK(s, h)
-------------------------------------------------------------------------------
\* What is a key, and what is none.
LEMMA KeyFacts ==
    /\ NoKey \notin Keys /\ Elsewhere \notin Keys /\ Absent \notin Keys
    /\ Short \notin Keys /\ NoKey # Elsewhere
    /\ \A k \in Keys : k[1] \in Machines /\ k[2] \in 1 .. MaxStarts /\ k = <<k[1], k[2]>>
    /\ \A m \in Machines, i \in 1 .. MaxStarts :
          <<m, i>> \in Keys /\ <<m, i>>[1] = m /\ <<m, i>>[2] = i
    /\ CorruptPeers \notin SUBSET Keys
<1>1. /\ NoKey \notin Keys /\ Elsewhere \notin Keys /\ Absent \notin Keys
      /\ Short \notin Keys /\ NoKey # Elsewhere
    <2>1. <<>> \notin Keys
        BY DEF Keys
    <2>2. <<"elsewhere">> \notin Keys
        BY DEF Keys
    <2>3. <<"absent">> \notin Keys
        BY DEF Keys
    <2>4. <<"short">> \notin Keys
        BY DEF Keys
    <2>5. <<>> # <<"elsewhere">>
        <3>1. Len(<<>>) = 0 /\ Len(<<"elsewhere">>) = 1
            OBVIOUS
        <3> QED BY <3>1
    <2> QED BY <2>1, <2>2, <2>3, <2>4, <2>5 DEF NoKey, Elsewhere, Absent, Short
<1>2. \A k \in Keys : k[1] \in Machines /\ k[2] \in 1 .. MaxStarts /\ k = <<k[1], k[2]>>
    BY DEF Keys
<1>3. \A m \in Machines, i \in 1 .. MaxStarts :
         <<m, i>> \in Keys /\ <<m, i>>[1] = m /\ <<m, i>>[2] = i
    BY DEF Keys
<1>4. <<"corrupt">> \notin Keys
    BY DEF Keys
<1> QED BY <1>1, <1>2, <1>3, <1>4 DEF CorruptPeers

\* What no connection is.
LEMMA NoLinkFacts ==
    /\ NoLink \in Connections
    /\ NoLink.s = "none" /\ NoLink.h = "none"
    /\ NoLink.sHello = NoKey /\ NoLink.hHello = NoKey
    /\ \A id, running, pins, stores, losses :
          Sound(NoLink, id, running, pins, stores, losses)
<1>1. /\ NoLink \in Connections
      /\ NoLink.s = "none" /\ NoLink.h = "none"
      /\ NoLink.sHello = NoKey /\ NoLink.hHello = NoKey
    BY DEF NoLink, Connections
<1> QED BY <1>1 DEF Sound, Gone

\* What keeps connections sound: no key changes, and what a running process
\* holds, it keeps.
Grows ==
    /\ \A m \in Machines : idFile[m] \in Keys => idFile'[m] = idFile[m]
    /\ up \subseteq up'
    /\ \A s \in up \cap Spokes : pin'[s] = pin[s]
    /\ \A m \in up : known[m] \subseteq known'[m]
    /\ lost \subseteq lost'

LEMMA SoundGrows ==
    ASSUME Grows, NEW l, Sound(l, idFile, up, pin, known, lost)
    PROVE  Sound(l, idFile', up', pin', known', lost')
<1>1. l = NoLink \/ /\ l.spoke \in Spokes /\ l.hub \in Hubs
                    /\ l.s # "none" /\ l.h # "none"
    BY DEF Sound
<1>2. CASE l = NoLink
    BY <1>2, NoLinkFacts
<1>3. CASE l.spoke \in Spokes /\ l.hub \in Hubs /\ l.s # "none" /\ l.h # "none"
    <2>1. l.spoke \in Machines /\ l.hub \in Machines
        BY <1>3 DEF Machines
    <2>2. l.s = "up" => l.spoke \in up
        BY DEF Sound, Gone
    <2>3. l.h = "up" => l.hub \in up
        BY DEF Sound, Gone
    <2>4. /\ l.sHello # NoKey => l.sHello = idFile'[l.spoke] /\ l.sHello \in Keys
          /\ l.hHello # NoKey => l.hHello = idFile'[l.hub] /\ l.hHello \in Keys
        BY <2>1 DEF Sound, Grows
    <2>5. /\ l.s \notin Gone => l.spoke \in up'
          /\ l.h \notin Gone => l.hub \in up'
          /\ l.h \in {"check", "up"} => l.sHello # NoKey
        BY DEF Sound, Grows
    <2>6. l.h = "up" /\ <<l.hub, "peers">> \notin lost' => l.sHello \in known'[l.hub]
        BY <2>3 DEF Sound, Grows
    <2>7. l.s = "up" =>
             /\ l.hHello # NoKey /\ pin'[l.spoke] \in {NoKey, l.hHello}
             /\ <<l.spoke, "peers">> \notin lost' => l.hHello \in known'[l.spoke]
        BY <1>3, <2>2 DEF Sound, Grows
    <2> QED BY <1>3, <2>4, <2>5, <2>6, <2>7 DEF Sound
<1> QED BY <1>1, <1>2, <1>3

\* Forgetting a connection whose ends are gone keeps it sound.
LEMMA SoundKept ==
    ASSUME NEW l \in Connections, NEW id, NEW running, NEW pins, NEW stores, NEW losses,
           Sound(l, id, running, pins, stores, losses)
    PROVE  Kept(l) \in Connections /\ Sound(Kept(l), id, running, pins, stores, losses)
BY NoLinkFacts DEF Kept

\* A step on one connection leaves all of them sound.
LEMMA SetLinkOK ==
    ASSUME Inv, Grows, NEW c \in Links, NEW l \in Connections, SetLink(c, l),
           Sound(l, idFile', up', pin', known', lost')
    PROVE  /\ link' \in [Links -> Connections]
           /\ \A d \in Links : LinkOK(d)'
<1>1. Kept(l) \in Connections /\ Sound(Kept(l), idFile', up', pin', known', lost')
    BY SoundKept
<1>2. /\ link \in [Links -> Connections]
      /\ \A d \in Links : Sound(link[d], idFile, up, pin, known, lost)
    BY DEF Inv, TypeOK, LinkOK
<1>3. link' = [link EXCEPT ![c] = Kept(l)]
    BY DEF SetLink
<1>4. link' \in [Links -> Connections]
    BY <1>1, <1>2, <1>3
<1>5. ASSUME NEW d \in Links PROVE Sound(link'[d], idFile', up', pin', known', lost')
    <2>1. CASE d = c
        BY <1>1, <1>2, <1>3, <2>1
    <2>2. CASE d # c
        <3>1. link'[d] = link[d]
            BY <1>2, <1>3, <2>2
        <3> QED BY <1>2, <3>1, SoundGrows
    <2> QED BY <2>1, <2>2
<1> QED BY <1>4, <1>5 DEF LinkOK

\* It leaves the queues of the hubs as they were, unless it accepts.
LEMMA BacklogKept ==
    ASSUME Inv, NEW c \in Links, NEW l, SetLink(c, l), backlog' = backlog,
           link[c].h = "backlog" => l.h = "backlog" /\ l.hub = link[c].hub
    PROVE  \A h \in Hubs : BacklogOK(h)'
<1> SUFFICES ASSUME NEW h \in Hubs PROVE BacklogOK(h)'
    OBVIOUS
<1>1. BacklogOK(h) /\ backlog[h] \in Seq(Links)
    BY DEF Inv, TypeOK
<1>2. link' = [link EXCEPT ![c] = Kept(l)] /\ link \in [Links -> Connections]
    BY DEF SetLink, Inv, TypeOK
<1>3. link[c].h = "backlog" => Kept(l) = l
    BY DEF Kept, Gone
<1>4. \A i \in 1 .. Len(backlog[h]) : backlog[h][i] \in Links
    BY <1>1
<1>5. \A i \in 1 .. Len(backlog[h]) :
         link'[backlog[h][i]].hub = h /\ link'[backlog[h][i]].h = "backlog"
    BY <1>1, <1>2, <1>3, <1>4 DEF BacklogOK
<1> QED BY <1>1, <1>5 DEF BacklogOK
-------------------------------------------------------------------------------
\* A step on the network only: files and processes stay.
LEMMA NetFrame ==
    ASSUME Inv, UNCHANGED <<diskVars, procVars, ghostVars>>,
           link' \in [Links -> Connections], \A d \in Links : LinkOK(d)',
           backlog' \in [Hubs -> Seq(Links)], \A h \in Hubs : BacklogOK(h)',
           rest' \in [Spokes -> Seq(Hubs)]
    PROVE  Inv'
<1>1. UNCHANGED <<idFile, peerFile, config, up, key, known, tofu, pin,
                  gens, told, paired, lost, starts, faults>>
    BY DEF diskVars, procVars, ghostVars
<1>2. TypeOK'
    BY <1>1 DEF Inv, TypeOK
<1>3. \A m \in Machines : MachineOK(m)'
    BY <1>1 DEF Inv, MachineOK, Genuine
<1>4. \A s \in Spokes : SpokeOK(s)'
    BY <1>1 DEF Inv, SpokeOK
<1>5. \A s \in Spokes, h \in Hubs : (<<s, h>> \in paired)' => PairOK(s, h)'
    BY <1>1 DEF Inv, PairOK
<1> QED BY <1>2, <1>3, <1>4, <1>5 DEF Inv

\* Such a step is a step in which everything grows, trivially.
LEMMA NetGrows ==
    ASSUME UNCHANGED <<diskVars, procVars, ghostVars>>
    PROVE  Grows /\ UNCHANGED <<idFile, up, pin, known, lost>>
BY DEF Grows, diskVars, procVars, ghostVars

\* A step on one connection that is neither a judgement nor accepts it.
LEMMA NetStep ==
    ASSUME Inv, NEW c \in Links, NEW l \in Connections, SetLink(c, l),
           Sound(l, idFile, up, pin, known, lost),
           link[c].h = "backlog" => l.h = "backlog" /\ l.hub = link[c].hub,
           UNCHANGED <<diskVars, procVars, backlog, rest, ghostVars>>
    PROVE  Inv'
<1>1. Grows /\ UNCHANGED <<idFile, up, pin, known, lost, backlog, rest>>
    BY NetGrows
<1>2. link' \in [Links -> Connections] /\ \A d \in Links : LinkOK(d)'
    BY <1>1, SetLinkOK
<1>3. \A h \in Hubs : BacklogOK(h)'
    BY <1>1, BacklogKept
<1>4. backlog' \in [Hubs -> Seq(Links)] /\ rest' \in [Spokes -> Seq(Hubs)]
    BY <1>1 DEF Inv, TypeOK
<1> QED BY <1>2, <1>3, <1>4, NetFrame

\* What is known of the connection a step is about.
LEMMA LinkFacts ==
    ASSUME Inv, NEW c \in Links
    PROVE  /\ link[c] \in Connections
           /\ Sound(link[c], idFile, up, pin, known, lost)
           /\ link[c].s \notin Gone =>
                /\ link[c].spoke \in Spokes /\ link[c].spoke \in up
                /\ key[link[c].spoke] = idFile[link[c].spoke] /\ key[link[c].spoke] \in Keys
           /\ link[c].h \notin Gone =>
                /\ link[c].hub \in Hubs /\ link[c].hub \in up
                /\ key[link[c].hub] = idFile[link[c].hub] /\ key[link[c].hub] \in Keys
<1>1. link[c] \in Connections /\ Sound(link[c], idFile, up, pin, known, lost)
    BY DEF Inv, TypeOK, LinkOK
<1>2. ASSUME link[c].s \notin Gone
      PROVE  link[c].spoke \in Spokes /\ link[c].spoke \in up /\ link[c].spoke \in Machines
    BY <1>1, <1>2, NoLinkFacts DEF Sound, Gone, Machines
<1>3. ASSUME link[c].h \notin Gone
      PROVE  link[c].hub \in Hubs /\ link[c].hub \in up /\ link[c].hub \in Machines
    BY <1>1, <1>3, NoLinkFacts DEF Sound, Gone, Machines
<1>4. \A m \in Machines \cap up : key[m] = idFile[m] /\ key[m] \in Keys
    BY DEF Inv, MachineOK
<1> QED BY <1>1, <1>2, <1>3, <1>4

LEMMA SecuredStep == ASSUME Inv, NEW c \in Links, Secured(c) PROVE Inv'
<1> DEFINE l == [link[c] EXCEPT !.s = "read", !.h = "read",
                               !.sHello = FirstHello(link[c].spoke)]
<1>1. /\ link[c] \in Connections /\ Sound(link[c], idFile, up, pin, known, lost)
      /\ link[c].s = "tls" /\ link[c].h = "tls"
    BY LinkFacts DEF Secured
<1>2. /\ link[c].spoke \in Spokes /\ link[c].spoke \in up
      /\ key[link[c].spoke] = idFile[link[c].spoke] /\ key[link[c].spoke] \in Keys
    BY <1>1, LinkFacts DEF Gone
<1>3. l \in Connections
    BY <1>1, <1>2 DEF Connections, FirstHello
<1>4. Sound(l, idFile, up, pin, known, lost)
    BY <1>1, <1>2, NoLinkFacts DEF Sound, Connections, FirstHello, Gone
<1> QED BY <1>1, <1>3, <1>4, NetStep DEF Secured

LEMMA HubReadsStep == ASSUME Inv, NEW c \in Links, HubReads(c) PROVE Inv'
<1> DEFINE l == [link[c] EXCEPT !.h = "check", !.hHello = key[link[c].hub]]
<1>1. /\ link[c] \in Connections /\ Sound(link[c], idFile, up, pin, known, lost)
      /\ link[c].h = "read" /\ link[c].sHello # NoKey
    BY LinkFacts DEF HubReads
<1>2. /\ link[c].hub \in Hubs /\ link[c].hub \in up
      /\ key[link[c].hub] = idFile[link[c].hub] /\ key[link[c].hub] \in Keys
    BY <1>1, LinkFacts DEF Gone
<1>3. l \in Connections
    BY <1>1, <1>2 DEF Connections
<1>4. Sound(l, idFile, up, pin, known, lost)
    BY <1>1, <1>2, NoLinkFacts, KeyFacts DEF Sound, Connections, Gone
<1> QED BY <1>1, <1>3, <1>4, NetStep DEF HubReads

\* One end of a connection closes.
LEMMA CloseHub ==
    ASSUME NEW id, NEW running, NEW pins, NEW stores, NEW losses, NEW m \in Connections,
           Sound(m, id, running, pins, stores, losses), m.h # "none"
    PROVE  /\ [m EXCEPT !.h = "closed"] \in Connections
           /\ Sound([m EXCEPT !.h = "closed"], id, running, pins, stores, losses)
BY NoLinkFacts DEF Sound, Connections, Gone

LEMMA CloseSpoke ==
    ASSUME NEW id, NEW running, NEW pins, NEW stores, NEW losses, NEW m \in Connections,
           Sound(m, id, running, pins, stores, losses), m.s # "none",
           NEW end \in {"closed", "drain"}, end # "closed" => m.spoke \in running
    PROVE  /\ [m EXCEPT !.s = end] \in Connections
           /\ Sound([m EXCEPT !.s = end], id, running, pins, stores, losses)
BY NoLinkFacts DEF Sound, Connections, Gone

LEMMA HubHangsUpStep == ASSUME Inv, NEW c \in Links, HubHangsUp(c) PROVE Inv'
<1>1. /\ link[c] \in Connections /\ Sound(link[c], idFile, up, pin, known, lost)
      /\ link[c].h \in {"tls", "read", "up"}
    BY LinkFacts DEF HubHangsUp
<1> QED BY <1>1, CloseHub, NetStep DEF HubHangsUp

LEMMA SpokeEndsStep ==
    ASSUME Inv, NEW c \in Links,
           SpokeHangsUp(c) \/ WrongPin(c) \/ SessionLost(c) \/ UserCopies(c)
    PROVE  Inv'
<1>1. /\ link[c] \in Connections /\ Sound(link[c], idFile, up, pin, known, lost)
      /\ link[c].s \in {"tls", "read", "up", "drain"} /\ link[c].spoke \in up
    BY LinkFacts DEF SpokeHangsUp, WrongPin, SessionLost, UserCopies, Answered, Gone
<1>2. \A end \in {"closed", "drain"} :
         /\ [link[c] EXCEPT !.s = end] \in Connections
         /\ Sound([link[c] EXCEPT !.s = end], idFile, up, pin, known, lost)
    BY <1>1, CloseSpoke
<1>3. \E end \in {"closed", "drain"} :
         /\ SetLink(c, [link[c] EXCEPT !.s = end])
         /\ UNCHANGED <<diskVars, procVars, backlog, rest, ghostVars>>
    BY DEF SpokeHangsUp, WrongPin, SessionLost, UserCopies, AfterSession
<1>4. PICK end \in {"closed", "drain"} :
         /\ SetLink(c, [link[c] EXCEPT !.s = end])
         /\ UNCHANGED <<diskVars, procVars, backlog, rest, ghostVars>>
    BY <1>3
<1>5. /\ link[c].h = "backlog" => [link[c] EXCEPT !.s = end].h = "backlog"
      /\ [link[c] EXCEPT !.s = end].hub = link[c].hub
    BY <1>1 DEF Connections
<1> QED BY <1>2, <1>4, <1>5, NetStep

\* The listener takes the connection that has waited longest, and no other
\* queue holds it.
LEMMA AcceptStep == ASSUME Inv, NEW h \in Hubs, Accept(h) PROVE Inv'
<1> DEFINE c == Head(backlog[h])
           l == [link[c] EXCEPT !.h = "tls"]
<1>1. /\ h \in up /\ backlog[h] # <<>> /\ SetLink(c, l)
      /\ backlog' = [backlog EXCEPT ![h] = Tail(backlog[h])]
      /\ UNCHANGED <<diskVars, procVars, ghostVars>> /\ rest' = rest
    BY DEF Accept
<1>2. /\ link \in [Links -> Connections] /\ backlog \in [Hubs -> Seq(Links)]
      /\ rest \in [Spokes -> Seq(Hubs)]
    BY DEF Inv, TypeOK
<1>3. /\ c \in Links /\ c = backlog[h][1] /\ Tail(backlog[h]) \in Seq(Links)
      /\ Len(backlog[h]) \in Nat \ {0} /\ Len(Tail(backlog[h])) = Len(backlog[h]) - 1
      /\ \A i \in 1 .. Len(backlog[h]) - 1 : Tail(backlog[h])[i] = backlog[h][i + 1]
    BY <1>1, <1>2
<1>4. \A g \in Hubs : BacklogOK(g)
    BY DEF Inv
<1>5. link[c].hub = h /\ link[c].h = "backlog"
    BY <1>3, <1>4 DEF BacklogOK
<1>6. l \in Connections /\ Kept(l) = l /\ l.hub = h
    BY <1>2, <1>3, <1>5 DEF Connections, Kept, Gone
<1>7. Sound(link[c], idFile, up, pin, known, lost)
    BY <1>3, LinkFacts
<1>8. Sound(l, idFile, up, pin, known, lost)
    BY <1>1, <1>2, <1>3, <1>5, <1>7, NoLinkFacts DEF Sound, Connections, Gone
<1>9. Grows /\ UNCHANGED <<idFile, up, pin, known, lost>>
    BY <1>1, NetGrows
<1>10. link' \in [Links -> Connections] /\ \A d \in Links : LinkOK(d)'
    BY <1>1, <1>3, <1>6, <1>8, <1>9, SetLinkOK
<1>11. backlog' \in [Hubs -> Seq(Links)] /\ rest' \in [Spokes -> Seq(Hubs)]
    BY <1>1, <1>2, <1>3
<1>12. \A d \in Links : d # c => link'[d] = link[d]
    BY <1>1, <1>2, <1>3 DEF SetLink
<1>13. BacklogOK(h)'
    <2>1. backlog'[h] = Tail(backlog[h])
        BY <1>1, <1>2
    <2>2. \A i \in 1 .. Len(backlog[h]) - 1 :
             /\ backlog'[h][i] = backlog[h][i + 1] /\ backlog[h][i + 1] \in Links
             /\ backlog[h][i + 1] # c
        BY <1>2, <1>3, <1>4, <2>1 DEF BacklogOK
    <2>3. \A i \in 1 .. Len(backlog[h]) - 1 :
             link'[backlog'[h][i]].hub = h /\ link'[backlog'[h][i]].h = "backlog"
        BY <1>3, <1>4, <1>12, <2>2 DEF BacklogOK
    <2>4. ASSUME NEW i \in 1 .. Len(backlog[h]) - 1, NEW j \in 1 .. Len(backlog[h]) - 1,
                 backlog'[h][i] = backlog'[h][j]
          PROVE  i = j
        <3>1. i + 1 \in 1 .. Len(backlog[h]) /\ j + 1 \in 1 .. Len(backlog[h])
            BY <1>3
        <3>2. backlog[h][i + 1] = backlog[h][j + 1]
            BY <2>2, <2>4
        <3>3. i + 1 = j + 1
            BY <1>4, <3>1, <3>2 DEF BacklogOK
        <3> QED BY <1>3, <3>3
    <2> QED BY <1>3, <2>1, <2>3, <2>4 DEF BacklogOK
<1>14. ASSUME NEW g \in Hubs, g # h PROVE BacklogOK(g)'
    <2>1. backlog'[g] = backlog[g]
        BY <1>1, <1>2, <1>14
    <2>2. \A i \in 1 .. Len(backlog[g]) : backlog[g][i] \in Links /\ backlog[g][i] # c
        BY <1>2, <1>4, <1>5, <1>14 DEF BacklogOK
    <2> QED BY <1>4, <1>12, <2>1, <2>2 DEF BacklogOK
<1> QED BY <1>1, <1>10, <1>11, <1>13, <1>14, NetFrame

\* A dial takes a connection nobody has, and queues it.
LEMMA DialStep == ASSUME Inv, NEW s \in Spokes, Dial(s) PROVE Inv'
<1>1. /\ s \in up /\ rest' = [rest EXCEPT ![s] = Tail(Candidates(s))]
      /\ UNCHANGED <<diskVars, procVars, ghostVars>>
    BY DEF Dial
<1>2. /\ link \in [Links -> Connections] /\ backlog \in [Hubs -> Seq(Links)]
      /\ rest \in [Spokes -> Seq(Hubs)] /\ \A d \in Links : LinkOK(d)
      /\ \A g \in Hubs : BacklogOK(g)
    BY DEF Inv, TypeOK
<1>3. Candidates(s) \in Seq(Hubs) /\ Candidates(s) # <<>>
    BY <1>2, PairingAssumption DEF Candidates
<1>4. /\ Tail(Candidates(s)) \in Seq(Hubs)
      /\ \E g \in Hubs : g = Head(Candidates(s))
    BY <1>3
<1>h. PICK h \in Hubs : h = Head(Candidates(s))
    BY <1>4
<1> DEFINE l == [NoLink EXCEPT !.spoke = s, !.hub = h, !.s = "tls", !.h = "backlog"]
<1>5. rest' \in [Spokes -> Seq(Hubs)]
    BY <1>1, <1>2, <1>4
<1>6. Grows /\ UNCHANGED <<idFile, up, pin, known, lost>>
    BY <1>1, NetGrows
<1>7. CASE h \notin up
    <2>1. link' = link /\ backlog' = backlog
        BY <1>7, <1>h DEF Dial
    <2>2. \A d \in Links : LinkOK(d)'
        BY <1>2, <1>6, <2>1 DEF LinkOK
    <2>3. \A g \in Hubs : BacklogOK(g)'
        BY <1>2, <2>1 DEF BacklogOK
    <2> QED BY <1>1, <1>2, <1>5, <2>1, <2>2, <2>3, NetFrame
<1>8. CASE h \in up
    <2>1. PICK c \in Links : /\ link[c] = NoLink /\ link' = [link EXCEPT ![c] = l]
                             /\ backlog' = [backlog EXCEPT ![h] = Append(backlog[h], c)]
        BY <1>8, <1>h DEF Dial
    <2>2. /\ l \in Connections /\ l.spoke = s /\ l.hub = h /\ l.s = "tls" /\ l.h = "backlog"
          /\ l.sHello = NoKey /\ l.hHello = NoKey
        BY <1>4 DEF NoLink, Connections
    <2>3. Sound(l, idFile, up, pin, known, lost) /\ SetLink(c, l)
        BY <1>1, <1>4, <1>8, <2>1, <2>2 DEF Sound, SetLink, Kept, Gone
    <2>4. link' \in [Links -> Connections] /\ \A d \in Links : LinkOK(d)'
        BY <1>6, <2>2, <2>3, SetLinkOK
    <2>5. backlog' \in [Hubs -> Seq(Links)]
        BY <1>2, <1>4, <2>1
    <2>6. /\ \A d \in Links : d # c => link'[d] = link[d]
          /\ link'[c] = l
        BY <1>2, <2>1
    <2>7. \A g \in Hubs : \A i \in 1 .. Len(backlog[g]) :
             backlog[g][i] \in Links /\ backlog[g][i] # c
        BY <1>2, <2>1, NoLinkFacts DEF BacklogOK
    <2>8. ASSUME NEW g \in Hubs, g # h PROVE BacklogOK(g)'
        <3>1. backlog'[g] = backlog[g]
            BY <1>2, <2>1, <2>8
        <3> QED BY <1>2, <2>6, <2>7, <3>1 DEF BacklogOK
    <2>9. BacklogOK(h)'
        <3>1. /\ backlog'[h] = Append(backlog[h], c) /\ backlog[h] \in Seq(Links)
              /\ Len(backlog[h]) \in Nat
            BY <1>2, <1>4, <2>1
        <3>2. /\ Len(backlog'[h]) = Len(backlog[h]) + 1
              /\ backlog'[h][Len(backlog[h]) + 1] = c
              /\ \A i \in 1 .. Len(backlog[h]) : backlog'[h][i] = backlog[h][i]
            BY <3>1
        <3>3. \A i \in 1 .. Len(backlog'[h]) :
                 link'[backlog'[h][i]].hub = h /\ link'[backlog'[h][i]].h = "backlog"
            <4> SUFFICES ASSUME NEW i \in 1 .. Len(backlog'[h])
                         PROVE  link'[backlog'[h][i]].hub = h /\ link'[backlog'[h][i]].h = "backlog"
                OBVIOUS
            <4>1. CASE i = Len(backlog[h]) + 1
                BY <2>2, <2>6, <3>2, <4>1
            <4>2. CASE i \in 1 .. Len(backlog[h])
                <5>1. backlog'[h][i] = backlog[h][i] /\ link'[backlog[h][i]] = link[backlog[h][i]]
                    BY <2>6, <2>7, <3>2, <4>2
                <5> QED BY <1>2, <4>2, <5>1 DEF BacklogOK
            <4> QED BY <3>1, <3>2, <4>1, <4>2
        <3>4. \A i, j \in 1 .. Len(backlog'[h]) : backlog'[h][i] = backlog'[h][j] => i = j
            BY <1>2, <1>4, <2>7, <3>1, <3>2 DEF BacklogOK
        <3> QED BY <3>3, <3>4 DEF BacklogOK
    <2> QED BY <1>1, <1>5, <2>4, <2>5, <2>8, <2>9, NetFrame
<1> QED BY <1>7, <1>8

-------------------------------------------------------------------------------
\* The judgement. Every key that is judged is the one its machine has.
LEMMA HellosAreGenuine ==
    ASSUME Inv, NEW c \in Links
    PROVE  /\ link[c].sHello # NoKey => link[c].sHello \in Genuine
           /\ link[c].hHello # NoKey => link[c].hHello \in Genuine
<1>1. Sound(link[c], idFile, up, pin, known, lost)
    BY LinkFacts
<1>2. \A m \in Machines : idFile[m] \in Keys => idFile[m][1] = m
    BY DEF Inv, MachineOK
<1>3. ASSUME link[c].sHello # NoKey PROVE link[c].sHello \in Genuine
    BY <1>1, <1>2, <1>3, NoLinkFacts DEF Sound, Genuine, Machines
<1>4. ASSUME link[c].hHello # NoKey PROVE link[c].hHello \in Genuine
    BY <1>1, <1>2, <1>4, NoLinkFacts DEF Sound, Genuine, Machines
<1> QED BY <1>3, <1>4

\* What a judgement of m on k does to the stores.
LEMMA JudgedStores ==
    ASSUME Inv, NEW m \in up, NEW k \in Keys, Admits(m, k) \/ Refuses(m, k)
    PROVE  /\ known' \in [Machines -> SUBSET Keys]
           /\ peerFile' \in [Machines -> (SUBSET Keys) \cup {CorruptPeers}]
           /\ \A n \in Machines \ {m} : known'[n] = known[n] /\ peerFile'[n] = peerFile[n]
           /\ known[m] \subseteq known'[m] /\ known'[m] \subseteq known[m] \cup {k}
           /\ \/ peerFile'[m] = peerFile[m]
              \/ peerFile'[m] = CorruptPeers
              \/ peerFile'[m] \subseteq known[m] \cup {k}
           /\ lost \subseteq lost' /\ lost' \subseteq lost \cup {<<m, "peers">>}
           /\ <<m, "peers">> \notin lost' => known'[m] = peerFile'[m]
           /\ faults' \in 0 .. MaxFaults
           /\ Admits(m, k) => k \in known'[m]
<1>1. /\ known \in [Machines -> SUBSET Keys] /\ m \in Machines
      /\ peerFile \in [Machines -> (SUBSET Keys) \cup {CorruptPeers}]
      /\ faults \in 0 .. MaxFaults /\ MaxFaults \in Nat
      /\ known[m] \in SUBSET Keys
    BY PairingAssumption DEF Inv, TypeOK
<1>2. <<m, "peers">> \notin lost => known[m] = peerFile[m]
    BY <1>1 DEF Inv, MachineOK
<1>3. CASE Recognises(m, k) \/ Unknown(m, k)
    <2>1. UNCHANGED <<known, peerFile, lost, faults>> /\ (Admits(m, k) => k \in known[m])
        BY <1>3 DEF Recognises, Unknown, Admits, Learns
    <2> QED BY <1>1, <1>2, <2>1
<1>4. CASE Learns(m, k)
    <2>1. /\ known' = [known EXCEPT ![m] = known[m] \cup {k}]
          /\ peerFile' = [peerFile EXCEPT ![m] = known[m] \cup {k}]
          /\ lost' = lost /\ faults' = faults
        BY <1>4 DEF Learns
    <2> QED BY <1>1, <2>1
<1>5. CASE FlushFails(m, k)
    <2>1. /\ known' = [known EXCEPT ![m] = known[m] \cup {k}]
          /\ lost' = lost \cup {<<m, "peers">>}
          /\ faults < MaxFaults /\ faults' = faults + 1
        BY <1>5 DEF FlushFails, Fault
    <2>2. PICK left \in {peerFile[m], CorruptPeers} \cup SUBSET (known[m] \cup {k}) :
             peerFile' = [peerFile EXCEPT ![m] = left]
        BY <1>5 DEF FlushFails, PeerPrefixes
    <2>3. left \in (SUBSET Keys) \cup {CorruptPeers}
        BY <1>1, <2>2
    <2>4. /\ peerFile' \in [Machines -> (SUBSET Keys) \cup {CorruptPeers}]
          /\ peerFile'[m] = left
          /\ \A n \in Machines \ {m} : peerFile'[n] = peerFile[n]
        BY <1>1, <2>2, <2>3
    <2>5. /\ known' \in [Machines -> SUBSET Keys] /\ known'[m] = known[m] \cup {k}
          /\ \A n \in Machines \ {m} : known'[n] = known[n]
        BY <1>1, <2>1
    <2>6. \/ left = peerFile[m]
          \/ left = CorruptPeers
          \/ left \subseteq known[m] \cup {k}
        BY <2>2
    <2>7. faults' \in 0 .. MaxFaults
        BY <1>1, <2>1
    <2> QED BY <2>1, <2>4, <2>5, <2>6, <2>7
<1> QED BY <1>3, <1>4, <1>5 DEF Admits, Refuses

\* A judgement leaves the files and the processes in order, and the pairs
\* there were on both disks.
LEMMA JudgedMachines ==
    ASSUME Inv, NEW m \in up, NEW k \in Genuine, Admits(m, k) \/ Refuses(m, k),
           UNCHANGED Judged
    PROVE  /\ Grows
           /\ \A n \in Machines : MachineOK(n)'
           /\ \A s \in Spokes : SpokeOK(s)'
           /\ \A s \in Spokes, h \in Hubs : <<s, h>> \in paired => PairOK(s, h)'
<1>1. /\ k \in Keys /\ m \in Machines
      /\ UNCHANGED <<idFile, config, up, key, tofu, pin, gens, told, starts>>
    BY DEF Inv, TypeOK, Genuine, Judged
<1>2. /\ \A n \in Machines \ {m} : known'[n] = known[n] /\ peerFile'[n] = peerFile[n]
      /\ known[m] \subseteq known'[m] /\ known'[m] \subseteq known[m] \cup {k}
      /\ \/ peerFile'[m] = peerFile[m]
         \/ peerFile'[m] = CorruptPeers
         \/ peerFile'[m] \subseteq known[m] \cup {k}
      /\ lost \subseteq lost' /\ lost' \subseteq lost \cup {<<m, "peers">>}
      /\ <<m, "peers">> \notin lost' => known'[m] = peerFile'[m]
    BY <1>1, JudgedStores
<1>3. \A n \in Machines : MachineOK(n)
    BY DEF Inv
<1>4. Genuine' = Genuine
    BY <1>1 DEF Genuine
<1>5. known'[m] \subseteq Genuine /\ known'[m] # CorruptPeers
    BY <1>1, <1>2, <1>3, KeyFacts DEF MachineOK, Genuine
<1>6. MachineOK(m)'
    <2>1. peerFile'[m] # CorruptPeers => peerFile'[m] \subseteq Genuine
        BY <1>1, <1>2, <1>3 DEF MachineOK
    <2> QED BY <1>1, <1>2, <1>3, <1>4, <1>5, <2>1 DEF MachineOK
<1>7. \A n \in Machines \ {m} : MachineOK(n)'
    BY <1>1, <1>2, <1>3, <1>4 DEF MachineOK
<1>8. Grows
    <2>1. \A n \in up : known[n] \subseteq known'[n]
        <3>1. up \subseteq Machines
            BY DEF Inv, TypeOK
        <3> QED BY <1>2, <3>1
    <2> QED BY <1>1, <1>2, <2>1 DEF Grows
<1>9. \A s \in Spokes : SpokeOK(s)'
    BY <1>1, <1>2 DEF Inv, SpokeOK
<1>10. \A n \in Machines : <<n, "peers">> \notin lost' => peerFile[n] \subseteq peerFile'[n]
    BY <1>1, <1>2, <1>3 DEF MachineOK
<1>11. \A s \in Spokes, h \in Hubs : <<s, h>> \in paired => PairOK(s, h)'
    BY <1>1, <1>2, <1>10 DEF Inv, PairOK, Machines
<1> QED BY <1>6, <1>7, <1>8, <1>9, <1>11

\* Two ends that have both admitted the other are a pair on both disks.
LEMMA BothUp ==
    ASSUME NEW l \in Connections, Sound(l, idFile', up', pin', known', lost'),
           l.s = "up", l.h = "up", \A n \in Machines : MachineOK(n)'
    PROVE  l.spoke \in Spokes /\ l.hub \in Hubs /\ PairOK(l.spoke, l.hub)'
<1>1. l.spoke \in Spokes /\ l.hub \in Hubs /\ l.spoke \in up' /\ l.hub \in up'
    BY NoLinkFacts DEF Sound, Gone
<1>2. /\ l.sHello = idFile'[l.spoke] /\ l.sHello \in Keys
      /\ l.hHello = idFile'[l.hub] /\ l.hHello \in Keys
    BY DEF Sound
<1>3. \A n \in up' \cap Machines : <<n, "peers">> \notin lost' => known'[n] = peerFile'[n]
    BY DEF MachineOK
<1> QED BY <1>1, <1>2, <1>3 DEF Sound, PairOK, Machines

LEMMA JudgeStep ==
    ASSUME Inv, NEW c \in Links, NEW l \in Connections, NEW m \in up, NEW k \in Genuine,
           Admits(m, k) \/ Refuses(m, k), UNCHANGED <<Judged, backlog>>,
           SetLink(c, l), Sound(l, idFile', up', pin', known', lost'),
           link[c].h = "backlog" => l.h = "backlog" /\ l.hub = link[c].hub,
           rest' \in [Spokes -> Seq(Hubs)],
           \/ paired' = paired
           \/ l.s = "up" /\ l.h = "up" /\ paired' = paired \cup {<<l.spoke, l.hub>>}
    PROVE  Inv'
<1>1. /\ Grows
      /\ \A n \in Machines : MachineOK(n)'
      /\ \A s \in Spokes : SpokeOK(s)'
      /\ \A s \in Spokes, h \in Hubs : <<s, h>> \in paired => PairOK(s, h)'
    BY JudgedMachines
<1>2. link' \in [Links -> Connections] /\ \A d \in Links : LinkOK(d)'
    BY <1>1, SetLinkOK
<1>3. \A h \in Hubs : BacklogOK(h)'
    BY BacklogKept
<1>4. l.s = "up" /\ l.h = "up" =>
         l.spoke \in Spokes /\ l.hub \in Hubs /\ PairOK(l.spoke, l.hub)'
    BY <1>1, BothUp
<1>5. \A s \in Spokes, h \in Hubs : <<s, h>> \in paired' => PairOK(s, h)'
    BY <1>1, <1>4
<1>6. TypeOK'
    <2>1. /\ known' \in [Machines -> SUBSET Keys]
          /\ peerFile' \in [Machines -> (SUBSET Keys) \cup {CorruptPeers}]
          /\ lost' \subseteq lost \cup {<<m, "peers">>} /\ faults' \in 0 .. MaxFaults
        BY JudgedStores DEF Genuine
    <2>2. UNCHANGED <<idFile, config, up, key, tofu, pin, gens, told, starts, backlog>>
        BY DEF Judged
    <2>3. paired' \subseteq Spokes \X Hubs
        BY <1>4 DEF Inv, TypeOK
    <2>4. m \in Machines
        BY DEF Inv, TypeOK
    <2>5. lost' \subseteq Machines \X {"identity", "peers", "config"}
        BY <2>1, <2>4 DEF Inv, TypeOK
    <2> QED BY <1>2, <2>1, <2>2, <2>3, <2>5 DEF Inv, TypeOK
<1> QED BY <1>1, <1>2, <1>3, <1>5, <1>6 DEF Inv

LEMMA HubJudges ==
    ASSUME Inv, NEW c \in Links, HubAdmits(c) \/ HubRefuses(c)
    PROVE  Inv'
<1>1. /\ link[c] \in Connections /\ Sound(link[c], idFile, up, pin, known, lost)
      /\ link[c].h = "check" /\ link[c].hub \in up
    BY LinkFacts DEF HubAdmits, HubRefuses, Gone
<1>2. link[c].sHello \in Genuine
    BY <1>1, HellosAreGenuine DEF Sound
<1>3. /\ Admits(link[c].hub, link[c].sHello) \/ Refuses(link[c].hub, link[c].sHello)
      /\ UNCHANGED <<Judged, backlog>> /\ rest' = rest
    BY DEF HubAdmits, HubRefuses
<1>4. Sound(link[c], idFile', up', pin', known', lost')
    BY <1>1, <1>2, <1>3, JudgedMachines, SoundGrows
<1>5. rest' \in [Spokes -> Seq(Hubs)]
    BY <1>3 DEF Inv, TypeOK
<1>6. CASE HubAdmits(c)
    <2> DEFINE l == [link[c] EXCEPT !.h = "up"]
    <2>1. link[c].sHello \in known'[link[c].hub] /\ up' = up
        BY <1>1, <1>2, <1>6, JudgedStores DEF HubAdmits, Genuine, Judged
    <2>2. l \in Connections /\ l.s = link[c].s /\ l.h = "up" /\ l.spoke = link[c].spoke
          /\ l.hub = link[c].hub
        BY <1>1 DEF Connections
    <2>3. Sound(l, idFile', up', pin', known', lost')
        BY <1>1, <1>4, <2>1, NoLinkFacts DEF Sound, Connections, Gone
    <2> QED BY <1>1, <1>2, <1>3, <1>5, <1>6, <2>2, <2>3, JudgeStep DEF HubAdmits
<1>7. CASE HubRefuses(c)
    BY <1>1, <1>2, <1>3, <1>4, <1>5, <1>7, CloseHub, JudgeStep DEF HubRefuses
<1> QED BY <1>6, <1>7

LEMMA SpokeJudges ==
    ASSUME Inv, NEW c \in Links, SpokeAdmits(c) \/ SpokeRefuses(c)
    PROVE  Inv'
<1>1. /\ link[c] \in Connections /\ Sound(link[c], idFile, up, pin, known, lost)
      /\ link[c].s = "read" /\ link[c].hHello # NoKey
      /\ link[c].spoke \in up /\ link[c].spoke \in Spokes
      /\ PinHolds(link[c].spoke, link[c].hHello)
    BY LinkFacts DEF SpokeAdmits, SpokeRefuses, Answered, Gone
<1>2. link[c].hHello \in Genuine
    BY <1>1, HellosAreGenuine
<1>3. /\ Admits(link[c].spoke, link[c].hHello) \/ Refuses(link[c].spoke, link[c].hHello)
      /\ UNCHANGED <<Judged, backlog>>
    BY DEF SpokeAdmits, SpokeRefuses
<1>4. Sound(link[c], idFile', up', pin', known', lost')
    BY <1>1, <1>2, <1>3, JudgedMachines, SoundGrows
<1>5. rest' \in [Spokes -> Seq(Hubs)]
    <2>1. rest \in [Spokes -> Seq(Hubs)]
        BY DEF Inv, TypeOK
    <2>2. <<>> \in Seq(Hubs)
        OBVIOUS
    <2> QED BY <1>1, <2>1, <2>2 DEF SpokeAdmits, SpokeRefuses
<1>6. \A end : /\ [link[c] EXCEPT !.s = end].h = link[c].h
               /\ [link[c] EXCEPT !.s = end].hub = link[c].hub
    BY <1>1 DEF Connections
<1>7. CASE SpokeAdmits(c)
    <2> DEFINE l == [link[c] EXCEPT !.s = "up"]
    <2>1. link[c].hHello \in known'[link[c].spoke] /\ up' = up /\ pin' = pin
        BY <1>1, <1>2, <1>7, JudgedStores DEF SpokeAdmits, Genuine, Judged
    <2>2. l \in Connections /\ l.s = "up" /\ l.h = link[c].h /\ l.spoke = link[c].spoke
          /\ l.hub = link[c].hub
        BY <1>1 DEF Connections
    <2>3. Sound(l, idFile', up', pin', known', lost')
        BY <1>1, <1>4, <2>1, NoLinkFacts DEF Sound, Connections, Gone, PinHolds
    <2> QED BY <1>1, <1>2, <1>3, <1>5, <1>6, <1>7, <2>2, <2>3, JudgeStep DEF SpokeAdmits
<1>8. CASE SpokeRefuses(c)
    BY <1>1, <1>2, <1>3, <1>4, <1>5, <1>6, <1>8, CloseSpoke, JudgeStep DEF SpokeRefuses
<1> QED BY <1>7, <1>8

-------------------------------------------------------------------------------
\* A process ends. What stays of a connection is as sound as it was.
LEMMA SoundWithout ==
    ASSUME Inv, NEW m \in Machines, Ends(m), lost \subseteq lost', idFile' = idFile,
           NEW c \in Links
    PROVE  /\ Without(link[c], m) \in Connections
           /\ Sound(Kept(Without(link[c], m)), idFile', up', pin', known', lost')
<1> DEFINE l == link[c]
           w == Without(link[c], m)
<1>1. l \in Connections /\ Sound(l, idFile, up, pin, known, lost)
    BY LinkFacts
<1>2. /\ up' = up \ {m}
      /\ \A n \in Machines \ {m} : known'[n] = known[n]
      /\ \A s \in Spokes \ {m} : pin'[s] = pin[s]
    BY DEF Ends, Inv, TypeOK, Machines
<1>3. /\ w \in Connections /\ w.spoke = l.spoke /\ w.hub = l.hub
      /\ w.sHello = l.sHello /\ w.hHello = l.hHello
      /\ w.s = IF l.spoke = m THEN "closed" ELSE l.s
      /\ w.h = IF l.hub = m THEN "closed" ELSE l.h
    BY <1>1 DEF Without, Connections
<1>4. CASE w.s \in Gone /\ w.h \in Gone
    BY <1>3, <1>4, NoLinkFacts DEF Kept
<1>5. CASE ~(w.s \in Gone /\ w.h \in Gone)
    <2>1. Kept(w) = w
        BY <1>5 DEF Kept
    <2>2. l # NoLink
        BY <1>3, <1>5, NoLinkFacts DEF Gone
    <2>3. /\ l.spoke \in Spokes /\ l.hub \in Hubs /\ l.s # "none" /\ l.h # "none"
          /\ l.spoke \in Machines /\ l.hub \in Machines
        BY <1>1, <2>2 DEF Sound, Machines
    <2>4. /\ w.spoke \in Spokes /\ w.hub \in Hubs /\ w.s # "none" /\ w.h # "none"
          /\ w.s \notin Gone => w.spoke \in up'
          /\ w.h \notin Gone => w.hub \in up'
        BY <1>1, <1>2, <1>3, <2>3 DEF Sound, Gone
    <2>5. /\ w.sHello # NoKey => w.sHello = idFile'[w.spoke] /\ w.sHello \in Keys
          /\ w.hHello # NoKey => w.hHello = idFile'[w.hub] /\ w.hHello \in Keys
          /\ w.h \in {"check", "up"} => w.sHello # NoKey
        BY <1>1, <1>3 DEF Sound
    <2>6. w.h = "up" /\ <<w.hub, "peers">> \notin lost' => w.sHello \in known'[w.hub]
        BY <1>1, <1>2, <1>3, <2>3 DEF Sound
    <2>7. w.s = "up" =>
             /\ w.hHello # NoKey /\ pin'[w.spoke] \in {NoKey, w.hHello}
             /\ <<w.spoke, "peers">> \notin lost' => w.hHello \in known'[w.spoke]
        BY <1>1, <1>2, <1>3, <2>3 DEF Sound
    <2>8. Sound(w, idFile', up', pin', known', lost')
        BY <2>4, <2>5, <2>6, <2>7 DEF Sound
    <2> QED BY <1>3, <2>1, <2>8
<1> QED BY <1>3, <1>4, <1>5

LEMMA BacklogWithout ==
    ASSUME Inv, NEW m \in Machines, Ends(m), NEW h \in Hubs
    PROVE  backlog' \in [Hubs -> Seq(Links)] /\ BacklogOK(h)'
<1>1. /\ link \in [Links -> Connections] /\ backlog \in [Hubs -> Seq(Links)]
      /\ backlog[h] \in Seq(Links) /\ BacklogOK(h) /\ Len(backlog[h]) \in Nat
    BY DEF Inv, TypeOK
<1>2. /\ backlog' = IF m \in Hubs THEN [backlog EXCEPT ![m] = <<>>] ELSE backlog
      /\ link' = [c \in Links |-> Kept(Without(link[c], m))]
    BY DEF Ends
<1>3. backlog' \in [Hubs -> Seq(Links)]
    <2>1. <<>> \in Seq(Links)
        OBVIOUS
    <2> QED BY <1>1, <1>2, <2>1
<1>4. CASE h = m
    <2>1. backlog'[h] = <<>>
        BY <1>1, <1>2, <1>4
    <2>2. 1 .. Len(backlog'[h]) = {}
        <3>1. Len(<<>>) = 0
            OBVIOUS
        <3> QED BY <2>1, <3>1
    <2> QED BY <1>3, <2>2 DEF BacklogOK
<1>5. CASE h # m
    <2>1. backlog'[h] = backlog[h]
        BY <1>1, <1>2, <1>5
    <2>2. \A i \in 1 .. Len(backlog[h]) :
             link'[backlog[h][i]].hub = h /\ link'[backlog[h][i]].h = "backlog"
        <3> SUFFICES ASSUME NEW i \in 1 .. Len(backlog[h])
                     PROVE  /\ link'[backlog[h][i]].hub = h
                            /\ link'[backlog[h][i]].h = "backlog"
            OBVIOUS
        <3>1. /\ backlog[h][i] \in Links /\ link[backlog[h][i]] \in Connections
              /\ link[backlog[h][i]].hub = h /\ link[backlog[h][i]].h = "backlog"
            BY <1>1 DEF BacklogOK
        <3>2. /\ Without(link[backlog[h][i]], m).hub = h
              /\ Without(link[backlog[h][i]], m).h = "backlog"
            BY <1>5, <3>1 DEF Without, Connections
        <3> QED BY <1>2, <3>1, <3>2 DEF Kept, Gone
    <2> QED BY <1>1, <1>3, <2>1, <2>2 DEF BacklogOK
<1> QED BY <1>4, <1>5

\* A process ends, and may leave half a peer store behind.
LEMMA EndsStep ==
    ASSUME Inv, NEW m \in Machines, Ends(m),
           UNCHANGED <<idFile, config, gens, told, starts, paired>>,
           peerFile' \in [Machines -> (SUBSET Keys) \cup {CorruptPeers}],
           \A n \in Machines \ {m} : peerFile'[n] = peerFile[n],
           peerFile'[m] # CorruptPeers => peerFile'[m] \subseteq Genuine,
           lost \subseteq lost', lost' \subseteq lost \cup {<<m, "peers">>},
           <<m, "peers">> \notin lost' => peerFile' = peerFile,
           faults' \in 0 .. MaxFaults
    PROVE  Inv'
<1>1. /\ \A n \in Machines : MachineOK(n)
      /\ \A s \in Spokes : SpokeOK(s)
      /\ \A s \in Spokes, h \in Hubs : <<s, h>> \in paired => PairOK(s, h)
      /\ TypeOK
    BY DEF Inv
<1>2. /\ up' = up \ {m}
      /\ key' = [key EXCEPT ![m] = NoKey]
      /\ known' = [known EXCEPT ![m] = {}]
      /\ tofu' = [tofu EXCEPT ![m] = FALSE]
      /\ pin' = IF m \in Spokes THEN [pin EXCEPT ![m] = NoKey] ELSE pin
      /\ rest' = IF m \in Spokes THEN [rest EXCEPT ![m] = <<>>] ELSE rest
      /\ link' = [c \in Links |-> Kept(Without(link[c], m))]
    BY DEF Ends
<1>3. Genuine' = Genuine
    BY DEF Genuine
<1>4. \A n \in Machines : MachineOK(n)'
    <2>1. MachineOK(m)'
        <3>1. m \notin up' /\ key'[m] = NoKey /\ known'[m] = {}
            BY <1>1, <1>2 DEF TypeOK
        <3> QED BY <1>1, <1>3, <3>1 DEF MachineOK
    <2>2. ASSUME NEW n \in Machines, n # m PROVE MachineOK(n)'
        <3>1. /\ n \in up' <=> n \in up
              /\ key'[n] = key[n] /\ known'[n] = known[n] /\ peerFile'[n] = peerFile[n]
              /\ <<n, "peers">> \in lost' <=> <<n, "peers">> \in lost
            BY <1>1, <1>2, <2>2 DEF TypeOK
        <3> QED BY <1>1, <1>3, <3>1 DEF MachineOK
    <2> QED BY <2>1, <2>2
<1>5. \A s \in Spokes : SpokeOK(s)'
    BY <1>1, <1>2 DEF SpokeOK, TypeOK
<1>6. \A n \in Machines : <<n, "peers">> \notin lost' => peerFile'[n] = peerFile[n]
    OBVIOUS
<1>7. \A s \in Spokes, h \in Hubs : (<<s, h>> \in paired)' => PairOK(s, h)'
    BY <1>1, <1>6 DEF PairOK, Machines
<1>8. \A c \in Links : Without(link[c], m) \in Connections /\ LinkOK(c)'
    BY <1>2, SoundWithout DEF LinkOK
<1>9. link' \in [Links -> Connections]
    BY <1>2, <1>8, NoLinkFacts DEF Kept
<1>10. \A h \in Hubs : BacklogOK(h)'
    BY BacklogWithout
<1>11. backlog' \in [Hubs -> Seq(Links)]
    <2>1. Hubs = {} => backlog' \in [Hubs -> Seq(Links)]
        BY <1>1 DEF TypeOK, Ends
    <2> QED BY <2>1, BacklogWithout
<1>12. TypeOK'
    <2>1. <<>> \in Seq(Hubs)
        OBVIOUS
    <2>2. /\ up' \subseteq Machines /\ key' \in [Machines -> Keys \cup {NoKey}]
          /\ known' \in [Machines -> SUBSET Keys] /\ tofu' \in [Machines -> BOOLEAN]
          /\ pin' \in [Spokes -> Keys \cup {NoKey, Elsewhere}]
          /\ rest' \in [Spokes -> Seq(Hubs)]
        BY <1>1, <1>2, <2>1 DEF TypeOK
    <2>3. lost' \subseteq Machines \X {"identity", "peers", "config"}
        BY <1>1 DEF TypeOK
    <2> QED BY <1>1, <1>9, <1>11, <2>2, <2>3 DEF TypeOK
<1> QED BY <1>4, <1>5, <1>7, <1>8, <1>10, <1>12 DEF Inv

LEMMA StopStep == ASSUME Inv, NEW m \in Machines, Stop(m) PROVE Inv'
<1>1. /\ UNCHANGED <<idFile, peerFile, config, gens, told, paired, lost, starts, faults>>
      /\ Ends(m)
    BY DEF Stop, diskVars, ghostVars
<1>2. /\ TypeOK
      /\ peerFile[m] # CorruptPeers => peerFile[m] \subseteq Genuine
    BY DEF Inv, MachineOK
<1> QED BY <1>1, <1>2, EndsStep DEF TypeOK

\* A process dies while it writes the peer it just learned.
LEMMA DiesStep ==
    ASSUME Inv, NEW m \in Machines, NEW k \in Genuine, DiesInFlush(m, k),
           UNCHANGED <<idFile, config, gens, told, starts, paired>>
    PROVE  Inv'
<1>1. /\ TypeOK /\ known[m] \subseteq Genuine
    BY DEF Inv, MachineOK
<1>2. /\ Ends(m) /\ lost' = lost \cup {<<m, "peers">>}
      /\ faults < MaxFaults /\ faults' = faults + 1
    BY DEF DiesInFlush, Fault
<1>3. PICK left \in {CorruptPeers} \cup (SUBSET (known[m] \cup {k})) :
         peerFile' = [peerFile EXCEPT ![m] = left]
    BY DEF DiesInFlush, PeerPrefixes
<1>4. left \in (SUBSET Keys) \cup {CorruptPeers} /\ (left # CorruptPeers => left \subseteq Genuine)
    BY <1>1, <1>3 DEF Genuine
<1>5. /\ peerFile' \in [Machines -> (SUBSET Keys) \cup {CorruptPeers}]
      /\ peerFile'[m] = left
      /\ \A n \in Machines \ {m} : peerFile'[n] = peerFile[n]
    BY <1>1, <1>3, <1>4 DEF TypeOK
<1>6. faults' \in 0 .. MaxFaults
    BY <1>1, <1>2, PairingAssumption DEF TypeOK
<1> QED BY <1>2, <1>4, <1>5, <1>6, EndsStep

LEMMA DiesInHandshake ==
    ASSUME Inv, NEW c \in Links, HubDies(c) \/ SpokeDies(c)
    PROVE  Inv'
<1>1. Sound(link[c], idFile, up, pin, known, lost)
    BY LinkFacts
<1>2. CASE HubDies(c)
    <2>1. link[c].hub \in Machines /\ link[c].sHello \in Genuine
        BY <1>1, <1>2, LinkFacts, HellosAreGenuine DEF HubDies, Sound, Gone, Machines
    <2> QED BY <1>2, <2>1, DiesStep DEF HubDies
<1>3. CASE SpokeDies(c)
    <2>1. link[c].spoke \in Machines /\ link[c].hHello \in Genuine
        BY <1>1, <1>3, LinkFacts, HellosAreGenuine DEF SpokeDies, Answered, Gone, Machines
    <2> QED BY <1>3, <2>1, DiesStep DEF SpokeDies
<1> QED BY <1>2, <1>3

-------------------------------------------------------------------------------
\* A process starts. Identity files only change where there is no key yet.
LEMMA StartFrame ==
    ASSUME Inv, Grows, UNCHANGED <<peerFile, netVars, paired>>
    PROVE  /\ Genuine \subseteq Genuine'
           /\ \A c \in Links : LinkOK(c)'
           /\ \A h \in Hubs : BacklogOK(h)'
           /\ \A s \in Spokes, h \in Hubs : <<s, h>> \in paired' => PairOK(s, h)'
<1>1. UNCHANGED <<peerFile, link, backlog, rest, paired>>
    BY DEF netVars
<1>2. Genuine \subseteq Genuine'
    BY KeyFacts DEF Grows, Genuine
<1>3. \A c \in Links : LinkOK(c)'
    <2>1. \A c \in Links : Sound(link[c], idFile, up, pin, known, lost)
        BY DEF Inv, LinkOK
    <2>2. \A c \in Links : Sound(link[c], idFile', up', pin', known', lost')
        BY <2>1, SoundGrows
    <2> QED BY <1>1, <2>2 DEF LinkOK
<1>4. \A h \in Hubs : BacklogOK(h)'
    BY <1>1 DEF Inv, BacklogOK
<1>5. \A s \in Spokes, h \in Hubs : <<s, h>> \in paired' => PairOK(s, h)'
    BY <1>1 DEF Inv, PairOK, Grows, Machines
<1> QED BY <1>2, <1>3, <1>4, <1>5

\* What the identity of a starting process is.
LEMMA IdentityFacts ==
    ASSUME Inv, NEW m \in Machines, Loads(m), Start
    PROVE  /\ Identity(m) \in Keys /\ Identity(m)[1] = m
           /\ Identity(m)[2] \in 0 .. MaxStarts /\ Identity(m)[2] <= starts'
           /\ idFile[m] \in Keys => Identity(m) = idFile[m]
           /\ starts' \in 0 .. MaxStarts /\ starts <= starts'
<1>1. /\ idFile[m] \in Keys \cup {Absent, Short} /\ idFile[m] # Short
      /\ starts \in 0 .. MaxStarts /\ starts < MaxStarts /\ starts' = starts + 1
      /\ gens[m] \in 0 .. MaxStarts /\ gens[m] <= starts
      /\ MaxStarts \in Nat
      /\ idFile[m] \in Keys => idFile[m][1] = m /\ idFile[m][2] <= starts
    BY PairingAssumption DEF Inv, TypeOK, MachineOK, Loads, Start
<1>2. CASE idFile[m] = Absent
    <2>1. Identity(m) = <<m, gens[m] + 1>> /\ gens[m] + 1 \in 1 .. MaxStarts
        BY <1>1, <1>2 DEF Identity
    <2> QED BY <1>1, <1>2, <2>1, KeyFacts
<1>3. CASE idFile[m] # Absent
    <2>1. Identity(m) = idFile[m] /\ idFile[m] \in Keys
        BY <1>1, <1>3 DEF Identity
    <2>2. idFile[m][2] \in 1 .. MaxStarts
        BY <2>1, KeyFacts
    <2> QED BY <1>1, <2>1, <2>2
<1> QED BY <1>2, <1>3

\* A process starts and finds its files.
LEMMA BootOK ==
    ASSUME Inv, NEW m \in Machines, NEW t \in BOOLEAN, m \notin up, Loads(m), Start,
           Boot(m, t), \A s \in Spokes \ {m} : pin'[s] = pin[s],
           UNCHANGED <<peerFile, netVars, paired, lost>>
    PROVE  /\ Grows
           /\ \A n \in Machines : MachineOK(n)'
           /\ \A c \in Links : LinkOK(c)'
           /\ \A h \in Hubs : BacklogOK(h)'
           /\ \A s \in Spokes, h \in Hubs : <<s, h>> \in paired' => PairOK(s, h)'
           /\ idFile' \in [Machines -> Keys \cup {Absent, Short}]
           /\ up' \subseteq Machines /\ key' \in [Machines -> Keys \cup {NoKey}]
           /\ known' \in [Machines -> SUBSET Keys] /\ tofu' \in [Machines -> BOOLEAN]
           /\ gens' \in [Machines -> 0 .. MaxStarts]
<1>1. /\ Identity(m) \in Keys /\ Identity(m)[1] = m
      /\ Identity(m)[2] \in 0 .. MaxStarts /\ Identity(m)[2] <= starts'
      /\ idFile[m] \in Keys => Identity(m) = idFile[m]
      /\ starts' \in 0 .. MaxStarts /\ starts <= starts'
    BY IdentityFacts
<1>2. /\ up' = up \cup {m}
      /\ key' = [key EXCEPT ![m] = Identity(m)]
      /\ idFile' = [idFile EXCEPT ![m] = Identity(m)]
      /\ gens' = [gens EXCEPT ![m] = Identity(m)[2]]
      /\ known' = [known EXCEPT ![m] = peerFile[m]]
      /\ tofu' = [tofu EXCEPT ![m] = t]
    BY DEF Boot
<1>3. TypeOK /\ \A n \in Machines : MachineOK(n)
    BY DEF Inv
<1>4. peerFile[m] # CorruptPeers /\ peerFile[m] \subseteq Genuine
    BY <1>3 DEF Loads, MachineOK
<1>5. Grows
    BY <1>1, <1>2, <1>3 DEF Grows, TypeOK
<1>6. /\ Genuine \subseteq Genuine'
      /\ \A c \in Links : LinkOK(c)'
      /\ \A h \in Hubs : BacklogOK(h)'
      /\ \A s \in Spokes, h \in Hubs : <<s, h>> \in paired' => PairOK(s, h)'
    BY <1>5, StartFrame
<1>7. /\ idFile' \in [Machines -> Keys \cup {Absent, Short}]
      /\ up' \subseteq Machines /\ key' \in [Machines -> Keys \cup {NoKey}]
      /\ tofu' \in [Machines -> BOOLEAN] /\ gens' \in [Machines -> 0 .. MaxStarts]
    BY <1>1, <1>2, <1>3 DEF TypeOK
<1>8. known' \in [Machines -> SUBSET Keys]
    BY <1>2, <1>3, <1>4 DEF TypeOK, Genuine
<1>9. MachineOK(m)'
    <2>1. /\ m \in up' /\ key'[m] = Identity(m) /\ idFile'[m] = Identity(m)
          /\ gens'[m] = Identity(m)[2] /\ known'[m] = peerFile[m] /\ peerFile'[m] = peerFile[m]
        BY <1>2, <1>3 DEF TypeOK
    <2> QED BY <1>1, <1>4, <1>6, <2>1 DEF MachineOK
<1>10. ASSUME NEW n \in Machines, n # m PROVE MachineOK(n)'
    <2>1. /\ n \in up' <=> n \in up
          /\ key'[n] = key[n] /\ idFile'[n] = idFile[n] /\ gens'[n] = gens[n]
          /\ known'[n] = known[n] /\ peerFile'[n] = peerFile[n] /\ lost' = lost
        BY <1>2, <1>3, <1>10 DEF TypeOK
    <2>2. gens[n] <= starts' /\ (idFile[n] \in Keys => idFile[n][2] <= starts')
        <3>1. /\ gens[n] \in 0 .. MaxStarts /\ gens[n] <= starts /\ starts \in 0 .. MaxStarts
              /\ idFile[n] \in Keys => idFile[n][2] <= starts
            BY <1>3 DEF TypeOK, MachineOK
        <3>2. idFile[n] \in Keys => idFile[n][2] \in 1 .. MaxStarts
            BY KeyFacts
        <3> QED BY <1>1, <3>1, <3>2, PairingAssumption
    <2> QED BY <1>3, <1>6, <2>1, <2>2 DEF MachineOK
<1> QED BY <1>5, <1>6, <1>7, <1>8, <1>9, <1>10

\* A start that changes nothing of the machines only raises the count.
LEMMA LaterOK ==
    ASSUME Inv, Start, UNCHANGED <<idFile, peerFile, up, key, known, gens>>,
           lost' \subseteq lost \cup (Machines \X {"config"}), lost \subseteq lost'
    PROVE  \A n \in Machines : MachineOK(n)'
<1> SUFFICES ASSUME NEW n \in Machines PROVE MachineOK(n)'
    OBVIOUS
<1>1. /\ MachineOK(n) /\ starts \in Nat /\ starts' = starts + 1 /\ gens[n] \in Nat
      /\ Genuine' = Genuine
    BY PairingAssumption DEF Inv, TypeOK, Start, Genuine
<1>2. idFile[n] \in Keys => idFile[n][2] \in Nat
    BY KeyFacts
<1> QED BY <1>1, <1>2 DEF MachineOK

LEMMA StartHubStep ==
    ASSUME Inv, NEW h \in Hubs, NEW t \in BOOLEAN, StartHub(h, t)
    PROVE  Inv'
<1>1. /\ h \notin up /\ Loads(h) /\ Start /\ Boot(h, t) /\ h \in Machines
      /\ UNCHANGED <<peerFile, config, pin, netVars, told, paired, lost, faults>>
      /\ UNCHANGED <<link, backlog, rest>>
    BY DEF StartHub, Machines, netVars
<1>2. TypeOK /\ \A s \in Spokes : SpokeOK(s)
    BY DEF Inv
<1>3. \A s \in Spokes : SpokeOK(s)'
    <2>1. h \notin Spokes /\ up' = up \cup {h}
        BY <1>1, PairingAssumption DEF Boot
    <2> QED BY <1>1, <1>2, <2>1 DEF SpokeOK
<1>4. /\ \A n \in Machines : MachineOK(n)'
      /\ \A c \in Links : LinkOK(c)'
      /\ \A g \in Hubs : BacklogOK(g)'
      /\ \A s \in Spokes, g \in Hubs : <<s, g>> \in paired' => PairOK(s, g)'
      /\ idFile' \in [Machines -> Keys \cup {Absent, Short}]
      /\ up' \subseteq Machines /\ key' \in [Machines -> Keys \cup {NoKey}]
      /\ known' \in [Machines -> SUBSET Keys] /\ tofu' \in [Machines -> BOOLEAN]
      /\ gens' \in [Machines -> 0 .. MaxStarts]
    BY <1>1, BootOK
<1>5. starts' \in 0 .. MaxStarts
    BY <1>1, IdentityFacts
<1>6. TypeOK'
    BY <1>1, <1>2, <1>4, <1>5 DEF TypeOK
<1> QED BY <1>3, <1>4, <1>6 DEF Inv

\* A pin on the command line is a key, or that of a hub elsewhere.
LEMMA PinsFacts == Pins \subseteq Keys \cup {NoKey, Elsewhere}
BY DEF Pins

LEMMA StartSpokeStep ==
    ASSUME Inv, NEW s \in Spokes, NEW t \in BOOLEAN, NEW p \in Pins, StartSpoke(s, t, p)
    PROVE  Inv'
<1>1. /\ s \notin up /\ config[s] # CorruptConfig /\ Start /\ s \in Machines
      /\ config' = IF SavesConfig(s, p) THEN [config EXCEPT ![s] = Saved(s, p)] ELSE config
      /\ told' = IF p # NoKey THEN [told EXCEPT ![s] = p] ELSE told
      /\ UNCHANGED <<peerFile, netVars, paired, lost, faults>>
      /\ UNCHANGED <<link, backlog, rest>>
    BY DEF StartSpoke, Machines, netVars
<1>2. /\ TypeOK /\ \A n \in Machines : MachineOK(n)
      /\ \A r \in Spokes : SpokeOK(r)
    BY DEF Inv
<1>3. p \in Keys \cup {NoKey, Elsewhere} /\ config[s] \in Configs
    BY <1>1, <1>2, PinsFacts DEF TypeOK
<1>4. Expected(s, p) \in Keys \cup {NoKey, Elsewhere} /\ Saved(s, p) \in Configs
    BY <1>3 DEF Expected, Saved, Configs
<1>5. /\ config' \in [Spokes -> Configs \cup {CorruptConfig}]
      /\ told' \in [Spokes -> Keys \cup {NoKey, Elsewhere}]
    BY <1>1, <1>2, <1>3, <1>4 DEF TypeOK
<1>6. /\ config'[s].pin = Expected(s, p)
      /\ \A r \in Spokes \ {s} : config'[r] = config[r] /\ told'[r] = told[r]
    BY <1>1, <1>2 DEF TypeOK, Expected, SavesConfig, Saved
<1>7. told'[s] # NoKey /\ <<s, "config">> \notin lost => Expected(s, p) = told'[s]
    BY <1>1, <1>2 DEF TypeOK, Expected, SpokeOK
<1>8. starts' \in 0 .. MaxStarts /\ starts <= starts'
    BY <1>1, <1>2, PairingAssumption DEF Start, TypeOK
<1>9. CASE Loads(s)
    <2>1. Boot(s, t) /\ pin' = [pin EXCEPT ![s] = Expected(s, p)]
        BY <1>9 DEF StartSpoke
    <2>2. /\ pin' \in [Spokes -> Keys \cup {NoKey, Elsewhere}] /\ pin'[s] = Expected(s, p)
          /\ \A r \in Spokes \ {s} : pin'[r] = pin[r]
        BY <1>2, <1>4, <2>1 DEF TypeOK
    <2>3. /\ \A n \in Machines : MachineOK(n)'
          /\ \A c \in Links : LinkOK(c)'
          /\ \A g \in Hubs : BacklogOK(g)'
          /\ \A r \in Spokes, g \in Hubs : <<r, g>> \in paired' => PairOK(r, g)'
          /\ idFile' \in [Machines -> Keys \cup {Absent, Short}]
          /\ up' \subseteq Machines /\ key' \in [Machines -> Keys \cup {NoKey}]
          /\ known' \in [Machines -> SUBSET Keys] /\ tofu' \in [Machines -> BOOLEAN]
          /\ gens' \in [Machines -> 0 .. MaxStarts]
        BY <1>1, <1>9, <2>1, <2>2, BootOK
    <2>4. \A r \in Spokes : SpokeOK(r)'
        <3>1. SpokeOK(s)'
            BY <1>1, <1>6, <1>7, <2>2 DEF SpokeOK
        <3>2. \A r \in Spokes \ {s} : r \in up' <=> r \in up
            BY <2>1 DEF Boot
        <3>3. \A r \in Spokes \ {s} : SpokeOK(r)'
            BY <1>1, <1>2, <1>6, <2>2, <3>2 DEF SpokeOK
        <3> QED BY <3>1, <3>3
    <2>5. TypeOK'
        BY <1>1, <1>2, <1>5, <1>8, <2>2, <2>3 DEF TypeOK
    <2> QED BY <2>3, <2>4, <2>5 DEF Inv
<1>10. CASE ~Loads(s)
    <2>1. UNCHANGED <<idFile, up, key, known, tofu, pin, gens>>
        BY <1>10 DEF StartSpoke, procVars
    <2>2. Grows
        BY <1>1, <2>1 DEF Grows
    <2>3. /\ \A c \in Links : LinkOK(c)'
          /\ \A g \in Hubs : BacklogOK(g)'
          /\ \A r \in Spokes, g \in Hubs : <<r, g>> \in paired' => PairOK(r, g)'
        BY <1>1, <2>2, StartFrame
    <2>4. \A r \in Spokes : SpokeOK(r)'
        BY <1>1, <1>2, <1>6, <1>7, <2>1 DEF SpokeOK
    <2>5. \A n \in Machines : MachineOK(n)'
        BY <1>1, <1>2, <2>1, LaterOK
    <2>6. TypeOK'
        BY <1>1, <1>2, <1>5, <1>8, <2>1 DEF TypeOK
    <2> QED BY <2>3, <2>4, <2>5, <2>6 DEF Inv
<1> QED BY <1>9, <1>10

LEMMA StartLosesConfigStep ==
    ASSUME Inv, NEW s \in Spokes, NEW p \in Pins, StartLosesConfig(s, p)
    PROVE  Inv'
<1>1. /\ s \notin up /\ Start /\ s \in Machines
      /\ faults < MaxFaults /\ faults' = faults + 1
      /\ lost' = lost \cup {<<s, "config">>}
      /\ told' = IF p # NoKey THEN [told EXCEPT ![s] = p] ELSE told
      /\ UNCHANGED <<peerFile, netVars, paired>>
      /\ UNCHANGED <<idFile, up, key, known, tofu, pin, gens, link, backlog, rest>>
    BY DEF StartLosesConfig, Fault, Machines, procVars, netVars
<1>2. /\ TypeOK /\ \A n \in Machines : MachineOK(n)
      /\ \A r \in Spokes : SpokeOK(r)
    BY DEF Inv
<1>3. PICK left \in ConfigPrefixes : config' = [config EXCEPT ![s] = left]
    BY DEF StartLosesConfig
<1>4. left \in Configs \cup {CorruptConfig}
    BY <1>3 DEF ConfigPrefixes, Configs
<1>5. /\ config' \in [Spokes -> Configs \cup {CorruptConfig}]
      /\ told' \in [Spokes -> Keys \cup {NoKey, Elsewhere}]
      /\ \A r \in Spokes \ {s} : config'[r] = config[r] /\ told'[r] = told[r]
    BY <1>1, <1>2, <1>3, <1>4, PinsFacts DEF TypeOK
<1>6. /\ \A c \in Links : LinkOK(c)'
      /\ \A g \in Hubs : BacklogOK(g)'
      /\ \A r \in Spokes, g \in Hubs : <<r, g>> \in paired' => PairOK(r, g)'
    BY <1>1, StartFrame DEF Grows
<1>7. \A r \in Spokes : SpokeOK(r)'
    BY <1>1, <1>2, <1>5 DEF SpokeOK
<1>8. \A n \in Machines : MachineOK(n)'
    BY <1>1, <1>2, LaterOK
<1>9. starts' \in 0 .. MaxStarts /\ faults' \in 0 .. MaxFaults
    BY <1>1, <1>2, PairingAssumption DEF Start, TypeOK
<1>10. TypeOK'
    BY <1>1, <1>2, <1>5, <1>9 DEF TypeOK
<1> QED BY <1>6, <1>7, <1>8, <1>10 DEF Inv

LEMMA StartLosesIdentityStep ==
    ASSUME Inv, NEW m \in Machines, StartLosesIdentity(m)
    PROVE  Inv'
<1>1. /\ m \notin up /\ Start /\ idFile[m] = Absent
      /\ faults < MaxFaults /\ faults' = faults + 1
      /\ lost' = lost \cup {<<m, "identity">>}
      /\ idFile' = [idFile EXCEPT ![m] = Short]
      /\ gens' = [gens EXCEPT ![m] = gens[m] + 1]
      /\ UNCHANGED <<peerFile, netVars, paired>>
      /\ UNCHANGED <<config, told, up, key, known, tofu, pin, link, backlog, rest>>
    BY DEF StartLosesIdentity, Fault, procVars, netVars
<1>2. /\ TypeOK /\ \A n \in Machines : MachineOK(n)
      /\ \A r \in Spokes : SpokeOK(r)
    BY DEF Inv
<1>3. /\ starts \in 0 .. MaxStarts /\ starts < MaxStarts /\ starts' = starts + 1
      /\ starts' \in 0 .. MaxStarts /\ faults' \in 0 .. MaxFaults
      /\ gens[m] \in 0 .. MaxStarts /\ gens[m] <= starts /\ MaxStarts \in Nat
    <2>1. /\ starts \in 0 .. MaxStarts /\ faults \in 0 .. MaxFaults
          /\ MaxStarts \in Nat /\ MaxFaults \in Nat
          /\ starts < MaxStarts /\ starts' = starts + 1
        BY <1>1, <1>2, PairingAssumption DEF Start, TypeOK
    <2>2. gens[m] \in 0 .. MaxStarts /\ gens[m] <= starts
        BY <1>2 DEF TypeOK, MachineOK
    <2> QED BY <1>1, <2>1, <2>2
<1>4. /\ idFile' \in [Machines -> Keys \cup {Absent, Short}]
      /\ gens' \in [Machines -> 0 .. MaxStarts]
      /\ \A n \in Machines : idFile[n] \in Keys => idFile'[n] = idFile[n]
    BY <1>1, <1>2, <1>3, KeyFacts DEF TypeOK
<1>5. Grows
    BY <1>1, <1>4 DEF Grows
<1>6. /\ Genuine \subseteq Genuine'
      /\ \A c \in Links : LinkOK(c)'
      /\ \A g \in Hubs : BacklogOK(g)'
      /\ \A r \in Spokes, g \in Hubs : <<r, g>> \in paired' => PairOK(r, g)'
    BY <1>1, <1>5, StartFrame
<1>7. \A r \in Spokes : SpokeOK(r)'
    BY <1>1, <1>2 DEF SpokeOK
<1>8. MachineOK(m)'
    <2>1. idFile'[m] = Short /\ gens'[m] = gens[m] + 1
        BY <1>1, <1>2 DEF TypeOK
    <2> QED BY <1>1, <1>2, <1>3, <1>6, <2>1, KeyFacts DEF MachineOK
<1>9. \A n \in Machines \ {m} : MachineOK(n)'
    <2> SUFFICES ASSUME NEW n \in Machines, n # m PROVE MachineOK(n)'
        OBVIOUS
    <2>1. idFile'[n] = idFile[n] /\ gens'[n] = gens[n]
        BY <1>1, <1>2 DEF TypeOK
    <2>2. gens[n] \in 0 .. MaxStarts /\ gens[n] <= starts
        BY <1>2 DEF TypeOK, MachineOK
    <2>3. idFile[n] \in Keys => idFile[n][2] \in 1 .. MaxStarts /\ idFile[n][2] <= starts
        BY <1>2, KeyFacts DEF MachineOK
    <2> QED BY <1>1, <1>2, <1>3, <1>6, <2>1, <2>2, <2>3 DEF MachineOK
<1>10. TypeOK'
    <2>1. lost' \subseteq Machines \X {"identity", "peers", "config"}
        BY <1>1, <1>2 DEF TypeOK
    <2> QED BY <1>1, <1>2, <1>3, <1>4, <2>1 DEF TypeOK
<1> QED BY <1>6, <1>7, <1>8, <1>9, <1>10 DEF Inv

-------------------------------------------------------------------------------
LEMMA InitInv == Init => Inv
<1> SUFFICES ASSUME Init PROVE Inv
    OBVIOUS
<1>1. \A c \in Links : link[c] = NoLink /\ LinkOK(c)
    BY NoLinkFacts DEF Init, LinkOK
<1>2. \A h \in Hubs : BacklogOK(h)
    <2> SUFFICES ASSUME NEW h \in Hubs PROVE BacklogOK(h)
        OBVIOUS
    <2>1. backlog[h] = <<>>
        BY DEF Init
    <2>2. 1 .. Len(backlog[h]) = {}
        <3>1. Len(<<>>) = 0
            OBVIOUS
        <3> QED BY <2>1, <3>1
    <2> QED BY <2>2 DEF BacklogOK
<1>3. TypeOK
    <2>1. <<>> \in Seq(Hubs) /\ <<>> \in Seq(Links)
        OBVIOUS
    <2>2. 0 \in 0 .. MaxStarts /\ 0 \in 0 .. MaxFaults
        BY PairingAssumption
    <2>3. [role |-> "unset", pin |-> NoKey] \in Configs
        BY DEF Configs
    <2> QED BY <2>1, <2>2, <2>3, NoLinkFacts DEF Init, TypeOK
<1>4. \A m \in Machines : MachineOK(m)
    BY KeyFacts DEF Init, MachineOK, CorruptPeers
<1>5. \A s \in Spokes : SpokeOK(s)
    BY DEF Init, SpokeOK
<1> QED BY <1>1, <1>2, <1>3, <1>4, <1>5 DEF Init, Inv

LEMMA NextInv == Inv /\ [Next]_vars => Inv'
<1> SUFFICES ASSUME Inv, [Next]_vars PROVE Inv'
    OBVIOUS
<1>1. CASE User
    <2>1. ASSUME NEW h \in Hubs, NEW t \in BOOLEAN, StartHub(h, t) PROVE Inv'
        BY <2>1, StartHubStep
    <2>2. ASSUME NEW s \in Spokes, NEW t \in BOOLEAN, NEW p \in Pins, StartSpoke(s, t, p)
          PROVE  Inv'
        BY <2>2, StartSpokeStep
    <2>3. ASSUME NEW m \in Machines, Stop(m) PROVE Inv'
        BY <2>3, StopStep
    <2>4. ASSUME NEW c \in Links, UserCopies(c) PROVE Inv'
        BY <2>4, SpokeEndsStep
    <2> QED BY <1>1, <2>1, <2>2, <2>3, <2>4 DEF User
<1>2. CASE Faults
    <2>1. ASSUME NEW s \in Spokes, NEW p \in Pins, StartLosesConfig(s, p) PROVE Inv'
        BY <2>1, StartLosesConfigStep
    <2>2. ASSUME NEW m \in Machines, StartLosesIdentity(m) PROVE Inv'
        BY <2>2, StartLosesIdentityStep
    <2>3. ASSUME NEW c \in Links, HubDies(c) \/ SpokeDies(c) PROVE Inv'
        BY <2>3, DiesInHandshake
    <2> QED BY <1>2, <2>1, <2>2, <2>3 DEF Faults
<1>3. ASSUME NEW s \in Spokes, Dial(s) PROVE Inv'
    BY <1>3, DialStep
<1>4. ASSUME NEW h \in Hubs, Accept(h) PROVE Inv'
    BY <1>4, AcceptStep
<1>5. ASSUME NEW c \in Links, HubStep(c) PROVE Inv'
    BY <1>5, HubReadsStep, HubHangsUpStep, HubJudges DEF HubStep
<1>6. ASSUME NEW c \in Links, SpokeStep(c) PROVE Inv'
    BY <1>6, SecuredStep, SpokeEndsStep, SpokeJudges DEF SpokeStep
<1>7. CASE UNCHANGED vars
    <2>1. /\ UNCHANGED <<diskVars, procVars, ghostVars>>
          /\ UNCHANGED <<link, backlog, rest>>
        BY <1>7 DEF vars, netVars
    <2>2. UNCHANGED <<idFile, up, pin, known, lost>>
        BY <2>1, NetGrows
    <2>3. /\ \A c \in Links : LinkOK(c)'
          /\ \A h \in Hubs : BacklogOK(h)'
        BY <2>1, <2>2 DEF Inv, LinkOK, BacklogOK
    <2> QED BY <2>1, <2>3, NetFrame DEF Inv, TypeOK
<1> QED BY <1>1, <1>2, <1>3, <1>4, <1>5, <1>6, <1>7 DEF Next

\* The inductive invariant holds in every reachable state.
THEOREM InvAlways == Spec => []Inv
BY InitInv, NextInv, PTL DEF Spec

\* Every variable stays of its type: files, processes, connections and queues.
THEOREM Typed == Spec => []TypeOK
<1>1. Inv => TypeOK
    BY DEF Inv
<1> QED BY <1>1, InvAlways, PTL

\* Two machines that had a session recognise each other in every later run,
\* unless a write of one's peer store went wrong.
THEOREM PairsAreRecognised == Spec => []PairedIsRecognised
<1>1. Inv => PairedIsRecognised
    <2> SUFFICES ASSUME Inv, NEW q \in paired
                 PROVE  /\ q[2] \in up /\ <<q[2], "peers">> \notin lost =>
                             idFile[q[1]] \in known[q[2]]
                        /\ q[1] \in up /\ <<q[1], "peers">> \notin lost =>
                             idFile[q[2]] \in known[q[1]]
        BY DEF PairedIsRecognised
    <2>1. PICK s \in Spokes, h \in Hubs : q = <<s, h>>
        BY DEF Inv, TypeOK
    <2>2. PairOK(s, h) /\ q[1] = s /\ q[2] = h
        BY <2>1 DEF Inv
    <2>3. \A n \in up \cap Machines : <<n, "peers">> \notin lost => known[n] = peerFile[n]
        BY DEF Inv, MachineOK
    <2> QED BY <2>2, <2>3 DEF PairOK, Machines
<1> QED BY <1>1, InvAlways, PTL

\* Whatever key of a machine is trusted, stored, signed with or on its way,
\* is the one in its identity file.
THEOREM OneIdentityForGood == Spec => []IdentityIsStable
<1>1. Inv => IdentityIsStable
    <2> SUFFICES ASSUME Inv, NEW m \in Machines, NEW k \in KeysOf(m), k # NoKey, k[1] = m
                 PROVE  k = idFile[m]
        BY DEF IdentityIsStable
    <2>1. \A n \in Machines : MachineOK(n)
        BY DEF Inv
    <2>2. CASE \E n \in Machines : k \in known[n]
        BY <2>1, <2>2 DEF MachineOK, Genuine
    <2>3. CASE \E n \in Machines : peerFile[n] # CorruptPeers /\ k \in peerFile[n]
        BY <2>1, <2>3 DEF MachineOK, Genuine
    <2>4. CASE \E n \in up : k = key[n]
        <3>1. PICK n \in up : k = key[n]
            BY <2>4
        <3>2. n \in Machines /\ key[n] = idFile[n] /\ idFile[n] \in Keys /\ idFile[n][1] = n
            BY <2>1 DEF MachineOK, Inv, TypeOK
        <3> QED BY <3>1, <3>2
    <2>5. CASE \E c \in Links : k \in {link[c].sHello, link[c].hHello}
        <3>1. k \in Genuine
            BY <2>5, HellosAreGenuine
        <3> QED BY <3>1 DEF Genuine
    <2> QED BY <2>2, <2>3, <2>4, <2>5 DEF KeysOf
<1> QED BY <1>1, InvAlways, PTL

\* Once its user has pinned a hub, a spoke has no session with another one,
\* in this run or a later one, unless the write of its config went wrong.
THEOREM PinsOutliveRestarts == Spec => []PinOutlivesRestarts
<1>1. Inv => PinOutlivesRestarts
    <2> SUFFICES ASSUME Inv, NEW c \in Links, link[c].s = "up",
                        <<link[c].spoke, "config">> \notin lost
                 PROVE  told[link[c].spoke] \in {NoKey, link[c].hHello}
        BY DEF PinOutlivesRestarts
    <2>1. /\ link[c].spoke \in Spokes /\ link[c].spoke \in up
          /\ pin[link[c].spoke] \in {NoKey, link[c].hHello}
        BY LinkFacts DEF Sound, Gone
    <2>2. SpokeOK(link[c].spoke)
        BY <2>1 DEF Inv
    <2> QED BY <2>1, <2>2 DEF SpokeOK
<1> QED BY <1>1, InvAlways, PTL
-------------------------------------------------------------------------------
\* What a step may add to the store of a spoke that keeps running.
LearnsOnly(s) == pin[s] # NoKey => known'[s] \ known[s] \subseteq {pin[s]}

\* A judgement by anyone else adds nothing, a judgement by a pinned spoke its
\* pin at most.
LEMMA LearnsItsPin ==
    ASSUME Inv, NEW s \in up \cap up' \cap Spokes, NEW c \in Links,
           HubStep(c) \/ SpokeStep(c) \/ UserCopies(c) \/ HubDies(c) \/ SpokeDies(c)
    PROVE  LearnsOnly(s)
<1>1. known \in [Machines -> SUBSET Keys] /\ s \in Machines /\ s \notin Hubs
    BY PairingAssumption DEF Inv, TypeOK, Machines
<1>2. CASE HubAdmits(c) \/ HubRefuses(c)
    <2>1. link[c].hub \in Hubs /\ link[c].hub \in up /\ link[c].sHello \in Keys
        BY <1>2, LinkFacts DEF HubAdmits, HubRefuses, Gone, Sound
    <2>2. known'[s] = known[s]
        BY <1>1, <1>2, <2>1, JudgedStores DEF HubAdmits, HubRefuses
    <2> QED BY <2>2 DEF LearnsOnly
<1>3. CASE SpokeAdmits(c) \/ SpokeRefuses(c)
    <2>1. /\ link[c].spoke \in up /\ link[c].hHello \in Keys
          /\ PinHolds(link[c].spoke, link[c].hHello)
        BY <1>3, LinkFacts DEF SpokeAdmits, SpokeRefuses, Answered, Gone, Sound
    <2>2. /\ s # link[c].spoke => known'[s] = known[s]
          /\ s = link[c].spoke => known'[s] \subseteq known[s] \cup {link[c].hHello}
        BY <1>1, <1>3, <2>1, JudgedStores DEF SpokeAdmits, SpokeRefuses
    <2> QED BY <2>1, <2>2 DEF LearnsOnly, PinHolds
<1>4. CASE HubDies(c) \/ SpokeDies(c)
    <2>1. \E m : up' = up \ {m} /\ known' = [known EXCEPT ![m] = {}]
        BY <1>4 DEF HubDies, SpokeDies, DiesInFlush, Ends
    <2> QED BY <1>1, <2>1 DEF LearnsOnly
<1>5. CASE \/ UserCopies(c) \/ HubReads(c) \/ HubHangsUp(c) \/ Secured(c)
           \/ SpokeHangsUp(c) \/ SessionLost(c) \/ WrongPin(c)
    <2>1. UNCHANGED procVars
        BY <1>5 DEF UserCopies, HubReads, HubHangsUp, Secured, SpokeHangsUp, SessionLost, WrongPin
    <2> QED BY <2>1 DEF procVars, LearnsOnly
<1> QED BY <1>2, <1>3, <1>4, <1>5 DEF HubStep, SpokeStep

\* A pinned run never adds another hub to the store, even with --pair.
THEOREM PinnedRunsLearnTheirPin == Spec => PinnedLearnsItsPinOnly
<1>1. ASSUME Inv, Next PROVE \A s \in up \cap up' \cap Spokes : LearnsOnly(s)
    <2> SUFFICES ASSUME NEW s \in up \cap up' \cap Spokes PROVE LearnsOnly(s)
        OBVIOUS
    <2>1. known \in [Machines -> SUBSET Keys] /\ s \in Machines
        BY <1>1 DEF Inv, TypeOK, Machines
    <2>2. ASSUME NEW m \in Machines \ up, NEW t \in BOOLEAN, Boot(m, t) PROVE LearnsOnly(s)
        BY <2>1, <2>2 DEF Boot, LearnsOnly
    <2>3. CASE \E h \in Hubs, t \in BOOLEAN : StartHub(h, t)
        BY <2>2, <2>3 DEF StartHub, Machines
    <2>4. CASE \E r \in Spokes, t \in BOOLEAN, p \in Pins : StartSpoke(r, t, p)
        <3>1. PICK r \in Spokes, t \in BOOLEAN, p \in Pins : StartSpoke(r, t, p)
            BY <2>4
        <3>2. r \in Machines \ up /\ (Boot(r, t) \/ UNCHANGED procVars)
            BY <3>1 DEF StartSpoke, Machines
        <3> QED BY <2>2, <3>2 DEF procVars, LearnsOnly
    <2>5. CASE \E m \in Machines : Stop(m)
        BY <2>1, <2>5 DEF Stop, Ends, LearnsOnly
    <2>6. CASE \/ \E r \in Spokes, p \in Pins : StartLosesConfig(r, p)
               \/ \E m \in Machines : StartLosesIdentity(m)
               \/ \E r \in Spokes : Dial(r)
               \/ \E h \in Hubs : Accept(h)
        <3>1. UNCHANGED procVars
            BY <2>6 DEF StartLosesConfig, StartLosesIdentity, Dial, Accept
        <3> QED BY <3>1 DEF procVars, LearnsOnly
    <2> QED BY <1>1, <2>3, <2>4, <2>5, <2>6, LearnsItsPin DEF Next, User, Faults
<1>2. ASSUME Inv, [Next]_vars
      PROVE  [\A s \in up \cap up' \cap Spokes :
                pin[s] # NoKey => known'[s] \ known[s] \subseteq {pin[s]}]_vars
    BY <1>1, <1>2 DEF LearnsOnly
<1> QED BY <1>2, InvAlways, PTL DEF Spec, PinnedLearnsItsPinOnly
===============================================================================
