------------------------------- MODULE Relay -------------------------------
(***************************************************************************)
(* The TCP relay (services/relay/src/main.rs): slots for connections,      *)
(* and, for each connection, the thread that sends a client's frames as    *)
(* UDP datagrams and the thread that returns the answers.                  *)
(*                                                                         *)
(* A connection's two threads share a map from contacted destinations to   *)
(* the bytes they may still answer with, all connections share the count   *)
(* of slots, the count per address and the global rate window.             *)
(***************************************************************************)
EXTENDS Integers, FiniteSets

CONSTANTS
    Acceptors,       \* threads that reserve slots (main has one)
    Conns,           \* client threads
    Ips,             \* addresses of clients
    Dests,           \* UDP peers
    Sizes,           \* lengths of payloads
    MaxConnections, MaxPerIp, MaxDestinations,
    PacketLimit, ByteLimit,               \* per connection, direction and second
    GlobalPacketLimit, GlobalByteLimit,   \* per second
    Factor, MinCredit, MaxCredit,         \* 4, 512 and 16384 in the code
    None,            \* no client, no packet
    MaxFrames,       \* bound: frames of clients
    MaxReplies       \* bound: datagrams of peers

ASSUME RelayAssumption ==
    /\ MaxConnections \in Nat \ {0} /\ MaxPerIp \in Nat \ {0} /\ MaxDestinations \in Nat \ {0}
    /\ PacketLimit \in Nat /\ ByteLimit \in Nat
    /\ GlobalPacketLimit \in Nat /\ GlobalByteLimit \in Nat
    /\ Factor \in Nat /\ MinCredit \in Nat /\ MaxCredit \in Nat
    /\ Sizes \subseteq Nat \ {0}
    /\ None \notin Ips /\ None \notin [peer : Dests, len : Sizes]
    /\ Acceptors \cap Conns = {}
    /\ MaxFrames \in Nat /\ MaxReplies \in Nat

VARIABLES
    active,      \* metrics.active
    perIp,       \* perIp[i]: State.per_ip
    apc,         \* apc[a]: "accept", "count" or "spawn": where the acceptor is
    ip,          \* ip[x]: peer address of an acceptor's or a thread's socket
    gwin,        \* State.global_rate
    req,         \* req[c]: where the client thread is
    rsp,         \* rsp[c]: where its response thread is
    running,     \* running[c]: "yes" or "no"
    known,       \* known[c]: keys of destinations
    credit,      \* credit[c][d]: bytes d may still answer
    locked,      \* connections whose client thread holds the lock of destinations
    job,         \* job[c]: [peer, len], the frame the client thread handles
    got,         \* got[c]: [peer, len], the datagram the response thread handles
    rwin,        \* rwin[c]: local_rate of the client thread
    swin,        \* swin[c]: response_rate of the response thread
    sent,        \* history: sent[c]: destinations of the connection's datagrams
    granted,     \* history: granted[c][d]: credit ever given
    returned,    \* history: returned[c][d]: bytes returned to the client
    frames,      \* counter of the bound MaxFrames
    replies      \* counter of the bound MaxReplies

slotVars == <<active, perIp, apc>>
flowVars == <<running, known, credit, locked, job, got, rwin, swin>>
historyVars == <<sent, granted, returned>>
boundVars == <<frames, replies>>
vars == <<slotVars, ip, gwin, req, rsp, flowVars, historyVars, boundVars>>

Threads == Acceptors \cup Conns
NewWindow == [packets |-> 0, bytes |-> 0]

\* RateWindow.allow: the window it looks at is w, or a new one when w is a second
\* old; what it allows it counts.
Current(w) == {w, NewWindow}
Allows(w, n, packetLimit, byteLimit) == w.packets + 1 <= packetLimit /\ w.bytes + n <= byteLimit
Counted(w, n) == [packets |-> w.packets + 1, bytes |-> w.bytes + n]

Least(a, b) == IF a < b THEN a ELSE b
Greatest(a, b) == IF a > b THEN a ELSE b

\* The credit a payload of n bytes earns its destination.
Additional(n) == Greatest(Factor * n, MinCredit)

Init ==
    /\ active = 0
    /\ perIp = [i \in Ips |-> 0]
    /\ apc = [a \in Acceptors |-> "accept"]
    /\ ip = [x \in Threads |-> None]
    /\ gwin = NewWindow
    /\ req = [c \in Conns |-> "none"]
    /\ rsp = [c \in Conns |-> "none"]
    /\ running = [c \in Conns |-> "no"]
    /\ known = [c \in Conns |-> {}]
    /\ credit = [c \in Conns |-> [d \in Dests |-> 0]]
    /\ locked = {}
    /\ job = [c \in Conns |-> None]
    /\ got = [c \in Conns |-> None]
    /\ rwin = [c \in Conns |-> NewWindow]
    /\ swin = [c \in Conns |-> NewWindow]
    /\ sent = [c \in Conns |-> {}]
    /\ granted = [c \in Conns |-> [d \in Dests |-> 0]]
    /\ returned = [c \in Conns |-> [d \in Dests |-> 0]]
    /\ frames = 0
    /\ replies = 0

At(x, place) == req' = [req EXCEPT ![x] = place]
RspAt(x, place) == rsp' = [rsp EXCEPT ![x] = place]

-----------------------------------------------------------------------------
(* Slots.                                                                  *)

\* Mutant: the ceiling is compared before the new slot is counted, off by one.
ReserveOneMore(a, i) ==
    /\ apc[a] = "accept"
    /\ active <= MaxConnections
    /\ active' = active + 1
    /\ apc' = [apc EXCEPT ![a] = "count"]
    /\ ip' = [ip EXCEPT ![a] = i]
    /\ UNCHANGED <<perIp, gwin, req, rsp, flowVars, historyVars, boundVars>>

\* A connection is accepted and the compare-and-exchange of reserve succeeds.
\* A refused one, over the ceiling or from a source that is not allowed,
\* changes nothing.
Reserve(a, i) ==
    /\ apc[a] = "accept"
    /\ active < MaxConnections
    /\ active' = active + 1
    /\ apc' = [apc EXCEPT ![a] = "count"]
    /\ ip' = [ip EXCEPT ![a] = i]
    /\ UNCHANGED <<perIp, gwin, req, rsp, flowVars, historyVars, boundVars>>

\* release holds the lock of per_ip until it has given the slot back.
PerIpUnlocked == \A c \in Conns : req[c] # "free"

\* Mutant: the slot is not given back when the address has too many.
CountIpKeepsSlot(a) ==
    /\ apc[a] = "count"
    /\ PerIpUnlocked
    /\ IF perIp[ip[a]] >= MaxPerIp
       THEN /\ apc' = [apc EXCEPT ![a] = "accept"]
            /\ ip' = [ip EXCEPT ![a] = None]
            /\ UNCHANGED <<active, perIp>>
       ELSE /\ perIp' = [perIp EXCEPT ![ip[a]] = @ + 1]
            /\ apc' = [apc EXCEPT ![a] = "spawn"]
            /\ UNCHANGED <<active, ip>>
    /\ UNCHANGED <<gwin, req, rsp, flowVars, historyVars, boundVars>>

\* The rest of reserve, under the lock of per_ip.
CountIp(a) ==
    /\ apc[a] = "count"
    /\ PerIpUnlocked
    /\ IF perIp[ip[a]] >= MaxPerIp
       THEN /\ active' = active - 1
            /\ apc' = [apc EXCEPT ![a] = "accept"]
            /\ ip' = [ip EXCEPT ![a] = None]
            /\ UNCHANGED perIp
       ELSE /\ perIp' = [perIp EXCEPT ![ip[a]] = @ + 1]
            /\ apc' = [apc EXCEPT ![a] = "spawn"]
            /\ UNCHANGED <<active, ip>>
    /\ UNCHANGED <<gwin, req, rsp, flowVars, historyVars, boundVars>>

\* The client thread starts.
Spawn(a, c) ==
    /\ apc[a] = "spawn"
    /\ req[c] = "none"
    /\ apc' = [apc EXCEPT ![a] = "accept"]
    /\ ip' = [ip EXCEPT ![a] = None, ![c] = ip[a]]
    /\ At(c, "greeting")
    /\ UNCHANGED <<active, perIp, gwin, rsp, flowVars, historyVars, boundVars>>

\* release: first the address, then the slot.
ReleaseIp(c) ==
    /\ req[c] = "release"
    /\ PerIpUnlocked
    /\ perIp' = [perIp EXCEPT ![ip[c]] = IF @ > 0 THEN @ - 1 ELSE 0]
    /\ At(c, "free")
    /\ UNCHANGED <<active, apc, ip, gwin, rsp, flowVars, historyVars, boundVars>>

\* The thread ends.
ReleaseSlot(c) ==
    /\ req[c] = "free"
    /\ active' = active - 1
    /\ ip' = [ip EXCEPT ![c] = None]
    /\ At(c, "none")
    /\ UNCHANGED <<perIp, apc, gwin, rsp, flowVars, historyVars, boundVars>>

-----------------------------------------------------------------------------
(* The client thread.                                                      *)

\* The greeting is wrong or late, or a socket call fails: handle_client returns
\* before there is a response thread.
GreetingFails(c) ==
    /\ req[c] = "greeting"
    /\ At(c, "release")
    /\ UNCHANGED <<slotVars, ip, gwin, rsp, flowVars, historyVars, boundVars>>

\* thread::spawn panics when no thread can be created: the client thread is
\* gone and release is never called.
SpawnPanics(c) ==
    /\ req[c] = "greeting"
    /\ At(c, "leaked")
    /\ UNCHANGED <<slotVars, ip, gwin, rsp, flowVars, historyVars, boundVars>>

GreetingArrives(c) ==
    /\ req[c] = "greeting"
    /\ At(c, "read")
    /\ RspAt(c, "recv")
    /\ running' = [running EXCEPT ![c] = "yes"]
    /\ UNCHANGED <<slotVars, ip, gwin, known, credit, locked, job, got, rwin, swin,
                   historyVars, boundVars>>

\* The while loops look at the flag before they block again.
NextRead(c) == IF running[c] = "yes" THEN "read" ELSE "join"
NextRecv(c) == IF running[c] = "yes" THEN "recv" ELSE "ended"

\* The frame and the datagram are dropped at the end of an iteration.
JobDone(c) == job' = [job EXCEPT ![c] = None]
GotDone(c) == got' = [got EXCEPT ![c] = None]

\* Mutant: the flag stays set.
RequestsEndQuietly(c) ==
    /\ req[c] = "read"
    /\ At(c, "join")
    /\ UNCHANGED <<slotVars, ip, gwin, rsp, flowVars, historyVars, boundVars>>

\* relay_requests returns: the flag was cleared, the client closed, timed out or
\* broke the protocol.
RequestsEnd(c) ==
    /\ req[c] = "read"
    /\ At(c, "join")
    /\ running' = [running EXCEPT ![c] = "no"]
    /\ UNCHANGED <<slotVars, ip, gwin, rsp, known, credit, locked, job, got, rwin, swin,
                   historyVars, boundVars>>

\* Mutant: the limit of destinations is not looked at.
FrameArrivesAnywhere(c, d, n) ==
    /\ req[c] = "read"
    /\ frames < MaxFrames
    /\ frames' = frames + 1
    /\ job' = [job EXCEPT ![c] = [peer |-> d, len |-> n]]
    /\ At(c, "rate")
    /\ UNCHANGED <<slotVars, ip, gwin, rsp, running, known, credit, locked, got, rwin, swin,
                   historyVars, replies>>

\* A frame for a destination that may be contacted; others are skipped.
FrameArrives(c, d, n) ==
    /\ req[c] = "read"
    /\ frames < MaxFrames
    /\ d \in known[c] \/ Cardinality(known[c]) < MaxDestinations
    /\ frames' = frames + 1
    /\ job' = [job EXCEPT ![c] = [peer |-> d, len |-> n]]
    /\ At(c, "rate")
    /\ UNCHANGED <<slotVars, ip, gwin, rsp, running, known, credit, locked, got, rwin, swin,
                   historyVars, replies>>

\* The connection's and the global window are both asked, and each counts what
\* it allows even if the other refuses.
AskWindows(local, global, n) ==
    LET lok == Allows(local, n, PacketLimit, ByteLimit)
        gok == Allows(global, n, GlobalPacketLimit, GlobalByteLimit)
    IN  [local |-> IF lok THEN Counted(local, n) ELSE local,
         global |-> IF gok THEN Counted(global, n) ELSE global,
         ok |-> lok /\ gok]

RateFrame(c) ==
    /\ req[c] = "rate"
    /\ \E l \in Current(rwin[c]), g \in Current(gwin) :
       LET w == AskWindows(l, g, job[c].len)
       IN  /\ rwin' = [rwin EXCEPT ![c] = w.local]
           /\ gwin' = w.global
           /\ IF w.ok THEN At(c, "lock") /\ UNCHANGED job ELSE At(c, NextRead(c)) /\ JobDone(c)
    /\ UNCHANGED <<slotVars, ip, rsp, running, known, credit, locked, got, swin,
                   historyVars, boundVars>>

\* Mutant: the datagram is sent before the lock is taken.
SendFrameUnlocked(c) ==
    /\ req[c] = "lock"
    /\ At(c, "credit")
    /\ sent' = [sent EXCEPT ![c] = @ \cup {job[c].peer}]
    /\ UNCHANGED <<slotVars, ip, gwin, rsp, flowVars, granted, returned, boundVars>>

\* With the lock of destinations held, the datagram leaves; its answer may
\* arrive from now on.
SendFrame(c) ==
    /\ req[c] = "lock"
    /\ c \notin locked
    /\ locked' = locked \cup {c}
    /\ At(c, "credit")
    /\ sent' = [sent EXCEPT ![c] = @ \cup {job[c].peer}]
    /\ UNCHANGED <<slotVars, ip, gwin, rsp, running, known, credit, job, got, rwin, swin,
                   granted, returned, boundVars>>

\* send_to fails: relay_requests returns and the lock is dropped.
SendFails(c) ==
    /\ req[c] = "lock"
    /\ c \notin locked
    /\ At(c, "join")
    /\ JobDone(c)
    /\ running' = [running EXCEPT ![c] = "no"]
    /\ UNCHANGED <<slotVars, ip, gwin, rsp, known, credit, locked, got, rwin, swin,
                   historyVars, boundVars>>

\* The destination's credit, capped, and the lock is released.
GrantCredit(c) ==
    /\ req[c] = "credit"
    /\ LET d == job[c].peer
           more == Additional(job[c].len)
       IN  /\ known' = [known EXCEPT ![c] = @ \cup {d}]
           /\ credit' = [credit EXCEPT ![c][d] = Least(@ + more, MaxCredit)]
           /\ granted' = [granted EXCEPT ![c][d] = @ + more]
    /\ locked' = locked \ {c}
    /\ At(c, NextRead(c))
    /\ JobDone(c)
    /\ UNCHANGED <<slotVars, ip, gwin, rsp, running, got, rwin, swin, sent, returned, boundVars>>

\* The client thread waits for the response thread; handle_client returns and
\* what it owned is gone.
Join(c) ==
    /\ req[c] = "join"
    /\ rsp[c] = "ended"
    /\ At(c, "release")
    /\ RspAt(c, "none")
    /\ known' = [known EXCEPT ![c] = {}]
    /\ credit' = [credit EXCEPT ![c] = [d \in Dests |-> 0]]
    /\ rwin' = [rwin EXCEPT ![c] = NewWindow]
    /\ swin' = [swin EXCEPT ![c] = NewWindow]
    /\ sent' = [sent EXCEPT ![c] = {}]
    /\ granted' = [granted EXCEPT ![c] = [d \in Dests |-> 0]]
    /\ returned' = [returned EXCEPT ![c] = [d \in Dests |-> 0]]
    /\ UNCHANGED <<slotVars, ip, gwin, running, locked, job, got, boundVars>>

-----------------------------------------------------------------------------
(* The response thread.                                                    *)

\* A datagram arrives; nobody vouches for where it comes from.
Receive(c, d, n) ==
    /\ rsp[c] = "recv"
    /\ replies < MaxReplies
    /\ replies' = replies + 1
    /\ got' = [got EXCEPT ![c] = [peer |-> d, len |-> n]]
    /\ RspAt(c, "check")
    /\ UNCHANGED <<slotVars, ip, gwin, req, running, known, credit, locked, job, rwin, swin,
                   historyVars, frames>>

\* Mutant: the credit is looked at but not used up.
CheckCreditKeeps(c) ==
    /\ rsp[c] = "check"
    /\ c \notin locked
    /\ IF got[c].peer \in known[c] /\ got[c].len <= credit[c][got[c].peer]
       THEN RspAt(c, "rate") /\ UNCHANGED got
       ELSE RspAt(c, NextRecv(c)) /\ GotDone(c)
    /\ UNCHANGED <<slotVars, ip, gwin, req, running, known, credit, locked, job, rwin, swin,
                   historyVars, boundVars>>

\* Under the lock: a source that was not contacted or has used up its credit is
\* dropped, else the credit is taken before the rates are asked.
CheckCredit(c) ==
    /\ rsp[c] = "check"
    /\ c \notin locked
    /\ IF got[c].peer \in known[c] /\ got[c].len <= credit[c][got[c].peer]
       THEN /\ credit' = [credit EXCEPT ![c][got[c].peer] = @ - got[c].len]
            /\ RspAt(c, "rate")
            /\ UNCHANGED got
       ELSE /\ RspAt(c, NextRecv(c))
            /\ GotDone(c)
            /\ UNCHANGED credit
    /\ UNCHANGED <<slotVars, ip, gwin, req, running, known, locked, job, rwin, swin,
                   historyVars, boundVars>>

RateReply(c) ==
    /\ rsp[c] = "rate"
    /\ \E l \in Current(swin[c]), g \in Current(gwin) :
       LET w == AskWindows(l, g, got[c].len)
       IN  /\ swin' = [swin EXCEPT ![c] = w.local]
           /\ gwin' = w.global
           /\ IF w.ok THEN RspAt(c, "write") /\ UNCHANGED got ELSE RspAt(c, NextRecv(c)) /\ GotDone(c)
    /\ UNCHANGED <<slotVars, ip, req, running, known, credit, locked, job, rwin,
                   historyVars, boundVars>>

WriteReply(c) ==
    /\ rsp[c] = "write"
    /\ returned' = [returned EXCEPT ![c][got[c].peer] = @ + got[c].len]
    /\ RspAt(c, NextRecv(c))
    /\ GotDone(c)
    /\ UNCHANGED <<slotVars, ip, gwin, req, running, known, credit, locked, job, rwin, swin,
                   sent, granted, boundVars>>

\* The client does not take the answer, or the socket fails: the loop is left
\* and the flag cleared.
ReplyFails(c) ==
    /\ rsp[c] \in {"recv", "write"}
    /\ RspAt(c, "ended")
    /\ GotDone(c)
    /\ running' = [running EXCEPT ![c] = "no"]
    /\ UNCHANGED <<slotVars, ip, gwin, req, known, credit, locked, job, rwin, swin,
                   historyVars, boundVars>>

\* The receive times out after a second and the flag has been cleared.
RepliesEnd(c) ==
    /\ rsp[c] = "recv"
    /\ running[c] = "no"
    /\ RspAt(c, "ended")
    /\ UNCHANGED <<slotVars, ip, gwin, req, flowVars, historyVars, boundVars>>

-----------------------------------------------------------------------------
RequestStep(c) ==
    \/ GreetingFails(c) \/ GreetingArrives(c) \/ RequestsEnd(c)
    \/ RateFrame(c) \/ SendFrame(c) \/ SendFails(c) \/ GrantCredit(c)
    \/ Join(c) \/ ReleaseIp(c) \/ ReleaseSlot(c)

ReplyStep(c) ==
    CheckCredit(c) \/ RateReply(c) \/ WriteReply(c) \/ ReplyFails(c) \/ RepliesEnd(c)

Next ==
    \/ \E a \in Acceptors : \/ \E i \in Ips : Reserve(a, i)
                            \/ CountIp(a)
                            \/ \E c \in Conns : Spawn(a, c)
    \/ \E c \in Conns : \/ RequestStep(c) \/ ReplyStep(c) \/ SpawnPanics(c)
                        \/ \E d \in Dests, n \in Sizes : FrameArrives(c, d, n) \/ Receive(c, d, n)

Spec == Init /\ [][Next]_vars

(***************************************************************************)
(* Every read and write of a socket has a timeout, so each thread takes    *)
(* its next step.  A thread that waits for the lock of per_ip gets it      *)
(* although others take it in between.  Clients and peers send what and    *)
(* when they like.                                                         *)
(***************************************************************************)
ReplyWork(c) == CheckCredit(c) \/ RateReply(c) \/ WriteReply(c) \/ RepliesEnd(c)

Fairness == \A c \in Conns : WF_vars(RequestStep(c)) /\ SF_vars(ReleaseIp(c)) /\ WF_vars(ReplyWork(c))

FairSpec == Spec /\ Fairness

-----------------------------------------------------------------------------
(* Properties.                                                             *)

Windows(packetLimit, byteLimit) == [packets : 0..packetLimit, bytes : 0..byteLimit]
Packets == [peer : Dests, len : Sizes]

\* Type correctness; the windows never count more than their limits.
TypeOK ==
    /\ active \in Nat
    /\ perIp \in [Ips -> Nat]
    /\ apc \in [Acceptors -> {"accept", "count", "spawn"}]
    /\ ip \in [Threads -> Ips \cup {None}]
    /\ gwin \in Windows(GlobalPacketLimit, GlobalByteLimit)
    /\ req \in [Conns -> {"none", "greeting", "read", "rate", "lock", "credit", "join",
                          "release", "free", "leaked"}]
    /\ rsp \in [Conns -> {"none", "recv", "check", "rate", "write", "ended"}]
    /\ running \in [Conns -> {"yes", "no"}]
    /\ known \in [Conns -> SUBSET Dests]
    /\ credit \in [Conns -> [Dests -> 0..MaxCredit]]
    /\ locked \in SUBSET Conns
    /\ job \in [Conns -> Packets \cup {None}]
    /\ got \in [Conns -> Packets \cup {None}]
    /\ rwin \in [Conns -> Windows(PacketLimit, ByteLimit)]
    /\ swin \in [Conns -> Windows(PacketLimit, ByteLimit)]
    /\ sent \in [Conns -> SUBSET Dests]
    /\ granted \in [Conns -> [Dests -> Nat]]
    /\ returned \in [Conns -> [Dests -> Nat]]
    /\ frames \in 0..MaxFrames
    /\ replies \in 0..MaxReplies

\* Sockets that have passed reserve and whose release has not begun.
Admitted(i) == {x \in Threads : ip[x] = i /\ IF x \in Acceptors THEN apc[x] = "spawn" ELSE req[x] # "free"}

\* Slots taken: those of admitted sockets, of a reservation under way and of a
\* release under way.
Taken == {x \in Threads : ip[x] # None}

\* The limits hold: never more connections than slots, in total or per address.
CapacityHeld ==
    /\ Cardinality(UNION {Admitted(i) : i \in Ips}) <= MaxConnections
    /\ \A i \in Ips : Cardinality(Admitted(i)) <= MaxPerIp

\* The counters never drift from the connections they count: no slot is given
\* back twice and, but for the threads that panicked, none is lost.
CountersExact ==
    /\ active = Cardinality(Taken)
    /\ \A i \in Ips : perIp[i] = Cardinality(Admitted(i))

\* A client gets bytes only from peers it has sent to, and never more than the
\* credit its datagrams earned, with both threads at the same map.
RepliesEarned ==
    \A c \in Conns : \A d \in Dests :
        /\ returned[c][d] + credit[c][d] <= granted[c][d]
        /\ returned[c][d] > 0 => d \in sent[c]

\* A fast answer does not race the entry of its destination: when the response
\* thread looks a source up, every contacted peer is in the map.
AnswersNotRaced ==
    \A c \in Conns : rsp[c] = "check" /\ c \notin locked => sent[c] \subseteq known[c]

\* The check for the limit of destinations and the insertion are under
\* different locks of the map; the limit holds nevertheless.
DestinationsBounded == \A c \in Conns : Cardinality(known[c]) <= MaxDestinations

\* A connection whose client falls silent, or whose response thread has ended,
\* gives its slot back, unless its thread panicked.
SlotReturned == \A c \in Conns : req[c] # "none" ~> req[c] \in {"none", "leaked"}

\* No limit is passed and no slot lost, whichever thread gives its slot back
\* while another one asks for it.
LimitsHeld == CapacityHeld /\ CountersExact /\ DestinationsBounded

\* What the two threads of a connection do to its map of peers at the same time
\* neither loses an earned reply nor lets an unearned one through.
RepliesHold == RepliesEarned /\ AnswersNotRaced
=============================================================================
