---------------------------- MODULE RelayProofs ----------------------------
(***************************************************************************)
(* Proofs about Relay, for any number of acceptors and connections, any    *)
(* limits and any peers: the limits, the counters and the credit of the    *)
(* relay are exact at every step of every thread (services/relay).         *)
(***************************************************************************)
EXTENDS Relay, FiniteSetTheorems, TLAPS

(* A thread that handles a frame or a datagram has one.                     *)
Handling == \A c \in Conns :
    /\ req[c] \in {"rate", "lock", "credit"} => job[c] \in Packets
    /\ rsp[c] \in {"check", "rate", "write"} => got[c] \in Packets

(* A socket has an address from its reservation to the return of its slot,  *)
(* and both counters count such sockets.                                    *)
Sockets ==
    /\ \A a \in Acceptors : apc[a] = "accept" <=> ip[a] = None
    /\ \A c \in Conns : req[c] = "none" <=> ip[c] = None

Slots ==
    /\ IsFiniteSet(Taken) /\ active = Cardinality(Taken) /\ active <= MaxConnections
    /\ \A i \in Ips : perIp[i] = Cardinality(Admitted(i)) /\ perIp[i] <= MaxPerIp

(* The client thread holds the lock of its map from the datagram to the     *)
(* entry of its destination, and nobody else fills the place it has found.  *)
Peers == \A c \in Conns :
    /\ c \in locked <=> req[c] = "credit"
    /\ known[c] \subseteq sent[c]
    /\ \A d \in sent[c] : d \in known[c] \/ (req[c] = "credit" /\ d = job[c].peer)
    /\ req[c] = "credit" => job[c].peer \in sent[c]
    /\ IsFiniteSet(known[c]) /\ Cardinality(known[c]) <= MaxDestinations
    /\ req[c] \in {"rate", "lock", "credit"} => job[c].peer \in known[c] \/ Cardinality(known[c]) < MaxDestinations

(* The credit of a datagram is taken before it is written.                  *)
Pending(c, d) == IF rsp[c] \in {"rate", "write"} /\ got[c].peer = d THEN got[c].len ELSE 0

Credits == \A c \in Conns :
    /\ rsp[c] \in {"rate", "write"} => got[c].peer \in sent[c]
    /\ \A d \in Dests : /\ returned[c][d] + credit[c][d] + Pending(c, d) <= granted[c][d]
                        /\ returned[c][d] > 0 => d \in sent[c]

RelayInv == TypeOK /\ Handling /\ Sockets /\ Slots /\ Peers /\ Credits

-----------------------------------------------------------------------------
(* RateWindow.allow leaves both windows within their limits.                *)
LEMMA WindowsKept ==
    ASSUME NEW l \in Windows(PacketLimit, ByteLimit), NEW g \in Windows(GlobalPacketLimit, GlobalByteLimit),
           NEW l2 \in Current(l), NEW g2 \in Current(g), NEW n \in Nat
    PROVE  /\ AskWindows(l2, g2, n).local \in Windows(PacketLimit, ByteLimit)
           /\ AskWindows(l2, g2, n).global \in Windows(GlobalPacketLimit, GlobalByteLimit)
<1>1. NewWindow \in Windows(PacketLimit, ByteLimit) /\ NewWindow \in Windows(GlobalPacketLimit, GlobalByteLimit)
  BY RelayAssumption DEF NewWindow, Windows
<1>2. l2 \in Windows(PacketLimit, ByteLimit) /\ g2 \in Windows(GlobalPacketLimit, GlobalByteLimit)
  BY <1>1 DEF Current
<1>3. Allows(l2, n, PacketLimit, ByteLimit) => Counted(l2, n) \in Windows(PacketLimit, ByteLimit)
  BY <1>2, RelayAssumption DEF Allows, Counted, Windows
<1>4. Allows(g2, n, GlobalPacketLimit, GlobalByteLimit) => Counted(g2, n) \in Windows(GlobalPacketLimit, GlobalByteLimit)
  BY <1>2, RelayAssumption DEF Allows, Counted, Windows
<1> QED BY <1>2, <1>3, <1>4 DEF AskWindows

(* A socket with an address has a slot, so that the counter is not zero.    *)
LEMMA SlotTaken ==
    ASSUME Slots, NEW x \in Threads, ip[x] # None
    PROVE  active \in Nat \ {0}
BY FS_CardinalityType, FS_EmptySet DEF Slots, Taken

(* Every step of every thread keeps the types, and a thread that handles a  *)
(* frame or a datagram has one.                                             *)
LEMMA TypeStep == ASSUME TypeOK, Handling, Sockets, Slots, [Next]_vars PROVE TypeOK' /\ Handling'
<1> USE RelayAssumption DEF TypeOK, Handling, At, RspAt, Threads
<1>0. \A c \in Conns : NextRead(c) \in {"read", "join"} /\ NextRecv(c) \in {"recv", "ended"}
  BY DEF NextRead, NextRecv
<1>1. ASSUME NEW a \in Acceptors, NEW i \in Ips, Reserve(a, i) PROVE TypeOK' /\ Handling'
  BY <1>1 DEF Reserve, flowVars, historyVars, boundVars
<1>2. ASSUME NEW a \in Acceptors, CountIp(a) PROVE TypeOK' /\ Handling'
  <2>1. ip[a] \in Ips /\ active \in Nat \ {0}
    BY <1>2, SlotTaken DEF CountIp, Sockets
  <2>2. active' \in Nat /\ perIp' \in [Ips -> Nat] /\ apc' \in [Acceptors -> {"accept", "count", "spawn"}] /\ ip' \in [Acceptors \cup Conns -> Ips \cup {None}]
    <3>1. CASE perIp[ip[a]] >= MaxPerIp
      BY <1>2, <2>1, <3>1 DEF CountIp
    <3>2. CASE ~(perIp[ip[a]] >= MaxPerIp)
      BY <1>2, <2>1, <3>2 DEF CountIp
    <3> QED BY <3>1, <3>2
  <2> QED BY <1>2, <2>2 DEF CountIp, flowVars, historyVars, boundVars
<1>3. ASSUME NEW a \in Acceptors, NEW c \in Conns, Spawn(a, c) PROVE TypeOK' /\ Handling'
  BY <1>3 DEF Spawn, flowVars, historyVars, boundVars
<1>4. ASSUME NEW c \in Conns, ReleaseIp(c) PROVE TypeOK' /\ Handling'
  <2>1. ip[c] \in Ips
    BY <1>4 DEF ReleaseIp, Sockets
  <2> QED BY <1>4, <2>1 DEF ReleaseIp, flowVars, historyVars, boundVars
<1>5. ASSUME NEW c \in Conns, ReleaseSlot(c) PROVE TypeOK' /\ Handling'
  <2>1. active \in Nat \ {0}
    BY <1>5, SlotTaken DEF ReleaseSlot, Sockets
  <2> QED BY <1>5, <2>1 DEF ReleaseSlot, flowVars, historyVars, boundVars
<1>6. ASSUME NEW c \in Conns, GreetingFails(c) PROVE TypeOK' /\ Handling'
  BY <1>6 DEF GreetingFails, slotVars, flowVars, historyVars, boundVars
<1>7. ASSUME NEW c \in Conns, SpawnPanics(c) PROVE TypeOK' /\ Handling'
  BY <1>7 DEF SpawnPanics, slotVars, flowVars, historyVars, boundVars
<1>8. ASSUME NEW c \in Conns, GreetingArrives(c) PROVE TypeOK' /\ Handling'
  BY <1>8 DEF GreetingArrives, slotVars, historyVars, boundVars
<1>9. ASSUME NEW c \in Conns, RequestsEnd(c) PROVE TypeOK' /\ Handling'
  BY <1>9 DEF RequestsEnd, slotVars, historyVars, boundVars
<1>10. ASSUME NEW c \in Conns, NEW d \in Dests, NEW n \in Sizes, FrameArrives(c, d, n) PROVE TypeOK' /\ Handling'
  <2>1. [peer |-> d, len |-> n] \in Packets /\ frames' \in 0..MaxFrames
    BY <1>10 DEF Packets, FrameArrives
  <2> QED BY <1>10, <2>1 DEF FrameArrives, slotVars, historyVars
<1>11. ASSUME NEW c \in Conns, NEW d \in Dests, NEW n \in Sizes, Receive(c, d, n) PROVE TypeOK' /\ Handling'
  <2>1. [peer |-> d, len |-> n] \in Packets /\ replies' \in 0..MaxReplies
    BY <1>11 DEF Packets, Receive
  <2> QED BY <1>11, <2>1 DEF Receive, slotVars, historyVars
<1>12. ASSUME NEW c \in Conns, RateFrame(c) PROVE TypeOK' /\ Handling'
  <2>1. job[c] \in Packets /\ job[c].len \in Nat
    BY <1>12 DEF RateFrame, Packets
  <2>2. PICK l \in Current(rwin[c]), g \in Current(gwin) :
             LET w == AskWindows(l, g, job[c].len) IN
             /\ rwin' = [rwin EXCEPT ![c] = w.local] /\ gwin' = w.global
             /\ IF w.ok THEN At(c, "lock") /\ UNCHANGED job ELSE At(c, NextRead(c)) /\ JobDone(c)
    BY <1>12 DEF RateFrame
  <2>3. rwin' \in [Conns -> Windows(PacketLimit, ByteLimit)] /\ gwin' \in Windows(GlobalPacketLimit, GlobalByteLimit)
    BY <2>1, <2>2, WindowsKept
  <2>4. \/ req' = [req EXCEPT ![c] = "lock"] /\ job' = job
        \/ req' = [req EXCEPT ![c] = NextRead(c)] /\ job' = [job EXCEPT ![c] = None]
    BY <2>2 DEF JobDone
  <2>5. req[c] = "rate" /\ UNCHANGED <<slotVars, ip, rsp, running, known, credit, locked, got, swin, historyVars, boundVars>>
    BY <1>12 DEF RateFrame
  <2>6. CASE req' = [req EXCEPT ![c] = "lock"] /\ job' = job
    BY <2>1, <2>3, <2>5, <2>6 DEF slotVars, historyVars, boundVars
  <2>7. CASE req' = [req EXCEPT ![c] = NextRead(c)] /\ job' = [job EXCEPT ![c] = None]
    BY <1>0, <2>1, <2>3, <2>5, <2>7 DEF slotVars, historyVars, boundVars
  <2> QED BY <2>4, <2>6, <2>7
<1>13. ASSUME NEW c \in Conns, SendFrame(c) PROVE TypeOK' /\ Handling'
  <2>1. job[c].peer \in Dests
    BY <1>13 DEF SendFrame, Packets
  <2> QED BY <1>13, <2>1 DEF SendFrame, slotVars, historyVars, boundVars
<1>14. ASSUME NEW c \in Conns, SendFails(c) PROVE TypeOK' /\ Handling'
  BY <1>14 DEF SendFails, JobDone, slotVars, historyVars, boundVars
<1>15. ASSUME NEW c \in Conns, GrantCredit(c) PROVE TypeOK' /\ Handling'
  <2>1. job[c].peer \in Dests /\ job[c].len \in Nat
    BY <1>15 DEF GrantCredit, Packets
  <2>2. Additional(job[c].len) \in Nat
    BY <2>1 DEF Additional, Greatest
  <2>3. credit' \in [Conns -> [Dests -> 0..MaxCredit]] /\ granted' \in [Conns -> [Dests -> Nat]]
    BY <1>15, <2>1, <2>2 DEF GrantCredit, Least
  <2> QED BY <1>15, <1>0, <2>1, <2>3 DEF GrantCredit, JobDone, slotVars, boundVars
<1>16. ASSUME NEW c \in Conns, Join(c) PROVE TypeOK' /\ Handling'
  <2>1. NewWindow \in Windows(PacketLimit, ByteLimit)
    BY DEF NewWindow, Windows
  <2> QED BY <1>16, <2>1 DEF Join, slotVars, boundVars
<1>17. ASSUME NEW c \in Conns, CheckCredit(c) PROVE TypeOK' /\ Handling'
  <2>1. got[c] \in Packets /\ got[c].peer \in Dests /\ got[c].len \in Nat
    BY <1>17 DEF CheckCredit, Packets
  <2>2. rsp[c] = "check" /\ UNCHANGED <<slotVars, ip, gwin, req, running, known, locked, job, rwin, swin, historyVars, boundVars>>
    BY <1>17 DEF CheckCredit
  <2>3. CASE got[c].peer \in known[c] /\ got[c].len <= credit[c][got[c].peer]
    <3>1. credit' = [credit EXCEPT ![c][got[c].peer] = @ - got[c].len] /\ rsp' = [rsp EXCEPT ![c] = "rate"] /\ got' = got
      BY <1>17, <2>3 DEF CheckCredit
    <3>2. credit' \in [Conns -> [Dests -> 0..MaxCredit]]
      BY <2>1, <2>3, <3>1
    <3> QED BY <2>1, <2>2, <3>1, <3>2 DEF slotVars, historyVars, boundVars
  <2>4. CASE ~(got[c].peer \in known[c] /\ got[c].len <= credit[c][got[c].peer])
    <3>1. credit' = credit /\ rsp' = [rsp EXCEPT ![c] = NextRecv(c)] /\ got' = [got EXCEPT ![c] = None]
      BY <1>17, <2>4 DEF CheckCredit, GotDone
    <3> QED BY <1>0, <2>1, <2>2, <3>1 DEF slotVars, historyVars, boundVars
  <2> QED BY <2>3, <2>4
<1>18. ASSUME NEW c \in Conns, RateReply(c) PROVE TypeOK' /\ Handling'
  <2>1. got[c] \in Packets /\ got[c].len \in Nat
    BY <1>18 DEF RateReply, Packets
  <2>2. PICK l \in Current(swin[c]), g \in Current(gwin) :
             LET w == AskWindows(l, g, got[c].len) IN
             /\ swin' = [swin EXCEPT ![c] = w.local] /\ gwin' = w.global
             /\ IF w.ok THEN RspAt(c, "write") /\ UNCHANGED got ELSE RspAt(c, NextRecv(c)) /\ GotDone(c)
    BY <1>18 DEF RateReply
  <2>3. swin' \in [Conns -> Windows(PacketLimit, ByteLimit)] /\ gwin' \in Windows(GlobalPacketLimit, GlobalByteLimit)
    BY <2>1, <2>2, WindowsKept
  <2>4. \/ rsp' = [rsp EXCEPT ![c] = "write"] /\ got' = got
        \/ rsp' = [rsp EXCEPT ![c] = NextRecv(c)] /\ got' = [got EXCEPT ![c] = None]
    BY <2>2 DEF GotDone
  <2>5. rsp[c] = "rate" /\ UNCHANGED <<slotVars, ip, req, running, known, credit, locked, job, rwin, historyVars, boundVars>>
    BY <1>18 DEF RateReply
  <2>6. CASE rsp' = [rsp EXCEPT ![c] = "write"] /\ got' = got
    BY <2>1, <2>3, <2>5, <2>6 DEF slotVars, historyVars, boundVars
  <2>7. CASE rsp' = [rsp EXCEPT ![c] = NextRecv(c)] /\ got' = [got EXCEPT ![c] = None]
    BY <1>0, <2>1, <2>3, <2>5, <2>7 DEF slotVars, historyVars, boundVars
  <2> QED BY <2>4, <2>6, <2>7
<1>19. ASSUME NEW c \in Conns, WriteReply(c) PROVE TypeOK' /\ Handling'
  <2>1. got[c] \in Packets /\ got[c].peer \in Dests /\ got[c].len \in Nat
    BY <1>19 DEF WriteReply, Packets
  <2> QED BY <1>19, <1>0, <2>1 DEF WriteReply, GotDone, slotVars, boundVars
<1>20. ASSUME NEW c \in Conns, ReplyFails(c) PROVE TypeOK' /\ Handling'
  BY <1>20 DEF ReplyFails, GotDone, slotVars, historyVars, boundVars
<1>21. ASSUME NEW c \in Conns, RepliesEnd(c) PROVE TypeOK' /\ Handling'
  BY <1>21 DEF RepliesEnd, slotVars, flowVars, historyVars, boundVars
<1>22. CASE UNCHANGED vars
  BY <1>22 DEF vars, slotVars, flowVars, historyVars, boundVars
<1> QED BY <1>1, <1>2, <1>3, <1>4, <1>5, <1>6, <1>7, <1>8, <1>9, <1>10, <1>11, <1>12, <1>13, <1>14, <1>15,
           <1>16, <1>17, <1>18, <1>19, <1>20, <1>21, <1>22
        DEF Next, RequestStep, ReplyStep

-----------------------------------------------------------------------------
(* A step that neither takes nor returns an address or a slot leaves the    *)
(* counted sockets alone.                                                   *)
LEMMA SlotsStill ==
    ASSUME Sockets, Slots, UNCHANGED <<active, perIp, apc, ip>>,
           \A c \in Conns : (req'[c] = "none" <=> req[c] = "none") /\ (req'[c] = "free" <=> req[c] = "free")
    PROVE  Sockets' /\ Slots'
<1>1. Taken' = Taken
  BY DEF Taken
<1>2. \A i \in Ips : Admitted(i)' = Admitted(i)
  BY RelayAssumption DEF Admitted, Threads
<1> QED BY <1>1, <1>2 DEF Sockets, Slots

(* A socket that joins or leaves a set of sockets changes its size by one.  *)
LEMMA OneMore == ASSUME NEW S, NEW T, NEW x, IsFiniteSet(S), x \notin S, T = S \cup {x}
                 PROVE  IsFiniteSet(T) /\ Cardinality(T) = Cardinality(S) + 1 /\ Cardinality(S) \in Nat
BY FS_AddElement, FS_CardinalityType

(* A value that is put into a set may be in it already (RateWindow).        *)
LEMMA OneOrNoneMore ==
    ASSUME NEW S, NEW T, NEW x, IsFiniteSet(S), T = S \cup {x}
    PROVE  IsFiniteSet(T) /\ Cardinality(T) = IF x \in S THEN Cardinality(S) ELSE Cardinality(S) + 1
BY FS_AddElement

(* A socket that leaves a set of sockets is one less of them (release).     *)
LEMMA OneLess == ASSUME NEW S, NEW T, NEW x, IsFiniteSet(S), x \in S, T = S \ {x}
                 PROVE  IsFiniteSet(T) /\ Cardinality(T) = Cardinality(S) - 1 /\ Cardinality(S) \in Nat
BY FS_RemoveElement, FS_CardinalityType

(* A socket that is admitted, and no other, is one more of its address.     *)
LEMMA AdmittedFinite == ASSUME Slots, NEW i \in Ips PROVE IsFiniteSet(Admitted(i))
<1>1. Admitted(i) \subseteq Taken
  BY RelayAssumption DEF Admitted, Taken
<1> QED BY <1>1, FS_Subset DEF Slots

(* reserve, release and the start of a client thread keep both counters     *)
(* exact and below their limits.                                            *)
LEMMA SlotStep == ASSUME TypeOK, Sockets, Slots, [Next]_vars PROVE Sockets' /\ Slots'
<1> USE RelayAssumption DEF TypeOK, At, RspAt
<1>0. \A c \in Conns : NextRead(c) \in {"read", "join"}
  BY DEF NextRead
<1>1. ASSUME NEW a \in Acceptors, NEW i \in Ips, Reserve(a, i) PROVE Sockets' /\ Slots'
  <2>1. a \notin Taken /\ Taken' = Taken \cup {a}
    BY <1>1 DEF Reserve, Taken, Threads, Sockets
  <2>2. \A j \in Ips : Admitted(j)' = Admitted(j)
    BY <1>1 DEF Reserve, Admitted, Threads, Sockets
  <2>3. active' = active + 1 /\ active < MaxConnections /\ perIp' = perIp
    BY <1>1 DEF Reserve
  <2>4. Sockets'
    BY <1>1 DEF Reserve, Sockets, Threads
  <2>5. IsFiniteSet(Taken') /\ Cardinality(Taken') = active + 1
    BY <2>1, OneMore DEF Slots
  <2> QED BY <2>2, <2>3, <2>4, <2>5 DEF Slots
<1>2. ASSUME NEW a \in Acceptors, CountIp(a) PROVE Sockets' /\ Slots'
  <2>1. ip[a] \in Ips /\ a \in Taken
    BY <1>2 DEF CountIp, Sockets, Taken, Threads
  <2>2. CASE perIp[ip[a]] >= MaxPerIp
    <3>1. /\ active' = active - 1 /\ apc' = [apc EXCEPT ![a] = "accept"] /\ ip' = [ip EXCEPT ![a] = None]
          /\ apc[a] = "count" /\ perIp' = perIp /\ req' = req
      BY <1>2, <2>2 DEF CountIp
    <3>2. Taken' = Taken \ {a}
      BY <3>1 DEF Taken, Threads
    <3>3. \A j \in Ips : Admitted(j)' = Admitted(j)
      BY <3>1 DEF Admitted, Threads
    <3>4. Sockets'
      BY <3>1 DEF Sockets, Threads
    <3> QED BY <2>1, <3>1, <3>2, <3>3, <3>4, OneLess DEF Slots
  <2>3. CASE ~(perIp[ip[a]] >= MaxPerIp)
    <3>1. /\ perIp' = [perIp EXCEPT ![ip[a]] = @ + 1] /\ apc' = [apc EXCEPT ![a] = "spawn"]
          /\ apc[a] = "count" /\ active' = active /\ ip' = ip /\ req' = req
      BY <1>2, <2>3 DEF CountIp
    <3>2. Taken' = Taken
      BY <3>1 DEF Taken, Threads
    <3>3. Admitted(ip[a])' = Admitted(ip[a]) \cup {a} /\ a \notin Admitted(ip[a])
      BY <3>1 DEF Admitted, Threads
    <3>4. \A j \in Ips \ {ip[a]} : Admitted(j)' = Admitted(j)
      BY <3>1 DEF Admitted, Threads
    <3>5. Cardinality(Admitted(ip[a])') = perIp[ip[a]] + 1
      <4>1. IsFiniteSet(Admitted(ip[a])) /\ Cardinality(Admitted(ip[a])) = perIp[ip[a]]
        BY <2>1, AdmittedFinite DEF Slots
      <4> QED BY <3>3, <4>1, OneMore
    <3>6. Sockets'
      BY <3>1 DEF Sockets, Threads
    <3>7. \A j \in Ips : perIp'[j] = Cardinality(Admitted(j)') /\ perIp'[j] <= MaxPerIp
      BY <2>1, <2>3, <3>1, <3>4, <3>5 DEF Slots
    <3> QED BY <3>1, <3>2, <3>6, <3>7 DEF Slots
  <2> QED BY <2>2, <2>3
<1>3. ASSUME NEW a \in Acceptors, NEW c \in Conns, Spawn(a, c) PROVE Sockets' /\ Slots'
  <2>1. /\ apc[a] = "spawn" /\ req[c] = "none" /\ apc' = [apc EXCEPT ![a] = "accept"]
        /\ ip' = [ip EXCEPT ![a] = None, ![c] = ip[a]] /\ req' = [req EXCEPT ![c] = "greeting"]
        /\ active' = active /\ perIp' = perIp /\ a # c /\ ip[c] = None /\ ip[a] \in Ips
    BY <1>3 DEF Spawn, Sockets, Threads
  <2>2. a \in Taken /\ c \notin Taken /\ Taken' = (Taken \ {a}) \cup {c}
    BY <2>1 DEF Taken, Threads
  <2>3. PICK i \in Ips : i = ip[a]
    BY <2>1
  <2>4. a \in Admitted(i) /\ c \notin Admitted(i) /\ Admitted(i)' = (Admitted(i) \ {a}) \cup {c}
    BY <2>1, <2>3 DEF Admitted, Threads
  <2>5. \A j \in Ips \ {i} : Admitted(j)' = Admitted(j)
    BY <2>1, <2>3 DEF Admitted, Threads
  <2>6. IsFiniteSet(Taken') /\ Cardinality(Taken') = Cardinality(Taken)
    <3> DEFINE less == Taken \ {a}
    <3>1. IsFiniteSet(less) /\ Cardinality(less) = Cardinality(Taken) - 1 /\ Cardinality(Taken) \in Nat
      BY <2>2, OneLess DEF Slots
    <3>2. c \notin less /\ Taken' = less \cup {c}
      BY <2>2
    <3> HIDE DEF less
    <3>3. IsFiniteSet(Taken') /\ Cardinality(Taken') = Cardinality(less) + 1
      BY <3>1, <3>2, OneMore
    <3> QED BY <3>1, <3>3
  <2>7. Cardinality(Admitted(i)') = Cardinality(Admitted(i))
    <3> DEFINE less == Admitted(i) \ {a}
    <3>1. IsFiniteSet(less) /\ Cardinality(less) = Cardinality(Admitted(i)) - 1 /\ Cardinality(Admitted(i)) \in Nat
      BY <2>4, OneLess, AdmittedFinite
    <3>2. c \notin less /\ Admitted(i)' = less \cup {c}
      BY <2>4
    <3> HIDE DEF less
    <3>3. Cardinality(Admitted(i)') = Cardinality(less) + 1
      BY <3>1, <3>2, OneMore
    <3> QED BY <3>1, <3>3
  <2>8. Sockets'
    BY <2>1 DEF Sockets, Threads
  <2>9. \A j \in Ips : perIp'[j] = Cardinality(Admitted(j)') /\ perIp'[j] <= MaxPerIp
    <3> TAKE j \in Ips
    <3>1. Cardinality(Admitted(j)') = Cardinality(Admitted(j))
      BY <2>5, <2>7
    <3> QED BY <2>1, <3>1 DEF Slots
  <2> QED BY <2>1, <2>6, <2>8, <2>9 DEF Slots
<1>4. ASSUME NEW c \in Conns, ReleaseIp(c) PROVE Sockets' /\ Slots'
  <2>1. /\ req[c] = "release" /\ req' = [req EXCEPT ![c] = "free"] /\ ip[c] \in Ips
        /\ perIp' = [perIp EXCEPT ![ip[c]] = IF @ > 0 THEN @ - 1 ELSE 0] /\ active' = active /\ apc' = apc /\ ip' = ip
    BY <1>4 DEF ReleaseIp, Sockets, Threads
  <2>2. Taken' = Taken
    BY <2>1 DEF Taken, Threads
  <2>3. c \in Admitted(ip[c]) /\ Admitted(ip[c])' = Admitted(ip[c]) \ {c}
    BY <2>1 DEF Admitted, Threads
  <2>4. \A j \in Ips \ {ip[c]} : Admitted(j)' = Admitted(j)
    BY <2>1 DEF Admitted, Threads
  <2>5. Cardinality(Admitted(ip[c])') = Cardinality(Admitted(ip[c])) - 1 /\ IsFiniteSet(Admitted(ip[c]))
        /\ Cardinality(Admitted(ip[c])) \in Nat /\ Cardinality(Admitted(ip[c])) # 0
    BY <2>1, <2>3, OneLess, AdmittedFinite, FS_EmptySet
  <2>6. Sockets'
    BY <2>1 DEF Sockets, Threads
  <2>7. \A j \in Ips : perIp'[j] = Cardinality(Admitted(j)') /\ perIp'[j] <= MaxPerIp
    BY <2>1, <2>4, <2>5 DEF Slots
  <2> QED BY <2>1, <2>2, <2>6, <2>7 DEF Slots
<1>5. ASSUME NEW c \in Conns, ReleaseSlot(c) PROVE Sockets' /\ Slots'
  <2>1. /\ req[c] = "free" /\ req' = [req EXCEPT ![c] = "none"] /\ ip[c] \in Ips
        /\ active' = active - 1 /\ ip' = [ip EXCEPT ![c] = None] /\ perIp' = perIp /\ apc' = apc
    BY <1>5 DEF ReleaseSlot, Sockets, Threads
  <2>2. c \in Taken /\ Taken' = Taken \ {c}
    BY <2>1 DEF Taken, Threads
  <2>3. \A j \in Ips : Admitted(j)' = Admitted(j)
    BY <2>1 DEF Admitted, Threads
  <2>4. Sockets'
    BY <2>1 DEF Sockets, Threads
  <2> QED BY <2>1, <2>2, <2>3, <2>4, OneLess DEF Slots
<1>6. ASSUME NEW c \in Conns, GreetingFails(c) PROVE Sockets' /\ Slots'
  BY <1>6, <1>0, SlotsStill DEF GreetingFails, slotVars
<1>7. ASSUME NEW c \in Conns, SpawnPanics(c) PROVE Sockets' /\ Slots'
  BY <1>7, <1>0, SlotsStill DEF SpawnPanics, slotVars
<1>8. ASSUME NEW c \in Conns, GreetingArrives(c) PROVE Sockets' /\ Slots'
  BY <1>8, <1>0, SlotsStill DEF GreetingArrives, slotVars
<1>9. ASSUME NEW c \in Conns, RequestsEnd(c) PROVE Sockets' /\ Slots'
  BY <1>9, <1>0, SlotsStill DEF RequestsEnd, slotVars
<1>10. ASSUME NEW c \in Conns, RateFrame(c) PROVE Sockets' /\ Slots'
  <2>1. req[c] = "rate" /\ UNCHANGED <<active, perIp, apc, ip>>
    BY <1>10 DEF RateFrame, slotVars
  <2>2. req' = [req EXCEPT ![c] = "lock"] \/ req' = [req EXCEPT ![c] = NextRead(c)]
    BY <1>10 DEF RateFrame
  <2> QED BY <1>0, <2>1, <2>2, SlotsStill
<1>11. ASSUME NEW c \in Conns, SendFrame(c) PROVE Sockets' /\ Slots'
  BY <1>11, <1>0, SlotsStill DEF SendFrame, slotVars
<1>12. ASSUME NEW c \in Conns, SendFails(c) PROVE Sockets' /\ Slots'
  BY <1>12, <1>0, SlotsStill DEF SendFails, slotVars
<1>13. ASSUME NEW c \in Conns, GrantCredit(c) PROVE Sockets' /\ Slots'
  BY <1>13, <1>0, SlotsStill DEF GrantCredit, slotVars
<1>14. ASSUME NEW c \in Conns, Join(c) PROVE Sockets' /\ Slots'
  BY <1>14, <1>0, SlotsStill DEF Join, slotVars
<1>15. ASSUME NEW c \in Conns, NEW d \in Dests, NEW n \in Sizes, FrameArrives(c, d, n) PROVE Sockets' /\ Slots'
  BY <1>15, SlotsStill DEF FrameArrives, slotVars
<1>16. ASSUME NEW c \in Conns, NEW d \in Dests, NEW n \in Sizes, Receive(c, d, n) PROVE Sockets' /\ Slots'
  BY <1>16, SlotsStill DEF Receive, slotVars
<1>17. ASSUME NEW c \in Conns, CheckCredit(c) PROVE Sockets' /\ Slots'
  BY <1>17, SlotsStill DEF CheckCredit, slotVars
<1>18. ASSUME NEW c \in Conns, RateReply(c) PROVE Sockets' /\ Slots'
  BY <1>18, SlotsStill DEF RateReply, slotVars
<1>19. ASSUME NEW c \in Conns, WriteReply(c) PROVE Sockets' /\ Slots'
  BY <1>19, SlotsStill DEF WriteReply, slotVars
<1>20. ASSUME NEW c \in Conns, ReplyFails(c) PROVE Sockets' /\ Slots'
  BY <1>20, SlotsStill DEF ReplyFails, slotVars
<1>21. ASSUME NEW c \in Conns, RepliesEnd(c) PROVE Sockets' /\ Slots'
  BY <1>21, SlotsStill DEF RepliesEnd, slotVars
<1>22. CASE UNCHANGED vars
  BY <1>22, SlotsStill DEF vars, slotVars
<1> QED BY <1>1, <1>2, <1>3, <1>4, <1>5, <1>6, <1>7, <1>8, <1>9, <1>10, <1>11, <1>12, <1>13, <1>14, <1>15, <1>16, <1>17, <1>18, <1>19, <1>20, <1>21, <1>22
        DEF Next, RequestStep, ReplyStep

-----------------------------------------------------------------------------
(* The two threads of a connection keep its map of peers complete and       *)
(* within its limit.                                                        *)
LEMMA PeersStep == ASSUME TypeOK, Handling, Sockets, Peers, [Next]_vars PROVE Peers'
<1> USE RelayAssumption DEF TypeOK, Handling, Peers, At, RspAt
<1>0. \A c \in Conns : NextRead(c) \in {"read", "join"} /\ NextRecv(c) \in {"recv", "ended"}
  BY DEF NextRead, NextRecv
<1>1. ASSUME NEW a \in Acceptors, NEW i \in Ips, Reserve(a, i) PROVE Peers'
  BY <1>1, <1>0 DEF Reserve, JobDone, GotDone, slotVars, flowVars, historyVars, boundVars
<1>2. ASSUME NEW a \in Acceptors, CountIp(a) PROVE Peers'
  BY <1>2, <1>0 DEF CountIp, JobDone, GotDone, slotVars, flowVars, historyVars, boundVars
<1>3. ASSUME NEW a \in Acceptors, NEW c \in Conns, Spawn(a, c) PROVE Peers'
  BY <1>3, <1>0 DEF Spawn, JobDone, GotDone, slotVars, flowVars, historyVars, boundVars
<1>4. ASSUME NEW c \in Conns, GreetingFails(c) PROVE Peers'
  BY <1>4, <1>0 DEF GreetingFails, JobDone, GotDone, slotVars, flowVars, historyVars, boundVars
<1>5. ASSUME NEW c \in Conns, SpawnPanics(c) PROVE Peers'
  BY <1>5, <1>0 DEF SpawnPanics, JobDone, GotDone, slotVars, flowVars, historyVars, boundVars
<1>6. ASSUME NEW c \in Conns, GreetingArrives(c) PROVE Peers'
  BY <1>6, <1>0 DEF GreetingArrives, JobDone, GotDone, slotVars, flowVars, historyVars, boundVars
<1>7. ASSUME NEW c \in Conns, RequestsEnd(c) PROVE Peers'
  BY <1>7, <1>0 DEF RequestsEnd, JobDone, GotDone, slotVars, flowVars, historyVars, boundVars
<1>8. ASSUME NEW c \in Conns, RateFrame(c) PROVE Peers'
  <2>1. req[c] = "rate" /\ UNCHANGED <<known, sent, locked>>
    BY <1>8 DEF RateFrame, historyVars
  <2>2. \/ req' = [req EXCEPT ![c] = "lock"] /\ job' = job
        \/ req' = [req EXCEPT ![c] = NextRead(c)] /\ job' = [job EXCEPT ![c] = None]
    BY <1>8 DEF RateFrame, JobDone
  <2>3. CASE req' = [req EXCEPT ![c] = "lock"] /\ job' = job
    BY <2>1, <2>3
  <2>4. CASE req' = [req EXCEPT ![c] = NextRead(c)] /\ job' = [job EXCEPT ![c] = None]
    BY <1>0, <2>1, <2>4
  <2> QED BY <2>2, <2>3, <2>4
<1>9. ASSUME NEW c \in Conns, SendFrame(c) PROVE Peers'
  BY <1>9, <1>0 DEF SendFrame, JobDone, GotDone, slotVars, flowVars, historyVars, boundVars
<1>10. ASSUME NEW c \in Conns, SendFails(c) PROVE Peers'
  BY <1>10, <1>0 DEF SendFails, JobDone, GotDone, slotVars, flowVars, historyVars, boundVars
<1>11. ASSUME NEW c \in Conns, GrantCredit(c) PROVE Peers'
  <2>1. /\ req[c] = "credit" /\ req' = [req EXCEPT ![c] = NextRead(c)] /\ locked' = locked \ {c} /\ sent' = sent
        /\ known' = [known EXCEPT ![c] = @ \cup {job[c].peer}] /\ job' = [job EXCEPT ![c] = None]
    BY <1>11 DEF GrantCredit, JobDone
  <2>2. IsFiniteSet(known'[c]) /\ Cardinality(known'[c]) <= MaxDestinations
    <3>1. known'[c] = known[c] \cup {job[c].peer}
      BY <2>1
    <3>2. IsFiniteSet(known[c]) /\ Cardinality(known[c]) \in Nat
      BY FS_CardinalityType
    <3>3. IsFiniteSet(known'[c]) /\ Cardinality(known'[c]) = IF job[c].peer \in known[c] THEN Cardinality(known[c]) ELSE Cardinality(known[c]) + 1
      BY <3>1, <3>2, OneOrNoneMore
    <3> QED BY <2>1, <3>2, <3>3
  <2>3. known'[c] \subseteq sent'[c] /\ \A d \in sent'[c] : d \in known'[c]
    BY <2>1
  <2> QED BY <1>0, <2>1, <2>2, <2>3
<1>12. ASSUME NEW c \in Conns, Join(c) PROVE Peers'
  BY <1>12, FS_EmptySet DEF Join, JobDone, GotDone, slotVars, flowVars, historyVars, boundVars
<1>13. ASSUME NEW c \in Conns, ReleaseIp(c) PROVE Peers'
  BY <1>13, <1>0 DEF ReleaseIp, JobDone, GotDone, slotVars, flowVars, historyVars, boundVars
<1>14. ASSUME NEW c \in Conns, ReleaseSlot(c) PROVE Peers'
  BY <1>14, <1>0 DEF ReleaseSlot, JobDone, GotDone, slotVars, flowVars, historyVars, boundVars
<1>15. ASSUME NEW c \in Conns, CheckCredit(c) PROVE Peers'
  BY <1>15, <1>0 DEF CheckCredit, JobDone, GotDone, slotVars, flowVars, historyVars, boundVars
<1>16. ASSUME NEW c \in Conns, RateReply(c) PROVE Peers'
  BY <1>16, <1>0 DEF RateReply, JobDone, GotDone, slotVars, flowVars, historyVars, boundVars
<1>17. ASSUME NEW c \in Conns, WriteReply(c) PROVE Peers'
  BY <1>17, <1>0 DEF WriteReply, JobDone, GotDone, slotVars, flowVars, historyVars, boundVars
<1>18. ASSUME NEW c \in Conns, ReplyFails(c) PROVE Peers'
  BY <1>18, <1>0 DEF ReplyFails, JobDone, GotDone, slotVars, flowVars, historyVars, boundVars
<1>19. ASSUME NEW c \in Conns, RepliesEnd(c) PROVE Peers'
  BY <1>19, <1>0 DEF RepliesEnd, JobDone, GotDone, slotVars, flowVars, historyVars, boundVars
<1>20. ASSUME NEW c \in Conns, NEW d \in Dests, NEW n \in Sizes, FrameArrives(c, d, n) PROVE Peers'
  BY <1>20, <1>0 DEF FrameArrives, JobDone, GotDone, slotVars, flowVars, historyVars, boundVars
<1>21. ASSUME NEW c \in Conns, NEW d \in Dests, NEW n \in Sizes, Receive(c, d, n) PROVE Peers'
  BY <1>21, <1>0 DEF Receive, JobDone, GotDone, slotVars, flowVars, historyVars, boundVars
<1>22. CASE UNCHANGED vars
  BY <1>22 DEF vars, JobDone, GotDone, slotVars, flowVars, historyVars, boundVars
<1> QED BY <1>1, <1>2, <1>3, <1>4, <1>5, <1>6, <1>7, <1>8, <1>9, <1>10, <1>11, <1>12, <1>13, <1>14, <1>15, <1>16, <1>17, <1>18, <1>19, <1>20, <1>21, <1>22
        DEF Next, RequestStep, ReplyStep

(* The credit of a datagram in between, when there is one.                  *)
LEMMA PendingType ==
    ASSUME TypeOK, Handling, NEW c \in Conns, NEW d \in Dests
    PROVE  Pending(c, d) \in Nat /\ (rsp[c] \notin {"rate", "write"} => Pending(c, d) = 0)
BY RelayAssumption DEF TypeOK, Handling, Pending, Packets

(* What holds of the connection whose thread steps.                         *)
CreditsOf(c) ==
    /\ rsp[c] \in {"rate", "write"} => got[c].peer \in sent[c]
    /\ \A d \in Dests : /\ returned[c][d] + credit[c][d] + Pending(c, d) <= granted[c][d]
                        /\ returned[c][d] > 0 => d \in sent[c]

(* A step of the threads of one connection does not touch the others.       *)
LEMMA OtherCredits ==
    ASSUME TypeOK, Handling, Credits, NEW c \in Conns, CreditsOf(c)',
           \A b \in Conns \ {c} : /\ rsp'[b] = rsp[b] /\ got'[b] = got[b] /\ sent'[b] = sent[b]
                                  /\ returned'[b] = returned[b] /\ credit'[b] = credit[b] /\ granted'[b] = granted[b]
    PROVE  Credits'
<1>1. \A b \in Conns \ {c}, d \in Dests : Pending(b, d)' = Pending(b, d)
  BY DEF Pending
<1> QED BY <1>1 DEF Credits, CreditsOf

(* A step that leaves the answers and the credits of all connections alone. *)
LEMMA CreditsStill ==
    ASSUME Credits, UNCHANGED <<rsp, got, sent, returned, credit, granted>>
    PROVE  Credits'
BY DEF Credits, Pending

(* The response thread drops what it handles and goes on, or ends.          *)
LEMMA Dropped ==
    ASSUME TypeOK, Handling, Credits, TypeOK', Handling', NEW c \in Conns, NEW at \in {"recv", "check", "ended"},
           rsp' = [rsp EXCEPT ![c] = at], \A b \in Conns \ {c} : got'[b] = got[b],
           UNCHANGED <<sent, returned, credit, granted>>
    PROVE  Credits'
<1>1. \A d \in Dests : Pending(c, d) \in Nat /\ Pending(c, d)' = 0
  BY PendingType DEF TypeOK, Pending
<1>2. \A d \in Dests : returned[c][d] \in Nat /\ credit[c][d] \in Int /\ granted[c][d] \in Nat
  BY RelayAssumption DEF TypeOK
<1>3. CreditsOf(c)'
  BY <1>1, <1>2 DEF CreditsOf, Credits, TypeOK
<1> QED BY <1>3, OtherCredits DEF TypeOK

(* What a client has been given and may still be given never exceeds what   *)
(* its datagrams earned, also while an answer is between its check and its  *)
(* write.                                                                   *)
LEMMA CreditsStep ==
    ASSUME TypeOK, Handling, Sockets, Peers, Credits, [Next]_vars, TypeOK', Handling'
    PROVE  Credits'
<1> USE RelayAssumption DEF TypeOK, Handling, At, RspAt
<1>0. \A c \in Conns : NextRead(c) \in {"read", "join"} /\ NextRecv(c) \in {"recv", "ended"}
  BY DEF NextRead, NextRecv
<1>g. \A c \in Conns : rsp[c] \in {"check", "rate", "write"} => got[c].peer \in Dests /\ got[c].len \in Nat
  BY DEF Packets
<1>n. \A c \in Conns, d \in Dests : returned[c][d] \in Nat /\ credit[c][d] \in Nat /\ granted[c][d] \in Nat
  OBVIOUS
<1>c. \A c \in Conns : CreditsOf(c)
  BY DEF Credits, CreditsOf
<1>1. ASSUME NEW a \in Acceptors, NEW i \in Ips, Reserve(a, i) PROVE Credits'
  BY <1>1, CreditsStill DEF Reserve, flowVars, historyVars, boundVars
<1>2. ASSUME NEW a \in Acceptors, CountIp(a) PROVE Credits'
  BY <1>2, CreditsStill DEF CountIp, flowVars, historyVars, boundVars
<1>3. ASSUME NEW a \in Acceptors, NEW c \in Conns, Spawn(a, c) PROVE Credits'
  BY <1>3, CreditsStill DEF Spawn, flowVars, historyVars, boundVars
<1>4. ASSUME NEW c \in Conns, GreetingFails(c) PROVE Credits'
  BY <1>4, CreditsStill DEF GreetingFails, flowVars, historyVars, boundVars
<1>5. ASSUME NEW c \in Conns, SpawnPanics(c) PROVE Credits'
  BY <1>5, CreditsStill DEF SpawnPanics, flowVars, historyVars, boundVars
<1>6. ASSUME NEW c \in Conns, GreetingArrives(c) PROVE Credits'
  BY <1>6, Dropped DEF GreetingArrives, historyVars
<1>7. ASSUME NEW c \in Conns, RequestsEnd(c) PROVE Credits'
  BY <1>7, CreditsStill DEF RequestsEnd, flowVars, historyVars, boundVars
<1>8. ASSUME NEW c \in Conns, RateFrame(c) PROVE Credits'
  BY <1>8, CreditsStill DEF RateFrame, flowVars, historyVars, boundVars
<1>9. ASSUME NEW c \in Conns, SendFrame(c) PROVE Credits'
  <2>1. UNCHANGED <<rsp, got, returned, credit, granted>> /\ \A b \in Conns : sent[b] \subseteq sent'[b]
    BY <1>9 DEF SendFrame
  <2>2. \A b \in Conns, d \in Dests : Pending(b, d)' = Pending(b, d)
    BY <2>1 DEF Pending
  <2> QED BY <2>1, <2>2 DEF Credits
<1>10. ASSUME NEW c \in Conns, SendFails(c) PROVE Credits'
  BY <1>10, CreditsStill DEF SendFails, flowVars, historyVars, boundVars
<1>11. ASSUME NEW c \in Conns, GrantCredit(c) PROVE Credits'
  <2>1. /\ req[c] = "credit" /\ job[c].peer \in Dests /\ job[c].len \in Nat /\ UNCHANGED <<sent, returned, rsp, got>>
        /\ credit' = [credit EXCEPT ![c][job[c].peer] = Least(@ + Additional(job[c].len), MaxCredit)]
        /\ granted' = [granted EXCEPT ![c][job[c].peer] = @ + Additional(job[c].len)]
    BY <1>11 DEF GrantCredit, Packets
  <2>2. Additional(job[c].len) \in Nat
    BY <2>1 DEF Additional, Greatest
  <2>3. \A d \in Dests : credit'[c][d] - credit[c][d] <= granted'[c][d] - granted[c][d] /\ granted'[c][d] \in Nat /\ credit'[c][d] \in Nat
    BY <2>1, <2>2, <1>n DEF Least
  <2>4. \A d \in Dests : Pending(c, d)' = Pending(c, d) /\ Pending(c, d) \in Nat
    BY <2>1, PendingType DEF Pending
  <2>5. CreditsOf(c)'
    BY <1>c, <1>n, <2>1, <2>3, <2>4 DEF CreditsOf
  <2> QED BY <2>1, <2>5, OtherCredits
<1>12. ASSUME NEW c \in Conns, Join(c) PROVE Credits'
  <2>1. /\ rsp' = [rsp EXCEPT ![c] = "none"] /\ got' = got /\ sent' = [sent EXCEPT ![c] = {}]
        /\ credit' = [credit EXCEPT ![c] = [d \in Dests |-> 0]] /\ granted' = [granted EXCEPT ![c] = [d \in Dests |-> 0]]
        /\ returned' = [returned EXCEPT ![c] = [d \in Dests |-> 0]]
    BY <1>12 DEF Join
  <2>2. \A d \in Dests : Pending(c, d)' = 0
    BY <2>1 DEF Pending
  <2>3. CreditsOf(c)'
    BY <2>1, <2>2 DEF CreditsOf
  <2> QED BY <2>1, <2>3, OtherCredits
<1>13. ASSUME NEW c \in Conns, ReleaseIp(c) PROVE Credits'
  BY <1>13, CreditsStill DEF ReleaseIp, flowVars, historyVars, boundVars
<1>14. ASSUME NEW c \in Conns, ReleaseSlot(c) PROVE Credits'
  BY <1>14, CreditsStill DEF ReleaseSlot, flowVars, historyVars, boundVars
<1>15. ASSUME NEW c \in Conns, CheckCredit(c) PROVE Credits'
  <2>1. rsp[c] = "check" /\ c \notin locked /\ UNCHANGED <<sent, returned, granted>>
    BY <1>15 DEF CheckCredit, historyVars
  <2>2. CASE got[c].peer \in known[c] /\ got[c].len <= credit[c][got[c].peer]
    <3>1. credit' = [credit EXCEPT ![c][got[c].peer] = @ - got[c].len] /\ rsp' = [rsp EXCEPT ![c] = "rate"] /\ got' = got
      BY <1>15, <2>2 DEF CheckCredit
    <3>2. \A d \in Dests : Pending(c, d) = 0 /\ Pending(c, d)' = IF got[c].peer = d THEN got[c].len ELSE 0
      BY <2>1, <3>1, PendingType DEF Pending
    <3>3. \A d \in Dests : credit'[c][d] = credit[c][d] - Pending(c, d)' /\ Pending(c, d)' \in Nat
      BY <1>n, <1>g, <2>1, <3>1, <3>2
    <3>4. got[c].peer \in sent[c]
      BY <2>2 DEF Peers
    <3>5. CreditsOf(c)'
      BY <1>c, <1>n, <2>1, <3>1, <3>2, <3>3, <3>4 DEF CreditsOf
    <3> QED BY <2>1, <3>1, <3>5, OtherCredits
  <2>3. CASE ~(got[c].peer \in known[c] /\ got[c].len <= credit[c][got[c].peer])
    <3>1. credit' = credit /\ rsp' = [rsp EXCEPT ![c] = NextRecv(c)] /\ got' = [got EXCEPT ![c] = None]
      BY <1>15, <2>3 DEF CheckCredit, GotDone
    <3> QED BY <1>0, <2>1, <3>1, Dropped
  <2> QED BY <2>2, <2>3
<1>16. ASSUME NEW c \in Conns, RateReply(c) PROVE Credits'
  <2>1. rsp[c] = "rate" /\ UNCHANGED <<sent, returned, granted, credit>>
    BY <1>16 DEF RateReply, historyVars
  <2>2. \/ rsp' = [rsp EXCEPT ![c] = "write"] /\ got' = got
        \/ rsp' = [rsp EXCEPT ![c] = NextRecv(c)] /\ got' = [got EXCEPT ![c] = None]
    BY <1>16 DEF RateReply, GotDone
  <2>3. CASE rsp' = [rsp EXCEPT ![c] = "write"] /\ got' = got
    <3>1. \A d \in Dests : Pending(c, d)' = Pending(c, d)
      BY <2>1, <2>3 DEF Pending
    <3>2. CreditsOf(c)'
      BY <1>c, <2>1, <2>3, <3>1 DEF CreditsOf
    <3> QED BY <2>1, <2>3, <3>2, OtherCredits
  <2>4. CASE rsp' = [rsp EXCEPT ![c] = NextRecv(c)] /\ got' = [got EXCEPT ![c] = None]
    BY <1>0, <2>1, <2>4, Dropped
  <2> QED BY <2>2, <2>3, <2>4
<1>17. ASSUME NEW c \in Conns, WriteReply(c) PROVE Credits'
  <2>1. /\ rsp[c] = "write" /\ rsp' = [rsp EXCEPT ![c] = NextRecv(c)] /\ UNCHANGED <<sent, granted, credit>>
        /\ returned' = [returned EXCEPT ![c][got[c].peer] = @ + got[c].len] /\ got' = [got EXCEPT ![c] = None]
    BY <1>17 DEF WriteReply, GotDone
  <2>2. \A d \in Dests : returned'[c][d] = returned[c][d] + Pending(c, d) /\ Pending(c, d) \in Nat
    BY <1>g, <1>n, <2>1, PendingType DEF Pending
  <2>3. \A d \in Dests : Pending(c, d)' = 0
    BY <1>0, <2>1 DEF Pending
  <2>4. \A d \in Dests : Pending(c, d) > 0 => d \in sent[c]
    BY <1>c, <2>1 DEF CreditsOf, Pending
  <2>5. CreditsOf(c)'
    <3>1. rsp'[c] \notin {"rate", "write"}
      BY <1>0, <2>1
    <3> QED BY <1>c, <1>n, <2>1, <2>2, <2>3, <2>4, <3>1 DEF CreditsOf
  <2> QED BY <2>1, <2>5, OtherCredits
<1>18. ASSUME NEW c \in Conns, ReplyFails(c) PROVE Credits'
  BY <1>18, Dropped DEF ReplyFails, GotDone, historyVars
<1>19. ASSUME NEW c \in Conns, RepliesEnd(c) PROVE Credits'
  BY <1>19, Dropped DEF RepliesEnd, flowVars, historyVars
<1>20. ASSUME NEW c \in Conns, NEW d \in Dests, NEW n \in Sizes, FrameArrives(c, d, n) PROVE Credits'
  BY <1>20, CreditsStill DEF FrameArrives, flowVars, historyVars, boundVars
<1>21. ASSUME NEW c \in Conns, NEW d \in Dests, NEW n \in Sizes, Receive(c, d, n) PROVE Credits'
  <2>1. rsp' = [rsp EXCEPT ![c] = "check"] /\ UNCHANGED <<sent, returned, credit, granted>>
    BY <1>21 DEF Receive, historyVars
  <2>2. \A b \in Conns \ {c} : got'[b] = got[b]
    BY <1>21 DEF Receive
  <2> QED BY <2>1, <2>2, Dropped
<1>22. CASE UNCHANGED vars
  BY <1>22, CreditsStill DEF vars, flowVars, historyVars
<1> QED BY <1>1, <1>2, <1>3, <1>4, <1>5, <1>6, <1>7, <1>8, <1>9, <1>10, <1>11, <1>12, <1>13, <1>14, <1>15, <1>16, <1>17, <1>18, <1>19, <1>20, <1>21, <1>22
        DEF Next, RequestStep, ReplyStep

-----------------------------------------------------------------------------
(* At every moment, whatever the threads of all connections do: the types,  *)
(* the counters, the map of peers and the credit of every connection are    *)
(* exact (services/relay).                                                  *)
THEOREM RelayKeeps == Spec => []RelayInv
<1>1. Init => RelayInv
  <2> SUFFICES ASSUME Init PROVE RelayInv
    OBVIOUS
  <2> USE RelayAssumption DEF Init, Threads
  <2>1. NewWindow \in Windows(PacketLimit, ByteLimit) /\ NewWindow \in Windows(GlobalPacketLimit, GlobalByteLimit)
    BY DEF NewWindow, Windows
  <2>2. TypeOK
    BY <2>1 DEF TypeOK
  <2>3. Handling /\ Sockets
    BY DEF Handling, Sockets
  <2>4. Taken = {} /\ \A i \in Ips : Admitted(i) = {}
    BY DEF Taken, Admitted
  <2>5. Slots
    <3>1. Cardinality(Taken) = 0 /\ IsFiniteSet(Taken) /\ \A i \in Ips : Cardinality(Admitted(i)) = 0
      BY <2>4, FS_EmptySet
    <3> QED BY <3>1 DEF Slots
  <2>6. Peers
    BY FS_EmptySet DEF Peers
  <2>7. Credits
    BY DEF Credits, Pending
  <2> QED BY <2>2, <2>3, <2>5, <2>6, <2>7 DEF RelayInv
<1>2. RelayInv /\ [Next]_vars => RelayInv'
  BY TypeStep, SlotStep, PeersStep, CreditsStep DEF RelayInv
<1> QED BY <1>1, <1>2, PTL DEF Spec

(* No limit is passed and no slot is lost or given back twice, whichever    *)
(* threads reserve and release at the same time (reserve, release).         *)
THEOREM RelayLimitsHeld == Spec => []LimitsHeld
<1>1. RelayInv => LimitsHeld
  <2> SUFFICES ASSUME RelayInv PROVE LimitsHeld
    OBVIOUS
  <2> USE DEF RelayInv
  <2>1. CountersExact
    BY DEF Slots, CountersExact
  <2>2. UNION {Admitted(i) : i \in Ips} \subseteq Taken
    BY RelayAssumption DEF Admitted, Taken
  <2>3. Cardinality(UNION {Admitted(i) : i \in Ips}) <= Cardinality(Taken) /\ Cardinality(UNION {Admitted(i) : i \in Ips}) \in Nat
    BY <2>2, FS_Subset, FS_CardinalityType DEF Slots
  <2>4. CapacityHeld
    BY <2>3, RelayAssumption DEF Slots, CapacityHeld, TypeOK
  <2>5. DestinationsBounded
    BY DEF Peers, DestinationsBounded
  <2> QED BY <2>1, <2>4, <2>5 DEF LimitsHeld
<1> QED BY <1>1, RelayKeeps, PTL

(* A client is answered only by peers it has sent to and within the credit  *)
(* it earned, and no fast answer misses the entry of its peer.              *)
THEOREM RelayRepliesHold == Spec => []RepliesHold
<1>1. RelayInv => RepliesHold
  <2> SUFFICES ASSUME RelayInv PROVE RepliesHold
    OBVIOUS
  <2> USE DEF RelayInv
  <2>1. \A c \in Conns, d \in Dests : Pending(c, d) \in Nat
    BY RelayAssumption DEF Pending, Handling, Packets
  <2>2. RepliesEarned
    BY <2>1 DEF Credits, RepliesEarned, TypeOK
  <2>3. AnswersNotRaced
    BY DEF Peers, AnswersNotRaced
  <2> QED BY <2>2, <2>3 DEF RepliesHold
<1> QED BY <1>1, RelayKeeps, PTL
=============================================================================
