---------------------------- MODULE JwpLinkProofs ----------------------------
(***************************************************************************)
(* Proofs about JwpLink, for every range of indices, number of tries, line *)
(* capacity and number of messages.                                        *)
(*                                                                         *)
(* The argument is about one direction at a time, as a relation between    *)
(* values: the sender's index T, the receiver's index R, the message being *)
(* sent and the packages and acknowledgements under way.  The receiver is  *)
(* level with the sender or one message ahead of what the sender knows,    *)
(* and two generations of packages at most are on the line, the older in   *)
(* front.  A SYNC on the line counts as already applied: the order of the  *)
(* line keeps everything behind it until it is.  A package that was        *)
(* accepted counts as the receiver's index before rx_index is set, because *)
(* jwp->lock is held until then; and until it is acknowledged it stays the *)
(* first on the line, like one received again.                             *)
(***************************************************************************)
EXTENDS JwpLink, SequenceTheorems, TLAPS

IsMsg(pkg) == pkg.type \in {"DATA", "CMD"}
IsAck(pkg) == pkg.type = "ACK"

Busy == {"set", "write", "poll"}

\* One direction: m is the line towards the receiver, a the line back.
Level(T, R, pend, pc) ==
    R = T \/ (pend /\ pc # "set" /\ R = NextIndex(T))

Control(pend, pc) == (pend => pc \in Busy) /\ (pc = "set" => pend)

Packages(T, R, pend, pc, n, m) ==
    \A i \in 1 .. Len(m) : IsMsg(m[i]) =>
        \/ m[i].index = T /\ R = T
        \/ m[i].index = NextIndex(T) /\ pend /\ pc # "set" /\ m[i].msg = n

PackagesOrder(T, m) ==
    \A i, j \in 1 .. Len(m) :
        i < j /\ IsMsg(m[i]) /\ IsMsg(m[j]) /\ m[i].index # T => m[j].index # T

Acks(T, R, a) ==
    \A i \in 1 .. Len(a) : a[i].type = "ACK" =>
        a[i].index = T \/ (a[i].index = NextIndex(T) /\ R # T)

AcksOrder(T, a) ==
    \A i, j \in 1 .. Len(a) :
        i < j /\ a[i].type = "ACK" /\ a[j].type = "ACK" /\ a[i].index # T => a[j].index # T

IndexSet(T, pend, pc, ix) ==
    pc \in {"write", "poll"} => ix = IF pend THEN NextIndex(T) ELSE T

Increasing(arr) == \A i, j \in 1 .. Len(arr) : i < j => arr[i] < arr[j]

Accepted(T, R, pend, pc, n, arr) ==
    /\ Increasing(arr)
    /\ \A i \in 1 .. Len(arr) : arr[i] <= n
    /\ R = T /\ pend => \A i \in 1 .. Len(arr) : arr[i] < n
    /\ R # T \/ (~pend /\ pc \in {"write", "poll"}) => \E i \in 1 .. Len(arr) : arr[i] = n

Finished(comp, arr) == \A c \in comp : \E i \in 1 .. Len(arr) : arr[i] = c

Dir(T, R, pend, pc, ix, n, m, a, arr, comp) ==
    /\ Level(T, R, pend, pc) /\ Control(pend, pc)
    /\ Packages(T, R, pend, pc, n, m) /\ PackagesOrder(T, m)
    /\ Acks(T, R, a) /\ AcksOrder(T, a)
    /\ IndexSet(T, pend, pc, ix)
    /\ Accepted(T, R, pend, pc, n, arr) /\ Finished(comp, arr)

-----------------------------------------------------------------------------
(* The state of the link.                                                   *)

HasSync(l) == \E i \in 1 .. Len(l) : l[i].type = "SYNC"

\* The end is still to set its indices to 0.
Resetting(e) == tpc[e] = "sync" \/ HasSync(line[e])
Tx(e) == IF Resetting(e) THEN 0 ELSE tx_index[e]
\* The index accepted last: rx_index is about to follow it.
Got(e) == IF Locked(e) THEN line[e][1].index ELSE rx_index[e]
Rx(e) == IF Resetting(e) THEN 0 ELSE Got(e)

DirInv(e) ==
    Dir(Tx(e), Rx(Peer(e)), send_pendding[e], tpc[e], index[e], sent[e],
        line[Peer(e)], line[e], arrived[Peer(e)], completed[e])

\* A SYNC is the first on its line, and nothing goes the other way until it has arrived
\* and the indices at both ends are set.
SyncInv(e) ==
    /\ tpc[e] = "sync" =>
        /\ line[e] = <<>> /\ tpc[Peer(e)] = "idle"
        /\ \A i \in 1 .. Len(line[Peer(e)]) : line[Peer(e)][i].type = "SYNC"
    /\ HasSync(line[e]) =>
        /\ tpc[e] = "idle" /\ line[Peer(e)] = <<>>
        /\ line[e][1].type = "SYNC"
        /\ \A i \in 2 .. Len(line[e]) : IsMsg(line[e][i])

\* rx_pkg has one reader, which accepts only what is new and acknowledges only the last.
StageInv(e) == \A t \in Fillers :
    /\ at[e][t] # "none" => at[e][Other(t)] = "none"
    /\ at[e][t] = "set" => IsMsg(line[e][1]) /\ line[e][1].index # rx_index[e]
    /\ at[e][t] = "ack" => IsMsg(line[e][1]) /\ line[e][1].index = rx_index[e]

LinkTypes ==
    /\ {tx_index, rx_index, index} \subseteq [Ends -> 0 .. Mod - 1]
    /\ send_pendding \in [Ends -> BOOLEAN]
    /\ tpc \in [Ends -> {"idle", "set", "write", "poll", "sync"}]
    /\ retry \in [Ends -> 0 .. Tries]
    /\ sent \in [Ends -> Nat]
    /\ line \in [Ends -> Seq(Package)]
    /\ at \in [Ends -> [Fillers -> Stages]]
    /\ {data, arrived} \subseteq [Ends -> Seq(Nat)]
    /\ completed \in [Ends -> SUBSET Nat]
    /\ syncs \in 0 .. MaxSyncs
    /\ odd \subseteq {"gave up", "sync", "overwritten"}

Messages(l, n) == \A i \in 1 .. Len(l) : IsMsg(l[i]) => l[i].msg \in 1 .. n

\* What the types say of the messages: none is older than the first, none newer than sent.
Numbered(e) ==
    /\ sent[e] <= MaxSend[e]
    /\ tpc[e] \in Busy => sent[e] > 0
    /\ Len(line[e]) <= LineCap + 1 /\ Len(data[e]) <= 1
    /\ InUse(e) => line[e] # <<>>
    /\ Messages(line[e], sent[Peer(e)])
    /\ \A i \in 1 .. Len(arrived[e]) : arrived[e][i] \in 1 .. sent[Peer(e)]
    /\ completed[e] \subseteq 1 .. sent[e]

LinkInv ==
    /\ LinkTypes
    /\ \A e \in Ends : Numbered(e)
    /\ odd = {} => \A e \in Ends : DirInv(e) /\ SyncInv(e) /\ StageInv(e)

\* A step of one end, or of the line towards it.
Step(e) ==
    \/ jwp_send_package(e) \/ jwp_send_sync(e) \/ Sending(e) \/ Filling(e) \/ jwp_process_data(e)
    \/ Lose(e)

-----------------------------------------------------------------------------
(* Indices and sequences.                                                   *)

\* The next index is another one.
LEMMA NextFacts ==
    ASSUME NEW i \in 0 .. Mod - 1
    PROVE  NextIndex(i) \in 0 .. Mod - 1 /\ NextIndex(i) # i
  <1>1. Mod \in Nat /\ Mod > 2
    BY JwpAssumption
  <1>2. CASE i + 1 = Mod
    <2>1. (i + 1) % Mod = 0
      BY <1>1, <1>2
    <2> QED BY <1>1, <1>2, <2>1 DEF NextIndex
  <1>3. CASE i + 1 < Mod
    <2>1. (i + 1) % Mod = i + 1
      BY <1>1, <1>3
    <2> QED BY <1>1, <1>3, <2>1 DEF NextIndex
  <1> QED BY <1>1, <1>2, <1>3

\* The elements of a line without its first package.
LEMMA TailAt ==
    ASSUME NEW S, NEW s \in Seq(S), s # <<>>
    PROVE  /\ Tail(s) \in Seq(S) /\ Len(Tail(s)) = Len(s) - 1 /\ Len(s) > 0 /\ Len(s) \in Nat
           /\ Len(Tail(s)) \in Nat
           /\ \A i \in 1 .. Len(Tail(s)) : Tail(s)[i] = s[i + 1] /\ i + 1 \in 1 .. Len(s)
  <1>1. Len(s) \in Nat /\ Len(s) > 0
    OBVIOUS
  <1>2. Tail(s) \in Seq(S) /\ Len(Tail(s)) = Len(s) - 1
    OBVIOUS
  <1>3. \A i \in 1 .. Len(Tail(s)) : Tail(s)[i] = s[i + 1] /\ i + 1 \in 1 .. Len(s)
    BY <1>1
  <1> QED BY <1>1, <1>2, <1>3

\* The elements of a line with one package more.
LEMMA AppendAt ==
    ASSUME NEW S, NEW s \in Seq(S), NEW x \in S
    PROVE  /\ Append(s, x) \in Seq(S) /\ Len(Append(s, x)) = Len(s) + 1 /\ Len(s) \in Nat
           /\ Append(s, x)[Len(s) + 1] = x
           /\ \A i \in 1 .. Len(s) : Append(s, x)[i] = s[i]
           /\ \A i \in 1 .. Len(s) + 1 : i \in 1 .. Len(s) \/ i = Len(s) + 1
  <1>1. Len(s) \in Nat
    OBVIOUS
  <1>2. /\ Append(s, x) \in Seq(S) /\ Len(Append(s, x)) = Len(s) + 1
        /\ Append(s, x)[Len(s) + 1] = x
        /\ \A i \in 1 .. Len(s) : Append(s, x)[i] = s[i]
    OBVIOUS
  <1> QED BY <1>1, <1>2

-----------------------------------------------------------------------------
(* What a step of either end does to one direction.                         *)

\* The first package towards the receiver is taken away.
LEMMA DirTakeMsg ==
    ASSUME NEW T \in 0 .. Mod - 1, NEW R \in 0 .. Mod - 1, NEW pend \in BOOLEAN, NEW pc,
           NEW ix, NEW n \in Nat, NEW m \in Seq(Package), NEW a \in Seq(Package),
           NEW arr \in Seq(Nat), NEW comp,
           Dir(T, R, pend, pc, ix, n, m, a, arr, comp),
           m # <<>>
    PROVE  Dir(T, R, pend, pc, ix, n, Tail(m), a, arr, comp)
  <1> DEFINE t == Tail(m)
  <1>1. /\ Len(t) = Len(m) - 1 /\ Len(m) \in Nat
        /\ \A i \in 1 .. Len(t) : t[i] = m[i + 1] /\ i + 1 \in 1 .. Len(m)
    BY TailAt
  <1> HIDE DEF t
  <1>2. Packages(T, R, pend, pc, n, t)
    BY <1>1 DEF Dir, Packages
  <1>3. PackagesOrder(T, t)
    <2> SUFFICES ASSUME NEW i \in 1 .. Len(t), NEW j \in 1 .. Len(t), i < j,
                        IsMsg(t[i]), IsMsg(t[j]), t[i].index # T
                 PROVE  t[j].index # T
      BY DEF PackagesOrder
    <2>1. i + 1 \in 1 .. Len(m) /\ j + 1 \in 1 .. Len(m) /\ i + 1 < j + 1
      BY <1>1
    <2>2. t[i] = m[i + 1] /\ t[j] = m[j + 1]
      BY <1>1
    <2> QED BY <2>1, <2>2 DEF Dir, PackagesOrder
  <1> QED BY <1>2, <1>3 DEF Dir, t

\* The first package back is taken away.
LEMMA DirTakeAck ==
    ASSUME NEW T \in 0 .. Mod - 1, NEW R \in 0 .. Mod - 1, NEW pend \in BOOLEAN, NEW pc,
           NEW ix, NEW n \in Nat, NEW m \in Seq(Package), NEW a \in Seq(Package),
           NEW arr \in Seq(Nat), NEW comp,
           Dir(T, R, pend, pc, ix, n, m, a, arr, comp),
           a # <<>>
    PROVE  Dir(T, R, pend, pc, ix, n, m, Tail(a), arr, comp)
  <1> DEFINE t == Tail(a)
  <1>1. /\ Len(t) = Len(a) - 1 /\ Len(a) \in Nat
        /\ \A i \in 1 .. Len(t) : t[i] = a[i + 1] /\ i + 1 \in 1 .. Len(a)
    BY TailAt
  <1> HIDE DEF t
  <1>2. Acks(T, R, t)
    BY <1>1 DEF Dir, Acks
  <1>3. AcksOrder(T, t)
    <2> SUFFICES ASSUME NEW i \in 1 .. Len(t), NEW j \in 1 .. Len(t), i < j,
                        t[i].type = "ACK", t[j].type = "ACK", t[i].index # T
                 PROVE  t[j].index # T
      BY DEF AcksOrder
    <2>1. i + 1 \in 1 .. Len(a) /\ j + 1 \in 1 .. Len(a) /\ i + 1 < j + 1
      BY <1>1
    <2>2. t[i] = a[i + 1] /\ t[j] = a[j + 1]
      BY <1>1
    <2> QED BY <2>1, <2>2 DEF Dir, AcksOrder
  <1> QED BY <1>2, <1>3 DEF Dir, t

\* A package that is no message follows those towards the receiver.
LEMMA DirOtherMsg ==
    ASSUME NEW T \in 0 .. Mod - 1, NEW R \in 0 .. Mod - 1, NEW pend \in BOOLEAN, NEW pc,
           NEW ix, NEW n \in Nat, NEW m \in Seq(Package), NEW a \in Seq(Package),
           NEW arr \in Seq(Nat), NEW comp,
           Dir(T, R, pend, pc, ix, n, m, a, arr, comp),
           NEW x \in Package, ~IsMsg(x)
    PROVE  Dir(T, R, pend, pc, ix, n, Append(m, x), a, arr, comp)
  <1> DEFINE t == Append(m, x)
  <1>1. /\ Len(t) = Len(m) + 1 /\ Len(m) \in Nat /\ t[Len(m) + 1] = x
        /\ \A i \in 1 .. Len(m) : t[i] = m[i]
        /\ \A i \in 1 .. Len(m) + 1 : i \in 1 .. Len(m) \/ i = Len(m) + 1
    BY AppendAt
  <1> HIDE DEF t
  <1>2. \A i \in 1 .. Len(t) : IsMsg(t[i]) => i \in 1 .. Len(m) /\ t[i] = m[i]
    BY <1>1
  <1>3. Packages(T, R, pend, pc, n, t)
    BY <1>2 DEF Dir, Packages
  <1>4. PackagesOrder(T, t)
    BY <1>2 DEF Dir, PackagesOrder
  <1> QED BY <1>3, <1>4 DEF Dir, t

\* A package that is no acknowledgement follows those on their way back.
LEMMA DirOtherAck ==
    ASSUME NEW T \in 0 .. Mod - 1, NEW R \in 0 .. Mod - 1, NEW pend \in BOOLEAN, NEW pc,
           NEW ix, NEW n \in Nat, NEW m \in Seq(Package), NEW a \in Seq(Package),
           NEW arr \in Seq(Nat), NEW comp,
           Dir(T, R, pend, pc, ix, n, m, a, arr, comp),
           NEW x \in Package, x.type # "ACK"
    PROVE  Dir(T, R, pend, pc, ix, n, m, Append(a, x), arr, comp)
  <1> DEFINE t == Append(a, x)
  <1>1. /\ Len(t) = Len(a) + 1 /\ Len(a) \in Nat /\ t[Len(a) + 1] = x
        /\ \A i \in 1 .. Len(a) : t[i] = a[i]
        /\ \A i \in 1 .. Len(a) + 1 : i \in 1 .. Len(a) \/ i = Len(a) + 1
    BY AppendAt
  <1> HIDE DEF t
  <1>2. \A i \in 1 .. Len(t) : t[i].type = "ACK" => i \in 1 .. Len(a) /\ t[i] = a[i]
    BY <1>1
  <1>3. Acks(T, R, t)
    BY <1>2 DEF Dir, Acks
  <1>4. AcksOrder(T, t)
    BY <1>2 DEF Dir, AcksOrder
  <1> QED BY <1>3, <1>4 DEF Dir, t

\* The next message is given to jwp_send_package.
LEMMA DirSend ==
    ASSUME NEW T \in 0 .. Mod - 1, NEW R \in 0 .. Mod - 1, NEW pend \in BOOLEAN, NEW pc,
           NEW ix, NEW n \in Nat, NEW m \in Seq(Package), NEW a \in Seq(Package),
           NEW arr \in Seq(Nat), NEW comp,
           Dir(T, R, pend, pc, ix, n, m, a, arr, comp),
           pc = "idle"
    PROVE  Dir(T, R, TRUE, "set", ix, n + 1, m, a, arr, comp)
  <1>1. ~pend /\ R = T
    BY DEF Dir, Control, Busy, Level
  <1>2. Level(T, R, TRUE, "set") /\ Control(TRUE, "set") /\ IndexSet(T, TRUE, "set", ix)
    BY <1>1 DEF Level, Control, IndexSet, Busy
  <1>3. Packages(T, R, TRUE, "set", n + 1, m)
    BY <1>1 DEF Dir, Packages
  <1>4. Accepted(T, R, TRUE, "set", n + 1, arr)
    <2>1. \A i \in 1 .. Len(arr) : arr[i] \in Nat /\ arr[i] <= n
      BY DEF Dir, Accepted
    <2>2. \A i \in 1 .. Len(arr) : arr[i] <= n + 1 /\ arr[i] < n + 1
      BY <2>1
    <2> QED BY <1>1, <2>2 DEF Dir, Accepted
  <1> QED BY <1>2, <1>3, <1>4 DEF Dir

\* The message gets its index.
LEMMA DirSet ==
    ASSUME NEW T \in 0 .. Mod - 1, NEW R \in 0 .. Mod - 1, NEW pend \in BOOLEAN, NEW pc,
           NEW ix, NEW n \in Nat, NEW m \in Seq(Package), NEW a \in Seq(Package),
           NEW arr \in Seq(Nat), NEW comp,
           Dir(T, R, pend, pc, ix, n, m, a, arr, comp),
           pc = "set"
    PROVE  Dir(T, R, pend, "write", NextIndex(T), n, m, a, arr, comp)
  <1>1. pend /\ R = T
    BY DEF Dir, Control, Level
  <1>2. Level(T, R, pend, "write") /\ Control(pend, "write") /\ IndexSet(T, pend, "write", NextIndex(T))
    BY <1>1 DEF Level, Control, IndexSet, Busy
  <1>3. Packages(T, R, pend, "write", n, m)
    BY <1>1 DEF Dir, Packages
  <1>4. Accepted(T, R, pend, "write", n, arr)
    BY <1>1 DEF Dir, Accepted
  <1> QED BY <1>2, <1>3, <1>4 DEF Dir

\* The sender writes again after a timeout, or polls after a write.
LEMMA DirPc ==
    ASSUME NEW T \in 0 .. Mod - 1, NEW R \in 0 .. Mod - 1, NEW pend \in BOOLEAN, NEW pc,
           NEW ix, NEW n \in Nat, NEW m \in Seq(Package), NEW a \in Seq(Package),
           NEW arr \in Seq(Nat), NEW comp,
           Dir(T, R, pend, pc, ix, n, m, a, arr, comp),
           pc \in {"write", "poll"}, NEW pd \in {"write", "poll"}
    PROVE  Dir(T, R, pend, pd, ix, n, m, a, arr, comp)
  <1>1. Level(T, R, pend, pd) /\ Control(pend, pd) /\ IndexSet(T, pend, pd, ix)
    BY DEF Dir, Level, Control, IndexSet, Busy
  <1>2. Packages(T, R, pend, pd, n, m)
    BY DEF Dir, Packages
  <1>3. Accepted(T, R, pend, pd, n, arr)
    BY DEF Dir, Accepted
  <1> QED BY <1>1, <1>2, <1>3 DEF Dir

\* A copy of the message is put on the line.
LEMMA DirWrite ==
    ASSUME NEW T \in 0 .. Mod - 1, NEW R \in 0 .. Mod - 1, NEW pend \in BOOLEAN, NEW pc,
           NEW ix, NEW n \in Nat, NEW m \in Seq(Package), NEW a \in Seq(Package),
           NEW arr \in Seq(Nat), NEW comp,
           Dir(T, R, pend, pc, ix, n, m, a, arr, comp),
           pc \in {"write", "poll"}, NEW x \in Package, IsMsg(x), x.index = ix, x.msg = n
    PROVE  Dir(T, R, pend, pc, ix, n, Append(m, x), a, arr, comp)
  <1> DEFINE t == Append(m, x)
  <1>0. m \in Seq(Package) /\ x \in Package
    OBVIOUS
  <1>1. /\ Len(t) = Len(m) + 1 /\ Len(m) \in Nat /\ t[Len(m) + 1] = x
        /\ \A i \in 1 .. Len(m) : t[i] = m[i]
        /\ \A i \in 1 .. Len(m) + 1 : i \in 1 .. Len(m) \/ i = Len(m) + 1
    BY <1>0, AppendAt, SMTT(20)
  <1> HIDE DEF t
  <1>2. x.index = IF pend THEN NextIndex(T) ELSE T
    BY DEF Dir, IndexSet
  <1>3. ~pend => R = T
    BY DEF Dir, Level
  <1>4. Packages(T, R, pend, pc, n, t)
    <2> SUFFICES ASSUME NEW i \in 1 .. Len(t), IsMsg(t[i])
                 PROVE  \/ t[i].index = T /\ R = T
                        \/ t[i].index = NextIndex(T) /\ pend /\ pc # "set" /\ t[i].msg = n
      BY DEF Packages
    <2>1. CASE i \in 1 .. Len(m)
      BY <2>1, <1>1 DEF Dir, Packages
    <2>2. CASE t[i] = x
      BY <2>2, <1>2, <1>3
    <2> QED BY <2>1, <2>2, <1>1
  <1>5. PackagesOrder(T, t)
    <2> SUFFICES ASSUME NEW i \in 1 .. Len(t), NEW j \in 1 .. Len(t), i < j,
                        IsMsg(t[i]), IsMsg(t[j]), t[i].index # T
                 PROVE  t[j].index # T
      BY DEF PackagesOrder
    <2>1. i \in 1 .. Len(m) /\ t[i] = m[i]
      BY <1>1
    <2>2. CASE j \in 1 .. Len(m)
      <3>1. t[j] = m[j]
        BY <2>2, <1>1
      <3> QED BY <2>1, <2>2, <3>1 DEF Dir, PackagesOrder
    <2>3. CASE t[j] = x
      <3>1. pend
        BY <2>1 DEF Dir, Packages
      <3> QED BY <2>3, <3>1, <1>2, NextFacts
    <2> QED BY <2>2, <2>3, <1>1
  <1> QED BY <1>4, <1>5 DEF Dir, t

\* The call returns true.
LEMMA DirComplete ==
    ASSUME NEW T \in 0 .. Mod - 1, NEW R \in 0 .. Mod - 1, NEW pend \in BOOLEAN, NEW pc,
           NEW ix, NEW n \in Nat, NEW m \in Seq(Package), NEW a \in Seq(Package),
           NEW arr \in Seq(Nat), NEW comp,
           Dir(T, R, pend, pc, ix, n, m, a, arr, comp),
           pc = "poll", ~pend
    PROVE  Dir(T, R, pend, "idle", ix, n, m, a, arr, comp \cup {n})
  <1>1. Level(T, R, pend, "idle") /\ Control(pend, "idle") /\ IndexSet(T, pend, "idle", ix)
    BY DEF Dir, Level, Control, IndexSet
  <1>2. Packages(T, R, pend, "idle", n, m)
    BY DEF Dir, Packages
  <1>3. Accepted(T, R, pend, "idle", n, arr)
    BY DEF Dir, Accepted
  <1>4. Finished(comp \cup {n}, arr)
    BY DEF Dir, Finished, Accepted
  <1> QED BY <1>1, <1>2, <1>3, <1>4 DEF Dir

\* The call gives up while no copy of its message or of an answer is under way and none
\* has arrived.
LEMMA DirGiveUp ==
    ASSUME NEW T \in 0 .. Mod - 1, NEW R \in 0 .. Mod - 1, NEW pend \in BOOLEAN, NEW pc,
           NEW ix, NEW n \in Nat, NEW m \in Seq(Package), NEW a \in Seq(Package),
           NEW arr \in Seq(Nat), NEW comp,
           Dir(T, R, pend, pc, ix, n, m, a, arr, comp),
           pc = "poll", pend,
           \A i \in 1 .. Len(m) : ~IsMsg(m[i]),
           \A i \in 1 .. Len(a) : a[i].type # "ACK",
           \A i \in 1 .. Len(arr) : arr[i] # n
    PROVE  Dir(T, R, FALSE, "idle", ix, n, m, a, arr, comp)
  <1>1. R = T
    BY DEF Dir, Accepted
  <1>2. Level(T, R, FALSE, "idle") /\ Control(FALSE, "idle") /\ IndexSet(T, FALSE, "idle", ix)
    BY <1>1 DEF Level, Control, IndexSet
  <1>3. Packages(T, R, FALSE, "idle", n, m)
    BY DEF Packages
  <1>4. Accepted(T, R, FALSE, "idle", n, arr)
    BY <1>1 DEF Dir, Accepted
  <1> QED BY <1>2, <1>3, <1>4 DEF Dir

\* The last poll took the acknowledgement in: the call returns false all the same.
LEMMA DirLate ==
    ASSUME NEW T \in 0 .. Mod - 1, NEW R \in 0 .. Mod - 1, NEW pend \in BOOLEAN, NEW pc,
           NEW ix, NEW n \in Nat, NEW m \in Seq(Package), NEW a \in Seq(Package),
           NEW arr \in Seq(Nat), NEW comp,
           Dir(T, R, pend, pc, ix, n, m, a, arr, comp),
           pc = "poll", ~pend
    PROVE  Dir(T, R, pend, "idle", ix, n, m, a, arr, comp)
  <1>1. Level(T, R, pend, "idle") /\ Control(pend, "idle") /\ IndexSet(T, pend, "idle", ix)
    BY DEF Dir, Level, Control, IndexSet
  <1>2. Packages(T, R, pend, "idle", n, m)
    BY DEF Dir, Packages
  <1>3. Accepted(T, R, pend, "idle", n, arr)
    BY DEF Dir, Accepted
  <1> QED BY <1>1, <1>2, <1>3 DEF Dir

\* The receiver acknowledges its index.
LEMMA DirAnswer ==
    ASSUME NEW T \in 0 .. Mod - 1, NEW R \in 0 .. Mod - 1, NEW pend \in BOOLEAN, NEW pc,
           NEW ix, NEW n \in Nat, NEW m \in Seq(Package), NEW a \in Seq(Package),
           NEW arr \in Seq(Nat), NEW comp,
           Dir(T, R, pend, pc, ix, n, m, a, arr, comp),
           NEW x \in Package, x.type = "ACK", x.index = R
    PROVE  Dir(T, R, pend, pc, ix, n, m, Append(a, x), arr, comp)
  <1> DEFINE t == Append(a, x)
  <1>1. /\ Len(t) = Len(a) + 1 /\ Len(a) \in Nat /\ t[Len(a) + 1] = x
        /\ \A i \in 1 .. Len(a) : t[i] = a[i]
        /\ \A i \in 1 .. Len(a) + 1 : i \in 1 .. Len(a) \/ i = Len(a) + 1
    BY AppendAt
  <1> HIDE DEF t
  <1>2. Acks(T, R, t)
    <2> SUFFICES ASSUME NEW i \in 1 .. Len(t), t[i].type = "ACK"
                 PROVE  t[i].index = T \/ (t[i].index = NextIndex(T) /\ R # T)
      BY DEF Acks
    <2>1. CASE i \in 1 .. Len(a)
      BY <2>1, <1>1 DEF Dir, Acks
    <2>2. CASE t[i] = x
      BY <2>2 DEF Dir, Level
    <2> QED BY <2>1, <2>2, <1>1
  <1>3. AcksOrder(T, t)
    <2> SUFFICES ASSUME NEW i \in 1 .. Len(t), NEW j \in 1 .. Len(t), i < j,
                        t[i].type = "ACK", t[j].type = "ACK", t[i].index # T
                 PROVE  t[j].index # T
      BY DEF AcksOrder
    <2>1. i \in 1 .. Len(a) /\ t[i] = a[i]
      BY <1>1
    <2>2. CASE j \in 1 .. Len(a)
      <3>1. t[j] = a[j]
        BY <2>2, <1>1
      <3> QED BY <2>1, <2>2, <3>1 DEF Dir, AcksOrder
    <2>3. CASE t[j] = x
      <3>1. R # T
        BY <2>1 DEF Dir, Acks
      <3> QED BY <2>3, <3>1
    <2> QED BY <2>2, <2>3, <1>1
  <1> QED BY <1>2, <1>3 DEF Dir, t

\* The receiver accepts a package with another index than its own.
LEMMA DirNew ==
    ASSUME NEW T \in 0 .. Mod - 1, NEW R \in 0 .. Mod - 1, NEW pend \in BOOLEAN, NEW pc,
           NEW ix, NEW n \in Nat, NEW m \in Seq(Package), NEW a \in Seq(Package),
           NEW arr \in Seq(Nat), NEW comp,
           Dir(T, R, pend, pc, ix, n, m, a, arr, comp),
           m # <<>>, IsMsg(m[1]), m[1].index # R, n > 0
    PROVE  /\ m[1].index \in 0 .. Mod - 1 /\ m[1].msg = n
           /\ Dir(T, m[1].index, pend, pc, ix, n, m, a, Append(arr, m[1].msg), comp)
  <1> DEFINE S == m[1].index
             ar == Append(arr, n)
  <1>1. Len(m) \in Nat /\ Len(m) > 0
    BY TailAt
  <1>2. 1 \in 1 .. Len(m)
    BY <1>1
  <1>3. S = NextIndex(T) /\ pend /\ pc # "set" /\ m[1].msg = n
    BY <1>2 DEF Dir, Packages
  <1>4. R = T /\ S # T
    BY <1>3, NextFacts DEF Dir, Level
  <1>5. S \in 0 .. Mod - 1
    BY <1>3, NextFacts
  <1>6. /\ Len(ar) = Len(arr) + 1 /\ Len(arr) \in Nat /\ ar[Len(arr) + 1] = n
        /\ \A i \in 1 .. Len(arr) : ar[i] = arr[i]
        /\ \A i \in 1 .. Len(arr) + 1 : i \in 1 .. Len(arr) \/ i = Len(arr) + 1
    BY AppendAt
  <1>a. \A i \in 1 .. Len(arr) : arr[i] \in Nat
    OBVIOUS
  <1>7. Append(arr, m[1].msg) = ar
    BY <1>3
  <1> HIDE DEF S, ar
  <1>8. Level(T, S, pend, pc)
    BY <1>3 DEF Level
  <1>9. \A i \in 1 .. Len(m) : IsMsg(m[i]) =>
            m[i].index = NextIndex(T) /\ m[i].msg = n /\ m[i].index # T
    <2> SUFFICES ASSUME NEW i \in 1 .. Len(m), IsMsg(m[i])
                 PROVE  m[i].index = NextIndex(T) /\ m[i].msg = n /\ m[i].index # T
      OBVIOUS
    <2>1. CASE i = 1
      BY <2>1, <1>3, <1>4 DEF S
    <2>2. CASE 1 < i
      <3>1. m[i].index # T
        BY <2>2, <1>2, <1>4 DEF Dir, PackagesOrder, S
      <3> QED BY <3>1 DEF Dir, Packages
    <2> QED BY <2>1, <2>2, <1>1
  <1>10. Packages(T, S, pend, pc, n, m)
    BY <1>3, <1>9 DEF Packages
  <1>11. PackagesOrder(T, m)
    BY <1>9 DEF PackagesOrder
  <1>12. Acks(T, S, a)
    BY <1>3, <1>4 DEF Dir, Acks
  <1>13. Accepted(T, S, pend, pc, n, ar)
    <2>1. \A i \in 1 .. Len(arr) : arr[i] < n /\ arr[i] \in Nat
      BY <1>3, <1>4, <1>a DEF Dir, Accepted
    <2>2. Increasing(ar)
      <3> SUFFICES ASSUME NEW i \in 1 .. Len(ar), NEW j \in 1 .. Len(ar), i < j
                   PROVE  ar[i] < ar[j]
        BY DEF Increasing
      <3>1. i \in 1 .. Len(arr) /\ ar[i] = arr[i]
        BY <1>6
      <3>2. CASE j \in 1 .. Len(arr)
        <4>1. ar[j] = arr[j]
          BY <3>2, <1>6
        <4> QED BY <3>1, <3>2, <4>1 DEF Dir, Accepted, Increasing
      <3>3. CASE ar[j] = n
        BY <3>1, <3>3, <2>1
      <3> QED BY <3>2, <3>3, <1>6
    <2>3. \A i \in 1 .. Len(ar) : ar[i] <= n
      <3> SUFFICES ASSUME NEW i \in 1 .. Len(ar)
                   PROVE  ar[i] <= n
        OBVIOUS
      <3>1. CASE i \in 1 .. Len(arr)
        <4>1. ar[i] = arr[i]
          BY <3>1, <1>6
        <4>2. arr[i] < n /\ arr[i] \in Nat
          BY <3>1, <2>1
        <4> QED BY <4>1, <4>2
      <3>2. CASE i = Len(arr) + 1
        BY <3>2, <1>6
      <3> QED BY <3>1, <3>2, <1>6
    <2>4. \E i \in 1 .. Len(ar) : ar[i] = n
      <3>1. Len(arr) + 1 \in 1 .. Len(ar)
        BY <1>6
      <3> QED BY <3>1, <1>6
    <2> QED BY <2>2, <2>3, <2>4, <1>4 DEF Accepted
  <1>14. Finished(comp, ar)
    <2>1. 1 .. Len(arr) \subseteq 1 .. Len(ar)
      BY <1>6
    <2> QED BY <2>1, <1>6 DEF Dir, Finished
  <1>15. Dir(T, S, pend, pc, ix, n, m, a, ar, comp)
    BY <1>8, <1>10, <1>11, <1>12, <1>13, <1>14 DEF Dir
  <1> QED BY <1>3, <1>5, <1>7, <1>15 DEF S

\* The sender takes the acknowledgement it waits for.
LEMMA DirAck ==
    ASSUME NEW T \in 0 .. Mod - 1, NEW R \in 0 .. Mod - 1, NEW pend \in BOOLEAN, NEW pc,
           NEW ix, NEW n \in Nat, NEW m \in Seq(Package), NEW a \in Seq(Package),
           NEW arr \in Seq(Nat), NEW comp,
           Dir(T, R, pend, pc, ix, n, m, a, arr, comp),
           NEW q \in BOOLEAN, ~q, a # <<>>, IsAck(a[1]), a[1].index # T
    PROVE  Dir(R, R, q, pc, ix, n, m, Tail(a), arr, comp)
  <1> DEFINE t == Tail(a)
  <1>1. /\ Len(t) = Len(a) - 1 /\ Len(a) \in Nat /\ Len(a) > 0
        /\ \A i \in 1 .. Len(t) : t[i] = a[i + 1] /\ i + 1 \in 1 .. Len(a)
    BY TailAt
  <1>2. 1 \in 1 .. Len(a)
    BY <1>1
  <1>3. R # T /\ a[1].index = NextIndex(T)
    BY <1>2, NextFacts DEF Dir, Acks, IsAck
  <1>4. R = NextIndex(T) /\ pend /\ pc # "set"
    BY <1>3 DEF Dir, Level
  <1> HIDE DEF t
  <1>5. Level(R, R, q, pc) /\ Control(q, pc) /\ IndexSet(R, q, pc, ix)
    BY <1>4 DEF Level, Dir, Control, IndexSet
  <1>6. \A i \in 1 .. Len(m) : IsMsg(m[i]) => m[i].index = R
    BY <1>3, <1>4 DEF Dir, Packages
  <1>7. Packages(R, R, q, pc, n, m) /\ PackagesOrder(R, m)
    BY <1>6 DEF Packages, PackagesOrder
  <1>8. \A i \in 1 .. Len(t) : t[i].type = "ACK" => t[i].index = R
    <2> SUFFICES ASSUME NEW i \in 1 .. Len(t), t[i].type = "ACK"
                 PROVE  t[i].index = R
      OBVIOUS
    <2>1. t[i] = a[i + 1] /\ i + 1 \in 1 .. Len(a) /\ 1 < i + 1
      BY <1>1
    <2>2. t[i].index # T
      BY <2>1, <1>2, <1>3 DEF Dir, AcksOrder, IsAck
    <2> QED BY <2>1, <2>2, <1>4 DEF Dir, Acks
  <1>9. Acks(R, R, t) /\ AcksOrder(R, t)
    BY <1>8 DEF Acks, AcksOrder
  <1>10. Accepted(R, R, q, pc, n, arr)
    BY <1>3 DEF Dir, Accepted
  <1> QED BY <1>3, <1>4, <1>5, <1>7, <1>9, <1>10 DEF Dir, t

\* The end that synchronises is done with it.
LEMMA DirIdle ==
    ASSUME NEW T \in 0 .. Mod - 1, NEW R \in 0 .. Mod - 1, NEW pend \in BOOLEAN, NEW pc,
           NEW ix, NEW n \in Nat, NEW m \in Seq(Package), NEW a \in Seq(Package),
           NEW arr \in Seq(Nat), NEW comp,
           Dir(T, R, pend, pc, ix, n, m, a, arr, comp),
           pc = "sync"
    PROVE  Dir(T, R, pend, "idle", ix, n, m, a, arr, comp)
  <1>1. ~pend
    BY DEF Dir, Control, Busy
  <1>2. Level(T, R, pend, "idle") /\ Control(pend, "idle") /\ IndexSet(T, pend, "idle", ix)
    BY <1>1 DEF Dir, Level, Control, IndexSet
  <1>3. Packages(T, R, pend, "idle", n, m)
    BY <1>1 DEF Dir, Packages
  <1>4. Accepted(T, R, pend, "idle", n, arr)
    BY <1>1 DEF Dir, Accepted
  <1> QED BY <1>2, <1>3, <1>4 DEF Dir

-----------------------------------------------------------------------------
(* The lines.                                                               *)

\* The other end of the other end.
LEMMA PeerFacts ==
    ASSUME NEW e \in Ends
    PROVE  /\ Peer(e) \in Ends /\ Peer(e) # e /\ Peer(Peer(e)) = e
           /\ \A x \in Ends : x = e \/ x = Peer(e)
  BY DEF Ends, Peer

\* What Put does to the two lines.
LEMMA PutFacts ==
    ASSUME NEW l \in [Ends -> Seq(Package)], NEW e \in Ends, NEW x \in Package
    PROVE  /\ Put(l, e, x) \in [Ends -> Seq(Package)]
           /\ Put(l, e, x)[Peer(e)] = l[Peer(e)]
           /\ Put(l, e, x)[e] = Append(l[e], x)
  <1>1. l[e] \in Seq(Package) /\ Append(l[e], x) \in Seq(Package)
    OBVIOUS
  <1>2. Put(l, e, x) = [l EXCEPT ![e] = Append(l[e], x)]
    BY DEF Put
  <1> QED BY <1>1, <1>2, PeerFacts

\* A line with room is not longer than it may be with one package more.
LEMMA RoomFacts ==
    ASSUME NEW e, Room(e), Len(line[e]) \in Nat
    PROVE  Len(line[e]) < LineCap + 1
  <1>1. LineCap \in Nat
    BY JwpAssumption
  <1>2. CASE InUse(e)
    BY <1>1, <1>2 DEF Room
  <1>3. CASE ~InUse(e)
    <2>1. Len(line[e]) < LineCap + 0
      BY <1>3 DEF Room
    <2> QED BY <1>1, <2>1
  <1> QED BY <1>2, <1>3

\* What Took does to the two lines.
LEMMA TookFacts ==
    ASSUME LinkTypes, NEW e \in Ends, line[e] # <<>>
    PROVE  /\ Took(e) \in [Ends -> Seq(Package)]
           /\ Took(e)[e] = Tail(line[e]) /\ Took(e)[Peer(e)] = line[Peer(e)]
           /\ line[e] \in Seq(Package) /\ line[e][1] \in Package
  <1>1. line \in [Ends -> Seq(Package)] /\ line[e] \in Seq(Package)
    BY DEF LinkTypes
  <1>2. Tail(line[e]) \in Seq(Package) /\ line[e][1] \in Package
    BY <1>1
  <1> QED BY <1>1, <1>2, PeerFacts DEF Took

\* Packages.
LEMMA PackageFacts ==
    /\ \A i \in 0 .. Mod - 1, n \in Nat :
        [type |-> TypeOf(n), index |-> i, msg |-> n] \in Package /\ TypeOf(n) \in {"DATA", "CMD"}
    /\ \A i \in 0 .. Mod - 1 : [type |-> "ACK", index |-> i] \in Package
    /\ [type |-> "SYNC", index |-> 0] \in Package
    /\ \A x \in Package : IsMsg(x) => x.msg \in Nat
    /\ \A x \in Package : x.index \in 0 .. Mod - 1
    /\ \A x \in Package : x.type \in {"DATA", "CMD", "ACK", "SYNC"}
  <1>1. \A i \in 0 .. Mod - 1, n \in Nat :
            [type |-> TypeOf(n), index |-> i, msg |-> n] \in Package /\ TypeOf(n) \in {"DATA", "CMD"}
    BY DEF TypeOf, Package
  <1>2. \A i \in 0 .. Mod - 1 : [type |-> "ACK", index |-> i] \in Package
    BY DEF Package
  <1>3. [type |-> "SYNC", index |-> 0] \in Package
    <2>1. 0 \in 0 .. Mod - 1
      BY JwpAssumption
    <2> QED BY <2>1 DEF Package
  <1>4. \A x \in Package : IsMsg(x) => x.msg \in Nat
    BY DEF Package, IsMsg
  <1>5. \A x \in Package : x.index \in 0 .. Mod - 1
    BY DEF Package
  <1>6. \A x \in Package : x.type \in {"DATA", "CMD", "ACK", "SYNC"}
    BY DEF Package
  <1> QED BY <1>1, <1>2, <1>3, <1>4, <1>5, <1>6

\* Taking the first package leaves the others' messages as they are.
LEMMA MessagesTail ==
    ASSUME NEW l \in Seq(Package), NEW n, Messages(l, n), l # <<>>
    PROVE  Messages(Tail(l), n)
  <1>1. \A i \in 1 .. Len(Tail(l)) : Tail(l)[i] = l[i + 1] /\ i + 1 \in 1 .. Len(l)
    BY TailAt
  <1> QED BY <1>1 DEF Messages

\* A message in range may follow.
LEMMA MessagesAppend ==
    ASSUME NEW l \in Seq(Package), NEW n, Messages(l, n), NEW x \in Package,
           IsMsg(x) => x.msg \in 1 .. n
    PROVE  Messages(Append(l, x), n)
  <1>1. /\ Len(Append(l, x)) = Len(l) + 1 /\ Append(l, x)[Len(l) + 1] = x
        /\ \A i \in 1 .. Len(l) : Append(l, x)[i] = l[i]
        /\ \A i \in 1 .. Len(l) + 1 : i \in 1 .. Len(l) \/ i = Len(l) + 1
    BY AppendAt
  <1> QED BY <1>1 DEF Messages

-----------------------------------------------------------------------------
(* Types.                                                                   *)

LineOK(l, n) == l \in Seq(Package) /\ Len(l) <= LineCap + 1 /\ Messages(l, n)

\* A package put on a line leaves it well-formed.
LEMMA PutOK ==
    ASSUME NEW l \in [Ends -> Seq(Package)], NEW e \in Ends, NEW x \in Package, NEW n,
           LineOK(l[e], n), Len(l[e]) < LineCap + 1, IsMsg(x) => x.msg \in 1 .. n
    PROVE  LineOK(Put(l, e, x)[e], n)
  <1>1. Put(l, e, x)[e] = Append(l[e], x)
    BY PutFacts
  <1>2. Append(l[e], x) \in Seq(Package) /\ Len(Append(l[e], x)) = Len(l[e]) + 1 /\ Len(l[e]) \in Nat
    BY AppendAt
  <1>3. Len(Append(l[e], x)) <= LineCap + 1
    BY <1>2, JwpAssumption
  <1> QED BY <1>1, <1>2, <1>3, MessagesAppend DEF LineOK

\* So does taking its first.
LEMMA TailOK ==
    ASSUME NEW l, NEW n, LineOK(l, n), l # <<>>
    PROVE  LineOK(Tail(l), n)
  <1>1. Tail(l) \in Seq(Package) /\ Len(Tail(l)) = Len(l) - 1 /\ Len(l) \in Nat
    BY TailAt DEF LineOK
  <1>2. Len(Tail(l)) <= LineCap + 1
    BY <1>1, JwpAssumption DEF LineOK
  <1> QED BY <1>1, <1>2, MessagesTail DEF LineOK

LinesOK == /\ line \in [Ends -> Seq(Package)]
           /\ \A x \in Ends : LineOK(line[x], sent[Peer(x)])

\* A package is in rx_pkg while a thread processes it.
StagesOK == /\ at \in [Ends -> [Fillers -> Stages]]
            /\ \A x \in Ends : InUse(x) => line[x] # <<>>

TypeInv == LinkTypes /\ \A e \in Ends : Numbered(e)

\* The type of each variable and the numbers that go with it.
LEMMA TypeFacts ==
    ASSUME TypeInv
    PROVE  /\ tx_index \in [Ends -> 0 .. Mod - 1] /\ rx_index \in [Ends -> 0 .. Mod - 1]
           /\ index \in [Ends -> 0 .. Mod - 1]
           /\ send_pendding \in [Ends -> BOOLEAN]
           /\ tpc \in [Ends -> {"idle", "set", "write", "poll", "sync"}]
           /\ retry \in [Ends -> 0 .. Tries]
           /\ sent \in [Ends -> Nat]
           /\ data \in [Ends -> Seq(Nat)]
           /\ arrived \in [Ends -> Seq(Nat)]
           /\ completed \in [Ends -> SUBSET Nat]
           /\ LinesOK /\ StagesOK
  BY DEF TypeInv, LinkTypes, LinesOK, StagesOK, Numbered, LineOK

\* The other thread.
LEMMA OtherFacts ==
    ASSUME NEW t \in Fillers
    PROVE  /\ Other(t) \in Fillers /\ Other(t) # t /\ Other(Other(t)) = t
           /\ \A u \in Fillers : u = t \/ u = Other(t)
  BY DEF Fillers, Other

\* A thread goes to another stage.
LEMMA MovesFacts ==
    ASSUME at \in [Ends -> [Fillers -> Stages]], NEW e \in Ends, NEW t \in Fillers,
           NEW g \in Stages, Moves(e, t, g)
    PROVE  /\ at' \in [Ends -> [Fillers -> Stages]]
           /\ at'[e][t] = g /\ at'[e][Other(t)] = at[e][Other(t)] /\ at'[Peer(e)] = at[Peer(e)]
  <1>1. at' = [at EXCEPT ![e] = [at[e] EXCEPT ![t] = g]]
    BY DEF Moves
  <1>2. at[e] \in [Fillers -> Stages]
    OBVIOUS
  <1>3. [at[e] EXCEPT ![t] = g] \in [Fillers -> Stages]
    BY <1>2
  <1>4. at'[e] = [at[e] EXCEPT ![t] = g] /\ at'[Peer(e)] = at[Peer(e)]
    BY <1>1, PeerFacts
  <1>5. at' \in [Ends -> [Fillers -> Stages]]
    BY <1>1, <1>3
  <1>6. at'[e][t] = g /\ at'[e][Other(t)] = at[e][Other(t)]
    BY <1>2, <1>4, OtherFacts
  <1> QED BY <1>4, <1>5, <1>6

\* The line once a thread is done with the package.
LEMMA FreedFacts ==
    ASSUME LinkTypes, NEW e \in Ends, NEW t \in Fillers, line[e] # <<>>
    PROVE  /\ Freed(e, t) \in [Ends -> Seq(Package)] /\ Freed(e, t)[Peer(e)] = line[Peer(e)]
           /\ at[e][Other(t)] = "none" => Freed(e, t) = Took(e)
           /\ at[e][Other(t)] # "none" => Freed(e, t) = line
           /\ Freed(e, t)[e] = Tail(line[e]) \/ Freed(e, t)[e] = line[e]
  <1>1. line \in [Ends -> Seq(Package)]
    BY DEF LinkTypes
  <1> QED BY <1>1, TookFacts DEF Freed

\* The header of the next package is written over that of the first.
LEMMA PartOK ==
    ASSUME NEW l \in Seq(Package), NEW n, LineOK(l, n), Len(l) > 1
    PROVE  LineOK([l EXCEPT ![1] = l[2]], n) /\ [l EXCEPT ![1] = l[2]] # <<>>
  <1> DEFINE k == [l EXCEPT ![1] = l[2]]
  <1>1. Len(l) \in Nat /\ DOMAIN l = 1 .. Len(l) /\ 1 \in 1 .. Len(l) /\ 2 \in 1 .. Len(l)
    OBVIOUS
  <1>2. k \in Seq(Package) /\ Len(k) = Len(l)
    BY <1>1
  <1>3. \A i \in 1 .. Len(l) : k[i] = l[i] \/ k[i] = l[2]
    BY <1>1
  <1> HIDE DEF k
  <1>4. Messages(k, n)
    BY <1>1, <1>2, <1>3 DEF LineOK, Messages
  <1>5. k # <<>>
    BY <1>1, <1>2
  <1> QED BY <1>2, <1>4, <1>5 DEF LineOK, k

\* The lines stay well-formed.
LEMMA LinesKeep ==
    ASSUME TypeInv, NEW e \in Ends, Step(e)
    PROVE  LinesOK'
  <1> DEFINE f == Peer(e)
  <1>p. f \in Ends /\ f # e /\ Peer(f) = e /\ \A x \in Ends : x = e \/ x = f
    BY PeerFacts
  <1>t. /\ line \in [Ends -> Seq(Package)] /\ LineOK(line[e], sent[f]) /\ LineOK(line[f], sent[e])
        /\ sent \in [Ends -> Nat] /\ index \in [Ends -> 0 .. Mod - 1]
    BY <1>p, TypeFacts DEF LinesOK
  <1>r. Room(f) => Len(line[f]) < LineCap + 1
    BY <1>p, <1>t, RoomFacts
  <1>u. \A t \in Fillers : at[e][t] # "none" => line[e] # <<>>
    BY TypeFacts DEF StagesOK, InUse
  <1> HIDE DEF f
  <1>s. SUFFICES ASSUME TRUE
                 PROVE  /\ line' \in [Ends -> Seq(Package)]
                        /\ LineOK(line'[e], sent'[f]) /\ LineOK(line'[f], sent'[e])
    BY <1>p DEF LinesOK, LineOK, Messages, f, IsMsg
  <1>1. CASE jwp_send_package(e)
    <2>1. line' = line /\ sent' = [sent EXCEPT ![e] = @ + 1]
      BY <1>1 DEF jwp_send_package
    <2>2. sent'[f] = sent[f] /\ sent'[e] = sent[e] + 1 /\ sent[e] \in Nat
      BY <2>1, <1>t, <1>p
    <2>3. 1 .. sent[e] \subseteq 1 .. sent'[e]
      BY <2>2
    <2> QED BY <2>1, <2>2, <2>3, <1>t DEF LineOK, Messages
  <1>2. CASE Write(e)
    <2> DEFINE x == [type |-> TypeOf(sent[e]), index |-> index[e], msg |-> sent[e]]
    <2>1. line' = Put(line, f, x) /\ sent' = sent /\ tpc[e] = "write" /\ Room(f)
      BY <1>2 DEF Write, f
    <2>2. x \in Package /\ IsMsg(x) /\ x.msg = sent[e]
      BY <1>t, PackageFacts DEF IsMsg
    <2>3. sent[e] \in 1 .. sent[e]
      BY <2>1, <1>t DEF TypeInv, Numbered, Busy
    <2> HIDE DEF x
    <2>4. LineOK(line'[f], sent[e])
      BY <2>1, <2>2, <2>3, <1>r, <1>t, <1>p, PutOK
    <2>5. line' \in [Ends -> Seq(Package)] /\ line'[e] = line[e]
      BY <2>1, <2>2, <1>t, <1>p, PutFacts
    <2> QED BY <2>1, <2>4, <2>5, <1>t
  <1>3. CASE jwp_send_sync(e)
    <2> DEFINE x == [type |-> "SYNC", index |-> 0]
    <2>1. line' = Put(line, f, x) /\ sent' = sent /\ Room(f)
      BY <1>3 DEF jwp_send_sync, f
    <2>2. x \in Package /\ ~IsMsg(x)
      BY PackageFacts DEF IsMsg
    <2> HIDE DEF x
    <2>4. LineOK(line'[f], sent[e])
      BY <2>1, <2>2, <1>r, <1>t, <1>p, PutOK
    <2>5. line' \in [Ends -> Seq(Package)] /\ line'[e] = line[e]
      <3>1. f \in Ends /\ Peer(f) = e /\ line \in [Ends -> Seq(Package)] /\ x \in Package
        BY <2>2, <1>t, <1>p
      <3> QED BY <2>1, <3>1, PutFacts
    <2> QED BY <2>1, <2>4, <2>5, <1>t
  <1>4. ASSUME NEW t \in Fillers, jwp_send_ack_package(e, t)
        PROVE  /\ line' \in [Ends -> Seq(Package)]
               /\ LineOK(line'[e], sent'[f]) /\ LineOK(line'[f], sent'[e])
    <2> DEFINE x == [type |-> "ACK", index |-> line[e][1].index]
    <2>1. /\ line' = Put(Freed(e, t), f, x) /\ sent' = sent /\ Room(f) /\ line[e] # <<>>
      BY <1>4, <1>u DEF jwp_send_ack_package, sender, f
    <2>2. x \in Package /\ ~IsMsg(x)
      BY <2>1, <1>t, TookFacts, PackageFacts DEF IsMsg, TypeInv
    <2>3. /\ Freed(e, t) \in [Ends -> Seq(Package)] /\ Freed(e, t)[f] = line[f]
          /\ Freed(e, t)[e] = Tail(line[e]) \/ Freed(e, t)[e] = line[e]
      BY <2>1, FreedFacts DEF TypeInv, f
    <2> HIDE DEF x
    <2>4. LineOK(line'[f], sent[e])
      BY <2>1, <2>2, <2>3, <1>r, <1>t, <1>p, PutOK
    <2>5. line' \in [Ends -> Seq(Package)] /\ line'[e] = Freed(e, t)[e]
      BY <2>1, <2>2, <2>3, <1>p, PutFacts
    <2>6. LineOK(Tail(line[e]), sent[f])
      BY <2>1, <1>t, TailOK
    <2> QED BY <2>1, <2>3, <2>4, <2>5, <2>6, <1>t
  <1>5. ASSUME NEW t \in Fillers, RecvThrow(e, t) \/ RecvAck(e, t) \/ RecvSync(e, t)
        PROVE  /\ line' \in [Ends -> Seq(Package)]
               /\ LineOK(line'[e], sent'[f]) /\ LineOK(line'[f], sent'[e])
    <2>1. line' = Freed(e, t) /\ sent' = sent /\ line[e] # <<>>
      BY <1>5, <1>u DEF RecvThrow, RecvAck, RecvSync, MayRun, Done, sender
    <2>2. /\ line' \in [Ends -> Seq(Package)] /\ line'[f] = line[f]
          /\ line'[e] = Tail(line[e]) \/ line'[e] = line[e]
      BY <2>1, FreedFacts DEF TypeInv, f
    <2>3. LineOK(Tail(line[e]), sent[f])
      BY <2>1, <1>t, TailOK
    <2> QED BY <2>1, <2>2, <2>3, <1>t
  <1>6. CASE \/ jwp_set_package_index(e) \/ jwp_wait_tx_complete(e) \/ Retry(e) \/ GiveUp(e)
             \/ jwp_index_init(e) \/ jwp_process_data(e)
    <2>1. line' = line /\ sent' = sent
      BY <1>6 DEF jwp_set_package_index, jwp_wait_tx_complete, Retry, GiveUp, jwp_index_init,
                  jwp_process_data, sender
    <2> QED BY <2>1, <1>t
  <1>7. ASSUME NEW t \in Fillers, Fill(e, t) \/ RecvAgain(e, t) \/ RecvNew(e, t) \/ RecvAccept(e, t)
        PROVE  /\ line' \in [Ends -> Seq(Package)]
               /\ LineOK(line'[e], sent'[f]) /\ LineOK(line'[f], sent'[e])
    <2>1. sent' = sent /\ (line' = line \/ (line' = Took(e) /\ line[e] # <<>>))
      BY <1>7 DEF Fill, RecvAgain, RecvNew, RecvAccept, sender
    <2>2. CASE line' = Took(e) /\ line[e] # <<>>
      <3>1. Took(e) \in [Ends -> Seq(Package)] /\ Took(e)[e] = Tail(line[e]) /\ Took(e)[f] = line[f]
        BY <2>2, TookFacts DEF TypeInv, f
      <3>2. LineOK(Tail(line[e]), sent[f])
        BY <2>2, <1>t, TailOK
      <3> QED BY <2>1, <2>2, <3>1, <3>2, <1>t
    <2> QED BY <2>1, <2>2, <1>t
  <1>8. ASSUME NEW t \in Fillers, FillPart(e, t)
        PROVE  /\ line' \in [Ends -> Seq(Package)]
               /\ LineOK(line'[e], sent'[f]) /\ LineOK(line'[f], sent'[e])
    <2>1. /\ sent' = sent /\ Len(line[e]) > 1
          /\ line' = [line EXCEPT ![e] = [line[e] EXCEPT ![1] = line[e][2]]]
      BY <1>8 DEF FillPart, sender
    <2>2. LineOK([line[e] EXCEPT ![1] = line[e][2]], sent[f])
      BY <2>1, <1>t, PartOK
    <2>3. /\ line' \in [Ends -> Seq(Package)] /\ line'[f] = line[f]
          /\ line'[e] = [line[e] EXCEPT ![1] = line[e][2]]
      BY <2>1, <2>2, <1>t, <1>p DEF LineOK
    <2> QED BY <2>1, <2>2, <2>3, <1>t
  <1>9. CASE Lose(e)
    <2>1. line' = Took(e) /\ sent' = sent /\ line[e] # <<>>
      BY <1>9 DEF Lose, sender
    <2>2. Took(e) \in [Ends -> Seq(Package)] /\ Took(e)[e] = Tail(line[e]) /\ Took(e)[f] = line[f]
      BY <2>1, TookFacts DEF TypeInv, f
    <2>3. LineOK(Tail(line[e]), sent[f])
      BY <2>1, <1>t, TailOK
    <2> QED BY <2>1, <2>2, <2>3, <1>t
  <1> QED BY <1>1, <1>2, <1>3, <1>4, <1>5, <1>6, <1>7, <1>8, <1>9 DEF Step, Sending, Filling, Process

\* rx_pkg holds a package as long as a thread processes it.
LEMMA StagesKeep ==
    ASSUME TypeInv, NEW e \in Ends, Step(e)
    PROVE  StagesOK'
  <1>f. PICK f : f = Peer(e)
    OBVIOUS
  <1>p. f \in Ends /\ f # e /\ Peer(f) = e /\ \A x \in Ends : x = e \/ x = f
    BY <1>f, PeerFacts
  <1>t. /\ line \in [Ends -> Seq(Package)] /\ at \in [Ends -> [Fillers -> Stages]]
        /\ index \in [Ends -> 0 .. Mod - 1] /\ sent \in [Ends -> Nat]
    BY TypeFacts DEF LinesOK, StagesOK
  <1>u. /\ (\E t \in Fillers : at[e][t] # "none") => line[e] # <<>>
        /\ (\E t \in Fillers : at[f][t] # "none") => line[f] # <<>>
    BY <1>p, TypeFacts DEF StagesOK, InUse
  <1>g. {"none", "check", "set", "ack"} = Stages
    BY DEF Stages
  <1>s. SUFFICES ASSUME TRUE
                 PROVE  /\ at' \in [Ends -> [Fillers -> Stages]]
                        /\ (\E t \in Fillers : at'[e][t] # "none") => line'[e] # <<>>
                        /\ (\E t \in Fillers : at'[f][t] # "none") => line'[f] # <<>>
    BY <1>p DEF StagesOK, InUse
  <1>a. \A l \in Seq(Package), x \in Package : Append(l, x) # <<>>
    <2> SUFFICES ASSUME NEW l \in Seq(Package), NEW x \in Package
                 PROVE  Append(l, x) # <<>>
      OBVIOUS
    <2>1. Len(Append(l, x)) = Len(l) + 1 /\ Len(l) \in Nat
      BY AppendAt
    <2> QED BY <2>1
  <1>1. CASE \/ jwp_send_package(e) \/ jwp_set_package_index(e) \/ jwp_wait_tx_complete(e)
             \/ Retry(e) \/ GiveUp(e) \/ jwp_index_init(e) \/ jwp_process_data(e)
    <2>1. line' = line /\ at' = at
      BY <1>1 DEF jwp_send_package, jwp_set_package_index, jwp_wait_tx_complete, Retry, GiveUp,
                  jwp_index_init, jwp_process_data
    <2> QED BY <2>1, <1>t, <1>u
  <1>2. CASE Write(e) \/ jwp_send_sync(e)
    <2>1. at' = at /\ \E x \in Package : line' = Put(line, f, x)
      <3>1. CASE Write(e)
        <4>1. [type |-> TypeOf(sent[e]), index |-> index[e], msg |-> sent[e]] \in Package
          BY <1>t, PackageFacts
        <4> QED BY <3>1, <4>1, <1>f DEF Write
      <3>2. CASE jwp_send_sync(e)
        <4>1. [type |-> "SYNC", index |-> 0] \in Package
          BY PackageFacts
        <4> QED BY <3>2, <4>1, <1>f DEF jwp_send_sync
      <3> QED BY <1>2, <3>1, <3>2
    <2>2. line'[e] = line[e] /\ line'[f] # <<>>
      <3>1. PICK x \in Package : line' = Put(line, f, x)
        BY <2>1
      <3>2. /\ Put(line, f, x)[Peer(f)] = line[Peer(f)]
            /\ Put(line, f, x)[f] = Append(line[f], x) /\ line[f] \in Seq(Package)
        <4>1. f \in Ends /\ line \in [Ends -> Seq(Package)] /\ x \in Package
          BY <1>p, <1>t
        <4>2. line[f] \in Seq(Package)
          BY <4>1
        <4> QED BY <4>1, <4>2, PutFacts
      <3> QED BY <3>1, <3>2, <1>a, <1>p
    <2> QED BY <2>1, <2>2, <1>t, <1>u
  <1>3. CASE Lose(e)
    <2>1. at' = at /\ line' = Took(e) /\ line[e] # <<>> /\ ~\E t \in Fillers : at[e][t] # "none"
      BY <1>3 DEF Lose, InUse
    <2>2. line'[f] = line[f]
      BY <2>1, <1>f, TookFacts DEF TypeInv
    <2> QED BY <2>1, <2>2, <1>t, <1>u
  <1>4. ASSUME NEW t \in Fillers, RecvAgain(e, t) \/ RecvNew(e, t) \/ RecvAccept(e, t)
        PROVE  /\ at' \in [Ends -> [Fillers -> Stages]]
               /\ line'[e] # <<>> /\ at'[f] = at[f] /\ line'[f] = line[f]
    <2>1. /\ line' = line /\ at[e][t] # "none"
          /\ Moves(e, t, "ack") \/ Moves(e, t, "set")
      BY <1>4 DEF RecvAgain, RecvNew, RecvAccept, MayRun
    <2>2. at' \in [Ends -> [Fillers -> Stages]] /\ at'[f] = at[f]
      BY <2>1, <1>f, <1>g, <1>t, MovesFacts
    <2> QED BY <2>1, <2>2, <1>u
  <1>5. ASSUME NEW t \in Fillers, Moves(e, t, "none"), at[e][t] # "none",
               line'[e] = Freed(e, t)[e], line'[f] = line[f] \/ line'[f] # <<>>
        PROVE  /\ at' \in [Ends -> [Fillers -> Stages]]
               /\ (\E u \in Fillers : at'[e][u] # "none") => line'[e] # <<>>
               /\ (\E u \in Fillers : at'[f][u] # "none") => line'[f] # <<>>
    <2>1. /\ at' \in [Ends -> [Fillers -> Stages]] /\ at'[f] = at[f]
          /\ at'[e][t] = "none" /\ at'[e][Other(t)] = at[e][Other(t)]
      BY <1>5, <1>f, <1>g, <1>t, MovesFacts
    <2>2. line[e] # <<>>
      BY <1>5, <1>u
    <2>3. CASE at[e][Other(t)] = "none"
      <3>1. \A u \in Fillers : at'[e][u] = "none"
        BY <2>1, <2>3, OtherFacts
      <3> QED BY <3>1, <2>1, <1>5, <1>u
    <2>4. CASE at[e][Other(t)] # "none"
      <3>1. line'[e] = line[e]
        BY <1>5, <2>2, <2>4, FreedFacts DEF TypeInv
      <3> QED BY <3>1, <2>1, <2>2, <1>5, <1>u
    <2> QED BY <2>3, <2>4
  <1>6. ASSUME NEW t \in Fillers,
               RecvThrow(e, t) \/ RecvAck(e, t) \/ RecvSync(e, t) \/ jwp_send_ack_package(e, t)
        PROVE  /\ at' \in [Ends -> [Fillers -> Stages]]
               /\ (\E u \in Fillers : at'[e][u] # "none") => line'[e] # <<>>
               /\ (\E u \in Fillers : at'[f][u] # "none") => line'[f] # <<>>
    <2>1. CASE RecvThrow(e, t) \/ RecvAck(e, t) \/ RecvSync(e, t)
      <3>1. Moves(e, t, "none") /\ at[e][t] # "none" /\ line' = Freed(e, t)
        BY <2>1 DEF RecvThrow, RecvAck, RecvSync, Done, MayRun
      <3>2. line[e] # <<>>
        BY <3>1, <1>u
      <3>3. line'[f] = line[f]
        BY <3>1, <3>2, <1>f, FreedFacts DEF TypeInv
      <3> QED BY <3>1, <3>3, <1>5
    <2>2. CASE jwp_send_ack_package(e, t)
      <3>x. PICK x : x = [type |-> "ACK", index |-> line[e][1].index]
        OBVIOUS
      <3>1. Moves(e, t, "none") /\ at[e][t] # "none" /\ line' = Put(Freed(e, t), f, x)
        BY <2>2, <1>f, <3>x DEF jwp_send_ack_package
      <3>2. line[e] # <<>>
        BY <3>1, <1>u
      <3>3. x \in Package
        BY <3>2, <3>x, TookFacts, PackageFacts DEF TypeInv
      <3>4. Freed(e, t) \in [Ends -> Seq(Package)]
        BY <3>2, FreedFacts DEF TypeInv
      <3>5. line'[e] = Freed(e, t)[e] /\ line'[f] # <<>>
        BY <3>1, <3>3, <3>4, <1>a, <1>p, PutFacts
      <3> QED BY <3>1, <3>5, <1>5
    <2> QED BY <1>6, <2>1, <2>2
  <1>7. ASSUME NEW t \in Fillers, Fill(e, t)
        PROVE  /\ at' \in [Ends -> [Fillers -> Stages]]
               /\ line'[e] # <<>> /\ at'[f] = at[f] /\ line'[f] = line[f]
    <2>1. /\ line[e] # <<>> /\ Moves(e, t, "check")
          /\ line' = line \/ (Len(line[e]) > 1 /\ line' = Took(e))
      BY <1>7 DEF Fill
    <2>2. at' \in [Ends -> [Fillers -> Stages]] /\ at'[f] = at[f]
      BY <2>1, <1>f, <1>g, <1>t, MovesFacts
    <2>3. CASE Len(line[e]) > 1 /\ line' = Took(e)
      <3>1. line'[e] = Tail(line[e]) /\ line'[f] = line[f] /\ line[e] \in Seq(Package)
        BY <2>1, <2>3, <1>f, TookFacts DEF TypeInv
      <3>2. Len(Tail(line[e])) = Len(line[e]) - 1 /\ Len(line[e]) \in Nat
        BY <2>1, <3>1, TailAt
      <3>3. Len(Tail(line[e])) > 0
        BY <2>3, <3>2
      <3>4. Tail(line[e]) # <<>>
        <4>1. Len(<<>>) = 0 /\ ~(0 > 0)
          OBVIOUS
        <4> QED BY <3>3, <4>1, Zenon
      <3> QED BY <2>2, <3>1, <3>4
    <2> QED BY <2>1, <2>2, <2>3
  <1>8. ASSUME NEW t \in Fillers, FillPart(e, t)
        PROVE  at' = at /\ line'[e] # <<>> /\ line'[f] = line[f]
    <2>1. /\ at' = at /\ Len(line[e]) > 1
          /\ line' = [line EXCEPT ![e] = [line[e] EXCEPT ![1] = line[e][2]]]
      BY <1>8 DEF FillPart
    <2>2. LineOK(line[e], sent[f])
      BY <1>f, TypeFacts DEF LinesOK
    <2>3. [line[e] EXCEPT ![1] = line[e][2]] # <<>>
      BY <2>1, <2>2, <1>t, PartOK
    <2> QED BY <2>1, <2>3, <1>p, <1>t
  <1>9. CASE Filling(e)
    <2>1. PICK t \in Fillers : Fill(e, t) \/ FillPart(e, t) \/ Process(e, t)
      BY <1>9 DEF Filling
    <2>2. CASE \/ Fill(e, t) \/ FillPart(e, t) \/ RecvAgain(e, t) \/ RecvNew(e, t) \/ RecvAccept(e, t)
      <3>1. /\ at' \in [Ends -> [Fillers -> Stages]]
            /\ line'[e] # <<>> /\ at'[f] = at[f] /\ line'[f] = line[f]
        BY <2>2, <1>4, <1>7, <1>8, <1>t
      <3> QED BY <3>1, <1>u
    <2> QED BY <2>1, <2>2, <1>6 DEF Process
  <1> QED BY <1>1, <1>2, <1>3, <1>9 DEF Step, Sending

\* Everything else keeps its type and its bounds.
LEMMA TypesKeep ==
    ASSUME TypeInv, NEW e \in Ends, Step(e)
    PROVE  TypeInv'
  <1> DEFINE f == Peer(e)
  <1>p. f \in Ends /\ f # e /\ Peer(f) = e /\ \A x \in Ends : x = e \/ x = f
    BY PeerFacts
  <1>l. LinesOK' /\ StagesOK'
    BY LinesKeep, StagesKeep
  <1>u. \A t \in Fillers : at[e][t] # "none" => line[e] # <<>>
    BY TypeFacts DEF StagesOK, InUse
  <1>t. /\ tx_index \in [Ends -> 0 .. Mod - 1] /\ rx_index \in [Ends -> 0 .. Mod - 1]
        /\ index \in [Ends -> 0 .. Mod - 1]
        /\ send_pendding \in [Ends -> BOOLEAN]
        /\ tpc \in [Ends -> {"idle", "set", "write", "poll", "sync"}]
        /\ retry \in [Ends -> 0 .. Tries]
        /\ sent \in [Ends -> Nat]
        /\ data \in [Ends -> Seq(Nat)]
        /\ arrived \in [Ends -> Seq(Nat)]
        /\ completed \in [Ends -> SUBSET Nat]
        /\ syncs \in 0 .. MaxSyncs /\ odd \subseteq {"gave up", "sync", "overwritten"}
    BY TypeFacts DEF TypeInv, LinkTypes
  <1>ts. sent \in [Ends -> Nat]
    BY <1>t
  <1>tp. tpc \in [Ends -> {"idle", "set", "write", "poll", "sync"}]
    BY <1>t
  <1>tr. retry[e] \in 0 .. Tries /\ tx_index[e] \in 0 .. Mod - 1
    BY <1>t
  <1>ty. syncs \in 0 .. MaxSyncs
    BY <1>t
  <1>td. data \in [Ends -> Seq(Nat)]
    BY <1>t
  <1>ta. arrived \in [Ends -> Seq(Nat)]
    BY <1>t
  <1>tx. tx_index \in [Ends -> 0 .. Mod - 1] /\ rx_index \in [Ends -> 0 .. Mod - 1]
    BY <1>t
  <1>ti. index \in [Ends -> 0 .. Mod - 1] /\ retry \in [Ends -> 0 .. Tries]
    BY <1>t
  <1>tb. send_pendding \in [Ends -> BOOLEAN]
    BY <1>t
  <1>tc. completed \in [Ends -> SUBSET Nat]
    BY <1>t
  <1>c. /\ Tries \in Nat \ {0} /\ MaxSyncs \in Nat /\ Mod \in Nat /\ Mod > 2
        /\ MaxSend \in [Ends -> Nat]
    BY JwpAssumption DEF Ends
  <1>n. \A x \in Ends :
            /\ sent[x] <= MaxSend[x]
            /\ tpc[x] \in Busy => sent[x] > 0
            /\ Len(data[x]) <= 1
            /\ \A i \in 1 .. Len(arrived[x]) : arrived[x][i] \in 1 .. sent[Peer(x)]
            /\ completed[x] \subseteq 1 .. sent[x]
    BY DEF TypeInv, Numbered
  <1>m. \A i \in 0 .. Mod - 1 : NextIndex(i) \in 0 .. Mod - 1
    BY NextFacts
  <1> HIDE DEF f
  <1> DEFINE Types == /\ {tx_index, rx_index, index} \subseteq [Ends -> 0 .. Mod - 1]
                      /\ send_pendding \in [Ends -> BOOLEAN]
                      /\ tpc \in [Ends -> {"idle", "set", "write", "poll", "sync"}]
                      /\ retry \in [Ends -> 0 .. Tries]
                      /\ sent \in [Ends -> Nat]
                      /\ {data, arrived} \subseteq [Ends -> Seq(Nat)]
                      /\ completed \in [Ends -> SUBSET Nat]
                      /\ syncs \in 0 .. MaxSyncs
                      /\ odd \subseteq {"gave up", "sync", "overwritten"}
             Numbers(x) == /\ sent[x] <= MaxSend[x]
                           /\ tpc[x] \in Busy => sent[x] > 0
                           /\ Len(data[x]) <= 1
                           /\ \A i \in 1 .. Len(arrived[x]) : arrived[x][i] \in 1 .. sent[Peer(x)]
                           /\ completed[x] \subseteq 1 .. sent[x]
  <1>s. SUFFICES ASSUME TRUE
                 PROVE  Types' /\ \A x \in Ends : Numbers(x)'
    BY <1>l DEF TypeInv, LinkTypes, Numbered, LinesOK, LineOK, StagesOK
  <1>1. CASE jwp_send_package(e)
    <2>1. /\ sent' = [sent EXCEPT ![e] = @ + 1] /\ sent[e] < MaxSend[e]
          /\ send_pendding' = [send_pendding EXCEPT ![e] = TRUE]
          /\ tpc' = [tpc EXCEPT ![e] = "set"]
          /\ odd' \subseteq odd \cup {"sync"}
          /\ UNCHANGED <<tx_index, rx_index, index, retry, syncs, completed, data, arrived>>
      BY <1>1 DEF jwp_send_package, receiver
    <2>2. sent'[e] = sent[e] + 1 /\ sent[e] \in Nat /\ MaxSend[e] \in Nat
      BY <2>1, <1>t, <1>c
    <2>0. sent' = [sent EXCEPT ![e] = sent[e] + 1]
      BY <2>1
    <2>3. \A x \in Ends : sent[x] <= sent'[x] /\ sent[x] \in Nat /\ sent'[x] \in Nat
      BY <2>0, <1>ts
    <2>6. tpc' \in [Ends -> {"idle", "set", "write", "poll", "sync"}] /\ sent' \in [Ends -> Nat]
      BY <2>1, <2>0, <1>ts, <1>tp
    <2>4. Types'
      BY <2>1, <2>6, <1>t
    <2>5. ASSUME NEW x \in Ends
          PROVE  Numbers(x)'
      <3>0. sent[x] <= MaxSend[x] /\ (tpc[x] \in Busy => sent[x] > 0) /\ MaxSend[x] \in Nat
        BY <1>n, <1>c
      <3>1. sent'[x] <= MaxSend[x]
        <4>1. CASE x = e
          BY <4>1, <2>1, <2>2
        <4>2. CASE x # e
          BY <4>2, <2>0, <3>0, <1>ts
        <4> QED BY <4>1, <4>2
      <3>2. tpc'[x] \in Busy => sent'[x] > 0
        <4>1. CASE x = e
          BY <4>1, <2>2
        <4>2. CASE x # e
          <5>1. sent'[x] = sent[x] /\ tpc'[x] = tpc[x]
            BY <4>2, <2>0, <2>1, <1>ts, <1>tp
          <5> QED BY <3>0, <5>1
        <4> QED BY <4>1, <4>2
      <3>3. 1 .. sent[x] \subseteq 1 .. sent'[x]
        BY <2>3
      <3>4. Peer(x) \in Ends
        BY PeerFacts
      <3>5. 1 .. sent[Peer(x)] \subseteq 1 .. sent'[Peer(x)]
        BY <2>3, <3>4
      <3>6. \A i \in 1 .. Len(arrived[x]) : arrived[x][i] \in 1 .. sent'[Peer(x)]
        BY <3>5, <1>n
      <3>7. completed[x] \subseteq 1 .. sent'[x]
        BY <3>3, <1>n
      <3> QED BY <3>1, <3>2, <3>6, <3>7, <2>1, <1>n
    <2> QED BY <2>4, <2>5
  <1>2. ASSUME UNCHANGED <<sent, data, arrived, completed>>, Types',
               \A x \in Ends : tpc'[x] \in Busy => tpc[x] \in Busy
        PROVE  \A x \in Ends : Numbers(x)'
    BY <1>2, <1>n
  <1>3. CASE jwp_set_package_index(e)
    <2>1. /\ index' = [index EXCEPT ![e] = NextIndex(tx_index[e])]
          /\ retry' = [retry EXCEPT ![e] = Tries] /\ tpc[e] = "set"
          /\ tpc' = [tpc EXCEPT ![e] = "write"]
          /\ UNCHANGED <<tx_index, rx_index, send_pendding, sent, syncs, completed, odd, data,
                         arrived>>
      BY <1>3 DEF jwp_set_package_index, receiver
    <2>2. Types'
      <3>1. NextIndex(tx_index[e]) \in 0 .. Mod - 1 /\ Tries \in 0 .. Tries
        BY <1>tr, <1>m, <1>c
      <3>2. index' \in [Ends -> 0 .. Mod - 1] /\ retry' \in [Ends -> 0 .. Tries]
        BY <2>1, <3>1, <1>ti
      <3>3. tpc' \in [Ends -> {"idle", "set", "write", "poll", "sync"}]
        BY <2>1, <1>tp
      <3> QED BY <2>1, <3>2, <3>3, <1>t
    <2>3. \A x \in Ends : tpc'[x] \in Busy => tpc[x] \in Busy
      BY <2>1, <1>t DEF Busy
    <2> QED BY <2>1, <2>2, <2>3, <1>2
  <1>4. CASE Write(e)
    <2>1. /\ tpc[e] = "write" /\ tpc' = [tpc EXCEPT ![e] = "poll"]
          /\ UNCHANGED <<tx_index, rx_index, send_pendding, index, retry, sent, syncs, completed, odd,
                         data, arrived>>
      BY <1>4 DEF Write, receiver
    <2>2. Types'
      BY <2>1, <1>t
    <2>3. \A x \in Ends : tpc'[x] \in Busy => tpc[x] \in Busy
      BY <2>1, <1>t DEF Busy
    <2> QED BY <2>1, <2>2, <2>3, <1>2
  <1>5. CASE jwp_wait_tx_complete(e)
    <2>1. /\ tpc[e] = "poll" /\ tpc' = [tpc EXCEPT ![e] = "idle"]
          /\ completed' = [completed EXCEPT ![e] = @ \cup {sent[e]}]
          /\ UNCHANGED <<tx_index, rx_index, send_pendding, index, retry, sent, syncs, odd,
                         data, arrived>>
      BY <1>5 DEF jwp_wait_tx_complete, Polling, receiver
    <2>2. Types'
      <3>1. sent[e] \in Nat
        BY <1>ts
      <3>2. completed' \in [Ends -> SUBSET Nat]
        BY <2>1, <3>1, <1>tc
      <3>3. tpc' \in [Ends -> {"idle", "set", "write", "poll", "sync"}]
        BY <2>1, <1>tp
      <3> QED BY <2>1, <3>2, <3>3, <1>t
    <2>3. \A x \in Ends : tpc'[x] \in Busy => tpc[x] \in Busy
      BY <2>1, <1>t DEF Busy
    <2>4. sent[e] \in 1 .. sent[e]
      <3>1. sent[e] > 0 /\ sent[e] \in Nat
        BY <2>1, <1>ts, <1>n DEF Busy
      <3> QED BY <3>1
    <2>5. \A x \in Ends : completed'[x] \subseteq 1 .. sent[x]
      BY <2>1, <2>4, <1>t, <1>n
    <2> QED BY <2>1, <2>2, <2>3, <2>5, <1>n
  <1>6. CASE Retry(e)
    <2>1. /\ tpc[e] = "poll" /\ tpc' = [tpc EXCEPT ![e] = "write"] /\ retry[e] > 1
          /\ retry' = [retry EXCEPT ![e] = @ - 1]
          /\ UNCHANGED <<tx_index, rx_index, send_pendding, index, sent, syncs, completed, odd,
                         data, arrived>>
      BY <1>6 DEF Retry, Polling, receiver
    <2>2. Types'
      <3>1. retry[e] - 1 \in 0 .. Tries
        BY <2>1, <1>tr, <1>c
      <3> QED BY <2>1, <3>1, <1>t
    <2>3. \A x \in Ends : tpc'[x] \in Busy => tpc[x] \in Busy
      BY <2>1, <1>t DEF Busy
    <2> QED BY <2>1, <2>2, <2>3, <1>2
  <1>7. CASE GiveUp(e)
    <2>1. /\ tpc' = [tpc EXCEPT ![e] = "idle"]
          /\ send_pendding' = [send_pendding EXCEPT ![e] = FALSE]
          /\ odd' \subseteq odd \cup {"gave up"}
          /\ UNCHANGED <<tx_index, rx_index, retry, index, sent, syncs, completed,
                         data, arrived>>
      BY <1>7 DEF GiveUp, receiver
    <2>2. Types'
      BY <2>1, <1>t
    <2>3. \A x \in Ends : tpc'[x] \in Busy => tpc[x] \in Busy
      BY <2>1, <1>t DEF Busy
    <2> QED BY <2>1, <2>2, <2>3, <1>2
  <1>8. CASE jwp_send_sync(e)
    <2>1. /\ tpc' = [tpc EXCEPT ![e] = "sync"]
          /\ syncs < MaxSyncs /\ syncs' = syncs + 1
          /\ odd' \subseteq odd \cup {"sync"}
          /\ UNCHANGED <<tx_index, rx_index, send_pendding, retry, index, sent, completed,
                         data, arrived>>
      BY <1>8 DEF jwp_send_sync, receiver
    <2>2. Types'
      <3>1. syncs' \in 0 .. MaxSyncs
        BY <2>1, <1>ty, <1>c
      <3> QED BY <2>1, <3>1, <1>t
    <2>3. \A x \in Ends : tpc'[x] \in Busy => tpc[x] \in Busy
      BY <2>1, <1>t DEF Busy
    <2> QED BY <2>1, <2>2, <2>3, <1>2
  <1>9. CASE jwp_index_init(e)
    <2>1. /\ tpc' = [tpc EXCEPT ![e] = "idle"]
          /\ tx_index' = [tx_index EXCEPT ![e] = 0] /\ rx_index' = [rx_index EXCEPT ![e] = 0]
          /\ odd' \subseteq odd \cup {"sync"}
          /\ UNCHANGED <<send_pendding, retry, index, sent, syncs, completed, data, arrived>>
      BY <1>9 DEF jwp_index_init, receiver
    <2>2. Types'
      <3>1. 0 \in 0 .. Mod - 1
        BY <1>c
      <3>2. tx_index' \in [Ends -> 0 .. Mod - 1] /\ rx_index' \in [Ends -> 0 .. Mod - 1]
        BY <2>1, <3>1, <1>tx
      <3>3. tpc' \in [Ends -> {"idle", "set", "write", "poll", "sync"}]
        BY <2>1, <1>tp
      <3> QED BY <2>1, <3>2, <3>3, <1>t
    <2>3. \A x \in Ends : tpc'[x] \in Busy => tpc[x] \in Busy
      BY <2>1, <1>t DEF Busy
    <2> QED BY <2>1, <2>2, <2>3, <1>2
  <1>11. CASE jwp_process_data(e)
    <2>1. /\ data' = [data EXCEPT ![e] = <<>>]
          /\ UNCHANGED <<tx_index, rx_index, send_pendding, tpc, retry, index, sent, syncs, completed,
                         odd, arrived>>
      BY <1>11 DEF jwp_process_data, sender
    <2>4. <<>> \in Seq(Nat) /\ Len(<<>>) = 0
      OBVIOUS
    <2>5. Types'
      <3>2. data' \in [Ends -> Seq(Nat)]
        BY <2>1, <2>4, <1>td
      <3> QED BY <2>1, <3>2, <1>t
    <2>7. \A x \in Ends : Len(data'[x]) <= 1
      <3> SUFFICES ASSUME NEW x \in Ends
                   PROVE  Len(data'[x]) <= 1
        OBVIOUS
      <3>1. CASE x = e
        <4>1. data'[x] = <<>>
          BY <3>1, <2>1, <1>td
        <4> QED BY <4>1, <2>4
      <3>2. CASE x # e
        <4>1. data'[x] = data[x]
          BY <3>2, <2>1, <1>td
        <4> QED BY <4>1, <1>n
      <3> QED BY <3>1, <3>2
    <2> QED BY <2>1, <2>5, <2>7, <1>n
  <1>12. ASSUME \/ Lose(e)
                \/ \E t \in Fillers : \/ Fill(e, t) \/ FillPart(e, t) \/ RecvAgain(e, t)
                                      \/ RecvThrow(e, t) \/ jwp_send_ack_package(e, t)
         PROVE  Types' /\ \A x \in Ends : Numbers(x)'
    <2>1. /\ odd' \subseteq odd \cup {"sync", "overwritten"}
          /\ UNCHANGED <<tx_index, rx_index, send_pendding, tpc, retry, index, sent, syncs, completed,
                         data, arrived>>
      BY <1>12 DEF Lose, Fill, FillPart, RecvAgain, RecvThrow, jwp_send_ack_package, sender, receiver
    <2>2. Types'
      BY <2>1, <1>t
    <2> QED BY <2>1, <2>2, <1>2
  <1>13. ASSUME NEW t \in Fillers, RecvAck(e, t)
         PROVE  Types' /\ \A x \in Ends : Numbers(x)'
    <2>1. /\ line[e] # <<>>
          /\ tx_index' = tx_index \/ tx_index' = [tx_index EXCEPT ![e] = line[e][1].index]
          /\ send_pendding' = send_pendding \/ send_pendding' = [send_pendding EXCEPT ![e] = FALSE]
          /\ UNCHANGED <<rx_index, tpc, retry, index, sent, syncs, completed, odd, data, arrived>>
      BY <1>13, <1>u DEF RecvAck, MayRun, sender, receiver
    <2>2. line[e][1].index \in 0 .. Mod - 1
      BY <2>1, TookFacts, PackageFacts DEF TypeInv
    <2>3. Types'
      <3>1. tx_index' \in [Ends -> 0 .. Mod - 1]
        BY <2>1, <2>2, <1>tx
      <3>2. send_pendding' \in [Ends -> BOOLEAN]
        BY <2>1, <1>tb
      <3> QED BY <2>1, <3>1, <3>2, <1>t
    <2> QED BY <2>1, <2>3, <1>2
  <1>14. ASSUME NEW t \in Fillers, RecvSync(e, t)
         PROVE  Types' /\ \A x \in Ends : Numbers(x)'
    <2>1. /\ tx_index' = [tx_index EXCEPT ![e] = 0] /\ rx_index' = [rx_index EXCEPT ![e] = 0]
          /\ UNCHANGED <<send_pendding, tpc, retry, index, sent, syncs, completed, odd, data,
                         arrived>>
      BY <1>14 DEF RecvSync, sender, receiver
    <2>2. 0 \in 0 .. Mod - 1
      BY <1>c
    <2>3. Types'
      <3>1. tx_index' \in [Ends -> 0 .. Mod - 1] /\ rx_index' \in [Ends -> 0 .. Mod - 1]
        BY <2>1, <2>2, <1>tx
      <3> QED BY <2>1, <3>1, <1>t
    <2> QED BY <2>1, <2>3, <1>2
  <1>15. ASSUME NEW t \in Fillers, RecvNew(e, t)
         PROVE  Types' /\ \A x \in Ends : Numbers(x)'
    <2>1. /\ line[e] # <<>> /\ IsMsg(line[e][1])
          /\ data' = data \/ (data[e] = <<>> /\ data' = [data EXCEPT ![e] = <<line[e][1].msg>>])
          /\ arrived' = [arrived EXCEPT ![e] = Append(@, line[e][1].msg)]
          /\ UNCHANGED <<tx_index, rx_index, send_pendding, tpc, retry, index, sent, syncs, completed, odd>>
      BY <1>15, <1>u DEF RecvNew, MayRun, First, IsMsg, sender
    <2>2. line[e] # <<>> /\ line[e] \in Seq(Package) /\ line[e][1] \in Package /\ IsMsg(line[e][1])
      BY <2>1, TookFacts DEF TypeInv
    <2>3. line[e][1].index \in 0 .. Mod - 1 /\ line[e][1].msg \in Nat
      BY <2>2, PackageFacts
    <2>4. line[e][1].msg \in 1 .. sent[f]
      <3>1. 1 \in 1 .. Len(line[e])
        BY <2>2, TailAt
      <3> QED BY <2>2, <3>1, <1>p DEF TypeInv, Numbered, Messages, f
    <2>5. <<line[e][1].msg>> \in Seq(Nat) /\ Len(<<line[e][1].msg>>) = 1
      BY <2>3
    <2> DEFINE ar == Append(arrived[e], line[e][1].msg)
    <2>6. /\ ar \in Seq(Nat) /\ Len(ar) = Len(arrived[e]) + 1
          /\ ar[Len(arrived[e]) + 1] = line[e][1].msg
          /\ \A i \in 1 .. Len(arrived[e]) : ar[i] = arrived[e][i]
          /\ \A i \in 1 .. Len(arrived[e]) + 1 : i \in 1 .. Len(arrived[e]) \/ i = Len(arrived[e]) + 1
      <3>1. arrived[e] \in Seq(Nat)
        BY <1>ta
      <3> QED BY <2>3, <3>1, AppendAt
    <2>7. arrived' = [arrived EXCEPT ![e] = ar]
      BY <2>1
    <2> HIDE DEF ar
    <2>8. Types'
      <3>1. arrived' \in [Ends -> Seq(Nat)]
        BY <2>6, <2>7, <1>ta
      <3>2. data' \in [Ends -> Seq(Nat)]
        BY <2>1, <2>5, <1>td
      <3> QED BY <2>1, <3>1, <3>2, <1>t
    <2>9. \A i \in 1 .. Len(ar) : ar[i] \in 1 .. sent[f]
      BY <2>4, <2>6, <1>n, <1>p DEF f
    <2>10. ASSUME NEW x \in Ends
           PROVE  Numbers(x)'
      <3>1. Len(data'[x]) <= 1
        <4>1. data'[x] = data[x] \/ data'[x] = <<line[e][1].msg>>
          BY <2>1, <1>td
        <4>2. Len(data[x]) <= 1
          BY <1>n
        <4>3. CASE data'[x] = <<line[e][1].msg>>
          <5>1. Len(data'[x]) = 1
            BY <4>3, <2>5
          <5> QED BY <5>1
        <4> QED BY <4>1, <4>2, <4>3
      <3>2. \A i \in 1 .. Len(arrived'[x]) : arrived'[x][i] \in 1 .. sent[Peer(x)]
        <4>1. CASE x = e
          <5>1. arrived'[x] = ar
            BY <4>1, <2>7, <1>t
          <5> QED BY <4>1, <5>1, <2>9 DEF f
        <4>2. CASE x # e
          <5>1. arrived'[x] = arrived[x]
            BY <4>2, <2>7, <1>t
          <5> QED BY <5>1, <1>n
        <4> QED BY <4>1, <4>2
      <3> QED BY <3>1, <3>2, <2>1, <1>n
    <2> QED BY <2>8, <2>10
  <1>16. ASSUME NEW t \in Fillers, RecvAccept(e, t)
         PROVE  Types' /\ \A x \in Ends : Numbers(x)'
    <2>1. /\ line[e] # <<>> /\ rx_index' = [rx_index EXCEPT ![e] = line[e][1].index]
          /\ UNCHANGED <<tx_index, send_pendding, tpc, retry, index, sent, syncs, completed, odd, data,
                         arrived>>
      BY <1>16, <1>u DEF RecvAccept, sender, receiver
    <2>2. line[e][1].index \in 0 .. Mod - 1
      BY <2>1, TookFacts, PackageFacts DEF TypeInv
    <2>3. Types'
      <3>1. rx_index' \in [Ends -> 0 .. Mod - 1]
        BY <2>1, <2>2, <1>tx
      <3> QED BY <2>1, <3>1, <1>t
    <2> QED BY <2>1, <2>3, <1>2
  <1>17. CASE Sending(e)
    BY <1>17, <1>3, <1>4, <1>5, <1>6, <1>7, <1>9 DEF Sending
  <1>18. CASE Filling(e)
    BY <1>18, <1>12, <1>13, <1>14, <1>15, <1>16 DEF Filling, Process
  <1> QED BY <1>1, <1>8, <1>11, <1>12, <1>17, <1>18 DEF Step

-----------------------------------------------------------------------------
(* The two directions.                                                      *)

GoodInv == \A x \in Ends : DirInv(x) /\ SyncInv(x)
StagesInv == \A x \in Ends : StageInv(x)

\* jwp->lock is held for the package in rx_pkg.
LEMMA GotType ==
    ASSUME TypeInv, NEW x \in Ends
    PROVE  Got(x) \in 0 .. Mod - 1 /\ (Locked(x) => line[x] # <<>>)
  <1>1. Locked(x) => line[x] # <<>>
    BY TypeFacts DEF StagesOK, InUse, Locked
  <1>2. Locked(x) => line[x][1].index \in 0 .. Mod - 1
    BY <1>1, TookFacts, PackageFacts DEF TypeInv
  <1>3. rx_index[x] \in 0 .. Mod - 1
    BY TypeFacts
  <1> QED BY <1>1, <1>2, <1>3 DEF Got

\* What was accepted last does not change with what comes behind it.
LEMMA GotKeeps ==
    ASSUME TypeInv, NEW x \in Ends, at'[x] = at[x], rx_index'[x] = rx_index[x],
           line'[x] = line[x] \/ \E p \in Package : line'[x] = Append(line[x], p)
    PROVE  Got(x)' = Got(x)
  <1>1. Locked(x)' <=> Locked(x)
    BY DEF Locked
  <1>2. CASE ~Locked(x)
    BY <1>1, <1>2 DEF Got
  <1>3. CASE Locked(x)
    <2>1. line[x] # <<>> /\ line[x] \in Seq(Package)
      BY <1>3, GotType, TypeFacts DEF LinesOK
    <2>2. 1 \in 1 .. Len(line[x])
      BY <2>1, TailAt
    <2>3. line'[x][1] = line[x][1]
      BY <2>1, <2>2, AppendAt
    <2> QED BY <1>1, <1>3, <2>3 DEF Got
  <1> QED BY <1>2, <1>3

\* The types the lemmas on Dir ask for.
LEMMA DirTypes ==
    ASSUME TypeInv, NEW x \in Ends
    PROVE  /\ Tx(x) \in 0 .. Mod - 1 /\ Rx(x) \in 0 .. Mod - 1
           /\ send_pendding[x] \in BOOLEAN /\ sent[x] \in Nat
           /\ line[x] \in Seq(Package) /\ arrived[x] \in Seq(Nat)
           /\ index[x] \in 0 .. Mod - 1
  <1>1. 0 \in 0 .. Mod - 1
    BY JwpAssumption
  <1>2. tx_index[x] \in 0 .. Mod - 1 /\ rx_index[x] \in 0 .. Mod - 1 /\ index[x] \in 0 .. Mod - 1
    BY TypeFacts
  <1>3. send_pendding[x] \in BOOLEAN /\ sent[x] \in Nat /\ arrived[x] \in Seq(Nat)
    BY TypeFacts
  <1>4. line[x] \in Seq(Package)
    BY TypeFacts DEF LinesOK
  <1> QED BY <1>1, <1>2, <1>3, <1>4, GotType DEF Tx, Rx

\* What the invariant says, with the two ends named.
LEMMA DirFacts ==
    ASSUME GoodInv, NEW e \in Ends, NEW f, f = Peer(e)
    PROVE  /\ Dir(Tx(e), Rx(f), send_pendding[e], tpc[e], index[e], sent[e], line[f], line[e],
                  arrived[f], completed[e])
           /\ Dir(Tx(f), Rx(e), send_pendding[f], tpc[f], index[f], sent[f], line[e], line[f],
                  arrived[e], completed[f])
           /\ SyncInv(e) /\ SyncInv(f)
  BY PeerFacts DEF GoodInv, DirInv

\* No SYNC comes from taking a package.
LEMMA HasSyncTail ==
    ASSUME NEW l \in Seq(Package), l # <<>>, ~HasSync(l)
    PROVE  ~HasSync(Tail(l))
  <1>1. \A i \in 1 .. Len(Tail(l)) : Tail(l)[i] = l[i + 1] /\ i + 1 \in 1 .. Len(l)
    BY TailAt
  <1> QED BY <1>1 DEF HasSync

\* No SYNC comes from adding another package.
LEMMA HasSyncAppend ==
    ASSUME NEW l \in Seq(Package), NEW x \in Package, x.type # "SYNC"
    PROVE  HasSync(Append(l, x)) <=> HasSync(l)
  <1>1. /\ Len(Append(l, x)) = Len(l) + 1 /\ Append(l, x)[Len(l) + 1] = x /\ Len(l) \in Nat
        /\ \A i \in 1 .. Len(l) : Append(l, x)[i] = l[i]
        /\ \A i \in 1 .. Len(l) + 1 : i \in 1 .. Len(l) \/ i = Len(l) + 1
    BY AppendAt
  <1>2. 1 .. Len(l) \subseteq 1 .. Len(l) + 1
    BY <1>1
  <1> QED BY <1>1, <1>2 DEF HasSync

\* The caller's steps that leave lines and indices alone.
LEMMA CallerFrame ==
    ASSUME TypeInv, GoodInv, NEW e \in Ends, NEW f, f = Peer(e), tpc[e] \in Busy,
           UNCHANGED <<tx_index, rx_index, line, at, arrived>>,
           tpc' \in [Ends -> {"idle", "set", "write", "poll", "sync"}],
           tpc'[e] # "sync", tpc'[f] = tpc[f], send_pendding'[f] = send_pendding[f],
           index'[f] = index[f], sent'[f] = sent[f], completed'[f] = completed[f],
           Dir(Tx(e), Rx(f), send_pendding'[e], tpc'[e], index'[e], sent'[e], line[f], line[e],
               arrived[f], completed'[e])
    PROVE  GoodInv'
  <1>p. f \in Ends /\ f # e /\ Peer(f) = e /\ \A x \in Ends : x = e \/ x = f
    BY PeerFacts
  <1>1. tpc[e] \notin {"idle", "sync"}
    BY DEF Busy
  <1>2. ~HasSync(line[e]) /\ tpc[f] # "sync"
    BY <1>1, <1>p DEF GoodInv, SyncInv
  <1>3. HasSync(line[e])' = HasSync(line[e]) /\ HasSync(line[f])' = HasSync(line[f])
    BY DEF HasSync
  <1>4. Tx(e)' = Tx(e) /\ Rx(e)' = Rx(e) /\ Tx(f)' = Tx(f) /\ Rx(f)' = Rx(f)
    <2>1. Resetting(e)' = Resetting(e)
      BY <1>1, <1>3 DEF Resetting
    <2>2. Resetting(f)' = Resetting(f)
      BY <1>3 DEF Resetting
    <2>3. Got(e)' = Got(e) /\ Got(f)' = Got(f)
      BY <1>p, GotKeeps
    <2> QED BY <2>1, <2>2, <2>3 DEF Tx, Rx
  <1>5. DirInv(e)'
    BY <1>4 DEF DirInv
  <1>6. DirInv(f)'
    BY <1>4, <1>p, DirFacts DEF DirInv
  <1>7. SyncInv(e)'
    BY <1>2, <1>3 DEF SyncInv
  <1>8. SyncInv(f)'
    BY <1>2, <1>3, <1>p DEF SyncInv, GoodInv
  <1> QED BY <1>5, <1>6, <1>7, <1>8, <1>p DEF GoodInv

\* jwp_send_package starts only while no SYNC is under way, or odd says so.
LEMMA SendKeeps ==
    ASSUME TypeInv, GoodInv, NEW e \in Ends, jwp_send_package(e), odd' = {}
    PROVE  GoodInv'
  <1>f. PICK f : f = Peer(e)
    OBVIOUS
  <1>p. f \in Ends /\ f # e /\ Peer(f) = e /\ \A x \in Ends : x = e \/ x = f
    BY <1>f, PeerFacts
  <1>t. /\ send_pendding \in [Ends -> BOOLEAN] /\ sent \in [Ends -> Nat]
        /\ tpc \in [Ends -> {"idle", "set", "write", "poll", "sync"}]
        /\ line[e] \in Seq(Package)
    BY TypeFacts DEF LinesOK
  <1>1. /\ tpc[e] = "idle" /\ ~Syncing(e)
        /\ send_pendding' = [send_pendding EXCEPT ![e] = TRUE]
        /\ sent' = [sent EXCEPT ![e] = @ + 1] /\ tpc' = [tpc EXCEPT ![e] = "set"]
        /\ UNCHANGED <<tx_index, rx_index, index, line, at, completed, arrived>>
    BY DEF jwp_send_package, receiver
  <1>2. ~HasSync(line[e]) /\ tpc[f] # "sync"
    BY <1>1, <1>f, <1>t DEF Syncing, HasSync
  <1>3. HasSync(line[e])' = HasSync(line[e]) /\ HasSync(line[f])' = HasSync(line[f])
    BY <1>1 DEF HasSync
  <1>4. /\ tpc'[e] = "set" /\ tpc'[f] = tpc[f] /\ send_pendding'[e] = TRUE
        /\ send_pendding'[f] = send_pendding[f] /\ sent'[e] = sent[e] + 1 /\ sent'[f] = sent[f]
    BY <1>1, <1>p, <1>t
  <1>5. Tx(e)' = Tx(e) /\ Rx(e)' = Rx(e) /\ Tx(f)' = Tx(f) /\ Rx(f)' = Rx(f)
    <2>1. Resetting(e)' = Resetting(e)
      BY <1>1, <1>3, <1>4 DEF Resetting
    <2>2. Resetting(f)' = Resetting(f)
      BY <1>3, <1>4 DEF Resetting
    <2>3. Got(e)' = Got(e) /\ Got(f)' = Got(f)
      BY <1>1, <1>p, GotKeeps
    <2> QED BY <2>1, <2>2, <2>3, <1>1 DEF Tx, Rx
  <1>6. Dir(Tx(e), Rx(f), TRUE, "set", index[e], sent[e] + 1, line[f], line[e], arrived[f], completed[e])
    <2>1. Dir(Tx(e), Rx(f), send_pendding[e], tpc[e], index[e], sent[e], line[f], line[e], arrived[f],
              completed[e])
      BY <1>f, DirFacts
    <2>2. /\ Tx(e) \in 0 .. Mod - 1 /\ Rx(f) \in 0 .. Mod - 1 /\ send_pendding[e] \in BOOLEAN
          /\ sent[e] \in Nat /\ line[e] \in Seq(Package) /\ line[f] \in Seq(Package)
          /\ arrived[f] \in Seq(Nat) /\ tpc[e] = "idle"
      BY <1>1, <1>p, DirTypes
    <2> QED BY <2>1, <2>2, DirSend
  <1>7. DirInv(e)'
    BY <1>1, <1>4, <1>5, <1>6, <1>f DEF DirInv
  <1>8. DirInv(f)'
    BY <1>1, <1>4, <1>5, <1>f, <1>p, DirFacts DEF DirInv
  <1>9. SyncInv(e)'
    BY <1>2, <1>3, <1>4 DEF SyncInv
  <1>10. SyncInv(f)'
    BY <1>1, <1>2, <1>3, <1>4, <1>p DEF SyncInv, GoodInv
  <1> QED BY <1>7, <1>8, <1>9, <1>10, <1>p DEF GoodInv

\* The steps of jwp_send_package once it has the line.
LEMMA SendingKeeps ==
    ASSUME TypeInv, GoodInv, NEW e \in Ends, odd' = {},
           jwp_set_package_index(e) \/ jwp_wait_tx_complete(e) \/ Retry(e) \/ GiveUp(e)
    PROVE  GoodInv'
  <1>f. PICK f : f = Peer(e)
    OBVIOUS
  <1>p. f \in Ends /\ f # e /\ Peer(f) = e /\ \A x \in Ends : x = e \/ x = f
    BY <1>f, PeerFacts
  <1>t. /\ send_pendding \in [Ends -> BOOLEAN] /\ index \in [Ends -> 0 .. Mod - 1]
        /\ tpc \in [Ends -> {"idle", "set", "write", "poll", "sync"}]
        /\ completed \in [Ends -> SUBSET Nat]
    BY TypeFacts
  <1>d. Dir(Tx(e), Rx(f), send_pendding[e], tpc[e], index[e], sent[e], line[f], line[e], arrived[f],
            completed[e])
    BY <1>f, DirFacts
  <1>y. /\ Tx(e) \in 0 .. Mod - 1 /\ Rx(f) \in 0 .. Mod - 1 /\ send_pendding[e] \in BOOLEAN
        /\ sent[e] \in Nat /\ line[e] \in Seq(Package) /\ line[f] \in Seq(Package)
        /\ arrived[f] \in Seq(Nat)
    BY <1>p, DirTypes
  <1>b. tpc[e] \in Busy
    BY DEF jwp_set_package_index, jwp_wait_tx_complete, Retry, GiveUp, Polling, Busy
  <1>u. UNCHANGED <<tx_index, rx_index, line, at, arrived>>
    BY DEF jwp_set_package_index, jwp_wait_tx_complete, Retry, GiveUp, receiver
  <1>1. CASE jwp_set_package_index(e)
    <2>1. /\ tpc[e] = "set" /\ index' = [index EXCEPT ![e] = NextIndex(tx_index[e])]
          /\ tpc' = [tpc EXCEPT ![e] = "write"] /\ UNCHANGED <<send_pendding, sent, completed>>
      BY <1>1 DEF jwp_set_package_index
    <2>2. Tx(e) = tx_index[e]
      BY <2>1, <1>p DEF Tx, Resetting, GoodInv, SyncInv
    <2>3. Dir(Tx(e), Rx(f), send_pendding[e], "write", NextIndex(Tx(e)), sent[e], line[f], line[e],
              arrived[f], completed[e])
      BY <2>1, <1>d, <1>y, DirSet
    <2>4. /\ tpc'[e] = "write" /\ tpc'[f] = tpc[f] /\ index'[e] = NextIndex(Tx(e)) /\ index'[f] = index[f]
          /\ tpc' \in [Ends -> {"idle", "set", "write", "poll", "sync"}]
      BY <2>1, <2>2, <1>p, <1>t
    <2> QED BY <2>1, <2>3, <2>4, <1>b, <1>f, <1>u, CallerFrame
  <1>2. CASE jwp_wait_tx_complete(e)
    <2>1. /\ tpc[e] = "poll" /\ ~send_pendding[e]
          /\ tpc' = [tpc EXCEPT ![e] = "idle"] /\ completed' = [completed EXCEPT ![e] = @ \cup {sent[e]}]
          /\ UNCHANGED <<send_pendding, sent, index>>
      BY <1>2 DEF jwp_wait_tx_complete, Polling
    <2>2. Dir(Tx(e), Rx(f), send_pendding[e], "idle", index[e], sent[e], line[f], line[e],
              arrived[f], completed[e] \cup {sent[e]})
      BY <2>1, <1>d, <1>y, DirComplete
    <2>3. /\ tpc'[e] = "idle" /\ tpc'[f] = tpc[f] /\ completed'[e] = completed[e] \cup {sent[e]}
          /\ completed'[f] = completed[f]
          /\ tpc' \in [Ends -> {"idle", "set", "write", "poll", "sync"}]
      BY <2>1, <1>p, <1>t
    <2>4. UNCHANGED <<send_pendding, sent, index>>
      BY <2>1
    <2> QED BY <2>2, <2>3, <2>4, <1>b, <1>f, <1>u, CallerFrame
  <1>3. CASE Retry(e)
    <2>1. /\ tpc[e] = "poll" /\ tpc' = [tpc EXCEPT ![e] = "write"]
          /\ UNCHANGED <<send_pendding, sent, index, completed>>
      BY <1>3 DEF Retry, Polling
    <2>2. Dir(Tx(e), Rx(f), send_pendding[e], "write", index[e], sent[e], line[f], line[e],
              arrived[f], completed[e])
      BY <2>1, <1>d, <1>y, DirPc
    <2>3. /\ tpc'[e] = "write" /\ tpc'[f] = tpc[f]
          /\ tpc' \in [Ends -> {"idle", "set", "write", "poll", "sync"}]
      BY <2>1, <1>p, <1>t
    <2> QED BY <2>1, <2>2, <2>3, <1>b, <1>f, <1>u, CallerFrame
  <1>4. CASE GiveUp(e)
    <2>1. /\ tpc[e] = "poll" /\ tpc' = [tpc EXCEPT ![e] = "idle"]
          /\ send_pendding' = [send_pendding EXCEPT ![e] = FALSE]
          /\ send_pendding[e] => ~InFlight(e) /\ sent[e] \notin ToSet(arrived[f])
          /\ UNCHANGED <<sent, index, completed>>
      BY <1>4, <1>f DEF GiveUp, Polling
    <2>2. send_pendding[e] =>
            /\ \A i \in 1 .. Len(line[f]) : ~IsMsg(line[f][i])
            /\ \A i \in 1 .. Len(line[e]) : line[e][i].type # "ACK"
      BY <2>1, <1>f, <1>y DEF InFlight, IsMsg
    <2>3. send_pendding[e] => \A i \in 1 .. Len(arrived[f]) : arrived[f][i] # sent[e]
      BY <2>1, <1>y DEF ToSet
    <2>4. Dir(Tx(e), Rx(f), FALSE, "idle", index[e], sent[e], line[f], line[e],
              arrived[f], completed[e])
      <3>1. CASE send_pendding[e]
        BY <3>1, <2>1, <2>2, <2>3, <1>d, <1>y, DirGiveUp
      <3>2. CASE ~send_pendding[e]
        <4>1. Dir(Tx(e), Rx(f), send_pendding[e], "idle", index[e], sent[e], line[f], line[e],
                  arrived[f], completed[e])
          BY <3>2, <2>1, <1>d, <1>y, DirLate
        <4>2. send_pendding[e] = FALSE
          BY <3>2, <1>y
        <4> QED BY <4>1, <4>2
      <3> QED BY <3>1, <3>2
    <2>5. /\ tpc'[e] = "idle" /\ tpc'[f] = tpc[f] /\ send_pendding'[e] = FALSE
          /\ send_pendding'[f] = send_pendding[f]
          /\ tpc' \in [Ends -> {"idle", "set", "write", "poll", "sync"}]
      BY <2>1, <1>p, <1>t
    <2>6. UNCHANGED <<sent, index, completed>>
      BY <2>1
    <2> QED BY <2>4, <2>5, <2>6, <1>b, <1>f, <1>u, CallerFrame
  <1> QED BY <1>1, <1>2, <1>3, <1>4

\* A copy of the message is written.
LEMMA WriteKeeps ==
    ASSUME TypeInv, GoodInv, NEW e \in Ends, Write(e)
    PROVE  GoodInv'
  <1>f. PICK f : f = Peer(e)
    OBVIOUS
  <1>p. f \in Ends /\ f # e /\ Peer(f) = e /\ \A x \in Ends : x = e \/ x = f
    BY <1>f, PeerFacts
  <1>t. tpc \in [Ends -> {"idle", "set", "write", "poll", "sync"}] /\ line \in [Ends -> Seq(Package)]
    BY TypeFacts DEF LinesOK
  <1>y. /\ Tx(e) \in 0 .. Mod - 1 /\ Rx(f) \in 0 .. Mod - 1 /\ send_pendding[e] \in BOOLEAN
        /\ Tx(f) \in 0 .. Mod - 1 /\ Rx(e) \in 0 .. Mod - 1 /\ send_pendding[f] \in BOOLEAN
        /\ sent[e] \in Nat /\ line[e] \in Seq(Package) /\ line[f] \in Seq(Package)
        /\ arrived[f] \in Seq(Nat) /\ arrived[e] \in Seq(Nat) /\ sent[f] \in Nat
        /\ index[e] \in 0 .. Mod - 1
    BY <1>p, DirTypes
  <1>x. PICK x : x = [type |-> TypeOf(sent[e]), index |-> index[e], msg |-> sent[e]]
    OBVIOUS
  <1>1. /\ tpc[e] = "write" /\ tpc' = [tpc EXCEPT ![e] = "poll"] /\ line' = Put(line, f, x)
        /\ UNCHANGED <<tx_index, rx_index, send_pendding, at, index, sent, completed, arrived>>
    BY <1>f, <1>x DEF Write, receiver
  <1>2. x \in Package /\ IsMsg(x) /\ x.index = index[e] /\ x.msg = sent[e] /\ x.type \notin {"ACK", "SYNC"}
    BY <1>x, <1>y, PackageFacts DEF IsMsg
  <1>3. line'[e] = line[e] /\ line'[f] = Append(line[f], x)
    BY <1>1, <1>2, <1>p, <1>t, PutFacts
  <1>4. tpc'[e] = "poll" /\ tpc'[f] = tpc[f]
    BY <1>1, <1>p, <1>t
  <1>5. ~HasSync(line[e]) /\ tpc[f] # "sync"
    BY <1>1, <1>p DEF GoodInv, SyncInv
  <1>6. HasSync(line'[e]) = HasSync(line[e]) /\ HasSync(line'[f]) = HasSync(line[f])
    <2>1. HasSync(Append(line[f], x)) = HasSync(line[f])
      BY <1>2, <1>y, HasSyncAppend DEF HasSync
    <2> QED BY <2>1, <1>3
  <1>7. Tx(e)' = Tx(e) /\ Rx(e)' = Rx(e) /\ Tx(f)' = Tx(f) /\ Rx(f)' = Rx(f)
    <2>1. Resetting(e)' = Resetting(e)
      BY <1>1, <1>4, <1>6 DEF Resetting, HasSync
    <2>2. Resetting(f)' = Resetting(f)
      BY <1>4, <1>6 DEF Resetting, HasSync
    <2>3. Got(e)' = Got(e) /\ Got(f)' = Got(f)
      BY <1>1, <1>2, <1>3, <1>p, GotKeeps
    <2> QED BY <2>1, <2>2, <2>3, <1>1 DEF Tx, Rx
  <1>8. DirInv(e)'
    <2>1. Dir(Tx(e), Rx(f), send_pendding[e], "poll", index[e], sent[e], line[f], line[e], arrived[f],
              completed[e])
      BY <1>1, <1>f, <1>y, DirFacts, DirPc
    <2>2. Dir(Tx(e), Rx(f), send_pendding[e], "poll", index[e], sent[e], Append(line[f], x), line[e],
              arrived[f], completed[e])
      BY <2>1, <1>2, <1>y, DirWrite
    <2> QED BY <2>1, <2>2, <1>1, <1>3, <1>4, <1>7, <1>f DEF DirInv
  <1>9. DirInv(f)'
    <2>1. Dir(Tx(f), Rx(e), send_pendding[f], tpc[f], index[f], sent[f], line[e], line[f], arrived[e],
              completed[f])
      BY <1>f, DirFacts
    <2>2. Dir(Tx(f), Rx(e), send_pendding[f], tpc[f], index[f], sent[f], line[e], Append(line[f], x),
              arrived[e], completed[f])
      BY <2>1, <1>2, <1>y, DirOtherAck
    <2> QED BY <2>1, <2>2, <1>1, <1>3, <1>4, <1>7, <1>p DEF DirInv
  <1>10. SyncInv(e)'
    BY <1>4, <1>5, <1>6 DEF SyncInv, HasSync
  <1>11. SyncInv(f)'
    <2> SUFFICES ASSUME HasSync(line'[f])
                 PROVE  /\ tpc'[f] = "idle" /\ line'[e] = <<>>
                        /\ line'[f][1].type = "SYNC"
                        /\ \A i \in 2 .. Len(line'[f]) : IsMsg(line'[f][i])
      BY <1>4, <1>5, <1>p DEF SyncInv, HasSync, IsMsg
    <2>1. /\ tpc[f] = "idle" /\ line[e] = <<>> /\ line[f][1].type = "SYNC"
          /\ \A i \in 2 .. Len(line[f]) : IsMsg(line[f][i])
      BY <1>6, <1>p DEF GoodInv, SyncInv
    <2>2. /\ Len(line'[f]) = Len(line[f]) + 1 /\ line'[f][Len(line[f]) + 1] = x /\ Len(line[f]) \in Nat
          /\ \A i \in 1 .. Len(line[f]) : line'[f][i] = line[f][i]
          /\ \A i \in 1 .. Len(line[f]) + 1 : i \in 1 .. Len(line[f]) \/ i = Len(line[f]) + 1
      <3>1. /\ Len(Append(line[f], x)) = Len(line[f]) + 1 /\ Append(line[f], x)[Len(line[f]) + 1] = x
            /\ Len(line[f]) \in Nat
            /\ \A i \in 1 .. Len(line[f]) : Append(line[f], x)[i] = line[f][i]
            /\ \A i \in 1 .. Len(line[f]) + 1 : i \in 1 .. Len(line[f]) \/ i = Len(line[f]) + 1
        BY <1>2, <1>y, AppendAt
      <3> QED BY <3>1, <1>3
    <2>3. 1 \in 1 .. Len(line[f])
      BY <1>6, <2>2 DEF HasSync
    <2>4. \A i \in 2 .. Len(line[f]) + 1 : i \in 2 .. Len(line[f]) \/ i = Len(line[f]) + 1
      BY <2>2
    <2>5. 2 .. Len(line[f]) \subseteq 1 .. Len(line[f])
      BY <2>2
    <2>6. \A i \in 2 .. Len(line'[f]) : IsMsg(line'[f][i])
      BY <2>1, <2>2, <2>4, <2>5, <1>2
    <2> QED BY <2>1, <2>2, <2>3, <2>6, <1>3, <1>4
  <1> QED BY <1>8, <1>9, <1>10, <1>11, <1>p DEF GoodInv

\* A SYNC is sent while nothing is under way and nobody is busy, or odd says otherwise.
LEMMA SyncKeeps ==
    ASSUME TypeInv, GoodInv, NEW e \in Ends, jwp_send_sync(e), odd' = {}
    PROVE  GoodInv'
  <1>f. PICK f : f = Peer(e)
    OBVIOUS
  <1>p. f \in Ends /\ f # e /\ Peer(f) = e /\ \A x \in Ends : x = e \/ x = f
    BY <1>f, PeerFacts
  <1>t. tpc \in [Ends -> {"idle", "set", "write", "poll", "sync"}] /\ line \in [Ends -> Seq(Package)]
    BY TypeFacts DEF LinesOK
  <1>y. /\ Tx(e) \in 0 .. Mod - 1 /\ Rx(f) \in 0 .. Mod - 1 /\ send_pendding[e] \in BOOLEAN
        /\ Tx(f) \in 0 .. Mod - 1 /\ Rx(e) \in 0 .. Mod - 1 /\ send_pendding[f] \in BOOLEAN
        /\ sent[e] \in Nat /\ line[e] \in Seq(Package) /\ line[f] \in Seq(Package)
        /\ arrived[f] \in Seq(Nat) /\ arrived[e] \in Seq(Nat) /\ sent[f] \in Nat
    BY <1>p, DirTypes
  <1>x. PICK x : x = [type |-> "SYNC", index |-> 0]
    OBVIOUS
  <1>1. /\ tpc[e] = "idle" /\ tpc' = [tpc EXCEPT ![e] = "sync"] /\ line' = Put(line, f, x)
        /\ line = [z \in Ends |-> <<>>] /\ tpc[f] = "idle"
        /\ UNCHANGED <<tx_index, rx_index, send_pendding, index, sent, completed, arrived>>
    BY <1>f, <1>x DEF jwp_send_sync, receiver
  <1>2. x \in Package /\ x.type = "SYNC" /\ ~IsMsg(x)
    BY <1>x, PackageFacts DEF IsMsg
  <1>3. line[e] = <<>> /\ line[f] = <<>>
    BY <1>1, <1>p
  <1>4. line'[e] = <<>> /\ line'[f] = Append(line[f], x)
    <2>1. /\ Put(line, f, x)[Peer(f)] = line[Peer(f)]
          /\ Put(line, f, x)[f] = Append(line[f], x)
      <3>1. line \in [Ends -> Seq(Package)] /\ f \in Ends /\ x \in Package
        BY <1>2, <1>p, <1>t
      <3> QED BY <3>1, PutFacts
    <2> QED BY <2>1, <1>1, <1>3, <1>p
  <1>i. tpc[e] = "idle" /\ tpc[f] = "idle"
    BY <1>1
  <1>5. /\ Len(line'[f]) = 1 /\ line'[f][1] = x /\ line'[f] \in Seq(Package)
        /\ Len(line'[e]) = 0 /\ line'[e] \in Seq(Package)
    BY <1>2, <1>3, <1>4
  <1>6. tpc'[e] = "sync" /\ tpc'[f] = "idle"
    BY <1>1, <1>p, <1>t
  <1>7. HasSync(line'[f]) /\ ~HasSync(line'[e])
    BY <1>2, <1>5 DEF HasSync
  <1>8. Tx(e)' = 0 /\ Rx(e)' = 0 /\ Tx(f)' = 0 /\ Rx(f)' = 0
    <2>1. Resetting(e)' /\ Resetting(f)'
      BY <1>6, <1>7 DEF Resetting, HasSync
    <2> QED BY <2>1 DEF Tx, Rx
  <1>9. /\ \A i \in 1 .. Len(line'[f]) : ~IsMsg(line'[f][i]) /\ line'[f][i].type # "ACK"
        /\ \A i \in 1 .. Len(line'[e]) : ~IsMsg(line'[e][i]) /\ line'[e][i].type # "ACK"
    BY <1>2, <1>5
  <1>10. DirInv(e)'
    <2>1. PICK m \in Seq(Package), a \in Seq(Package) : m = line'[f] /\ a = line'[e]
      BY <1>5
    <2>2. /\ \A i \in 1 .. Len(m) : ~IsMsg(m[i])
          /\ \A i \in 1 .. Len(a) : a[i].type # "ACK"
      BY <2>1, <1>9
    <2>3. Dir(Tx(e), Rx(f), send_pendding[e], "idle", index[e], sent[e], line[f], line[e], arrived[f],
              completed[e])
      BY <1>i, <1>f, DirFacts
    <2>4. Dir(0, 0, send_pendding[e], "sync", index[e], sent[e], m, a, arrived[f], completed[e])
      <3>1. ~send_pendding[e]
        BY <2>3, <1>y DEF Dir, Control, Busy
      <3>2. /\ Level(0, 0, send_pendding[e], "sync") /\ Control(send_pendding[e], "sync")
            /\ IndexSet(0, send_pendding[e], "sync", index[e])
        BY <3>1 DEF Level, Control, IndexSet
      <3>3. Packages(0, 0, send_pendding[e], "sync", sent[e], m) /\ PackagesOrder(0, m)
        BY <2>2 DEF Packages, PackagesOrder
      <3>4. Acks(0, 0, a) /\ AcksOrder(0, a)
        BY <2>2 DEF Acks, AcksOrder
      <3>5. Accepted(0, 0, send_pendding[e], "sync", sent[e], arrived[f])
        BY <2>3, <3>1 DEF Dir, Accepted
      <3>6. Finished(completed[e], arrived[f])
        BY <2>3 DEF Dir
      <3> QED BY <3>2, <3>3, <3>4, <3>5, <3>6 DEF Dir
    <2> QED BY <2>1, <2>4, <1>1, <1>6, <1>8, <1>f DEF DirInv
  <1>11. DirInv(f)'
    <2>1. PICK m \in Seq(Package), a \in Seq(Package) : m = line'[e] /\ a = line'[f]
      BY <1>5
    <2>2. /\ \A i \in 1 .. Len(m) : ~IsMsg(m[i])
          /\ \A i \in 1 .. Len(a) : a[i].type # "ACK"
      BY <2>1, <1>9
    <2>3. Dir(Tx(f), Rx(e), send_pendding[f], "idle", index[f], sent[f], line[e], line[f], arrived[e],
              completed[f])
      BY <1>i, <1>f, DirFacts
    <2>4. Dir(0, 0, send_pendding[f], "idle", index[f], sent[f], m, a, arrived[e], completed[f])
      <3>1. ~send_pendding[f]
        BY <2>3, <1>y DEF Dir, Control, Busy
      <3>2. /\ Level(0, 0, send_pendding[f], "idle") /\ Control(send_pendding[f], "idle")
            /\ IndexSet(0, send_pendding[f], "idle", index[f])
        BY <3>1 DEF Level, Control, IndexSet
      <3>3. Packages(0, 0, send_pendding[f], "idle", sent[f], m) /\ PackagesOrder(0, m)
        BY <2>2 DEF Packages, PackagesOrder
      <3>4. Acks(0, 0, a) /\ AcksOrder(0, a)
        BY <2>2 DEF Acks, AcksOrder
      <3>5. Accepted(0, 0, send_pendding[f], "idle", sent[f], arrived[e])
        BY <2>3, <3>1 DEF Dir, Accepted
      <3>6. Finished(completed[f], arrived[e])
        BY <2>3 DEF Dir
      <3> QED BY <3>2, <3>3, <3>4, <3>5, <3>6 DEF Dir
    <2> QED BY <2>1, <2>4, <1>1, <1>6, <1>8, <1>p DEF DirInv
  <1>12. SyncInv(e)'
    BY <1>2, <1>4, <1>5, <1>6, <1>7, <1>f DEF SyncInv, HasSync
  <1>13. SyncInv(f)'
    BY <1>2, <1>4, <1>5, <1>6, <1>p DEF SyncInv
  <1> QED BY <1>10, <1>11, <1>12, <1>13, <1>p DEF GoodInv

\* The end that sent it sets its own indices.
LEMMA IndexInitKeeps ==
    ASSUME TypeInv, GoodInv, NEW e \in Ends, jwp_index_init(e), odd' = {}
    PROVE  GoodInv'
  <1>f. PICK f : f = Peer(e)
    OBVIOUS
  <1>p. f \in Ends /\ f # e /\ Peer(f) = e /\ \A x \in Ends : x = e \/ x = f
    BY <1>f, PeerFacts
  <1>t. /\ tpc \in [Ends -> {"idle", "set", "write", "poll", "sync"}]
        /\ tx_index \in [Ends -> 0 .. Mod - 1] /\ rx_index \in [Ends -> 0 .. Mod - 1]
    BY TypeFacts
  <1>y. /\ Tx(e) \in 0 .. Mod - 1 /\ Rx(f) \in 0 .. Mod - 1 /\ send_pendding[e] \in BOOLEAN
        /\ sent[e] \in Nat /\ line[e] \in Seq(Package) /\ line[f] \in Seq(Package)
        /\ arrived[f] \in Seq(Nat)
    BY <1>p, DirTypes
  <1>1. /\ tpc[e] = "sync" /\ tpc' = [tpc EXCEPT ![e] = "idle"] /\ tpc[f] = "idle"
        /\ tx_index' = [tx_index EXCEPT ![e] = 0] /\ rx_index' = [rx_index EXCEPT ![e] = 0]
        /\ ~Locked(e) /\ UNCHANGED <<send_pendding, at, index, sent, line, completed, arrived>>
    BY <1>f DEF jwp_index_init, receiver
  <1>2. line[e] = <<>>
    BY <1>1 DEF GoodInv, SyncInv
  <1>3. ~HasSync(line[e])
    BY <1>2 DEF HasSync
  <1>4. HasSync(line[e])' = HasSync(line[e]) /\ HasSync(line[f])' = HasSync(line[f])
    BY <1>1 DEF HasSync
  <1>5. /\ tpc'[e] = "idle" /\ tpc'[f] = tpc[f] /\ tx_index'[e] = 0 /\ rx_index'[e] = 0
        /\ tx_index'[f] = tx_index[f] /\ rx_index'[f] = rx_index[f]
    BY <1>1, <1>p, <1>t
  <1>6. Tx(e)' = Tx(e) /\ Rx(e)' = Rx(e) /\ Tx(f)' = Tx(f) /\ Rx(f)' = Rx(f)
    <2>1. Resetting(e) /\ ~Resetting(e)'
      BY <1>1, <1>3, <1>4, <1>5 DEF Resetting
    <2>2. Resetting(f)' = Resetting(f)
      BY <1>4, <1>5 DEF Resetting
    <2>3. Got(e)' = 0
      <3>1. ~Locked(e)'
        BY <1>1 DEF Locked
      <3> QED BY <3>1, <1>5 DEF Got
    <2>4. Got(f)' = Got(f)
      BY <1>1, <1>5, <1>p, GotKeeps
    <2> QED BY <2>1, <2>2, <2>3, <2>4, <1>5 DEF Tx, Rx
  <1>7. DirInv(e)'
    <2>1. Dir(Tx(e), Rx(f), send_pendding[e], "idle", index[e], sent[e], line[f], line[e], arrived[f],
              completed[e])
      BY <1>1, <1>f, <1>y, DirFacts, DirIdle
    <2> QED BY <2>1, <1>1, <1>5, <1>6, <1>f DEF DirInv
  <1>8. DirInv(f)'
    BY <1>1, <1>5, <1>6, <1>f, <1>p, DirFacts DEF DirInv
  <1>9. SyncInv(e)'
    BY <1>3, <1>4, <1>5 DEF SyncInv
  <1>10. SyncInv(f)'
    BY <1>1, <1>4, <1>5, <1>p DEF SyncInv, GoodInv
  <1> QED BY <1>7, <1>8, <1>9, <1>10, <1>p DEF GoodInv

\* A package that is no SYNC has arrived: neither end is being reset.
LEMMA Calm ==
    ASSUME TypeInv, GoodInv, NEW e \in Ends, NEW f, f = Peer(e),
           line[e] # <<>>, line[e][1].type # "SYNC"
    PROVE  /\ ~HasSync(line[e]) /\ ~HasSync(line[f])
           /\ tpc[e] # "sync" /\ tpc[f] # "sync"
           /\ Tx(e) = tx_index[e] /\ Rx(e) = Got(e) /\ Tx(f) = tx_index[f] /\ Rx(f) = Got(f)
  <1>p. f \in Ends /\ f # e /\ Peer(f) = e /\ \A x \in Ends : x = e \/ x = f
    BY PeerFacts
  <1>1. 1 \in 1 .. Len(line[e])
    BY DirTypes, TailAt
  <1>2. ~HasSync(line[e]) /\ tpc[e] # "sync"
    BY DEF GoodInv, SyncInv
  <1>3. ~HasSync(line[f]) /\ tpc[f] # "sync"
    BY <1>1, <1>p DEF GoodInv, SyncInv
  <1> QED BY <1>2, <1>3 DEF Tx, Rx, Resetting

\* So it is after the package was taken and perhaps answered.
LEMMA CalmFrame ==
    ASSUME TypeInv, GoodInv, NEW e \in Ends, NEW f, f = Peer(e),
           line[e] # <<>>, line[e][1].type # "SYNC", tpc' = tpc,
           line'[e] = Tail(line[e]) \/ line'[e] = line[e],
           NEW x \in Package, x.type # "SYNC", line'[f] = line[f] \/ line'[f] = Append(line[f], x)
    PROVE  /\ SyncInv(e)' /\ SyncInv(f)'
           /\ Tx(e)' = tx_index'[e] /\ Rx(e)' = Got(e)'
           /\ Tx(f)' = tx_index'[f] /\ Rx(f)' = Got(f)'
  <1>p. f \in Ends /\ f # e /\ Peer(f) = e
    BY PeerFacts
  <1>1. ~HasSync(line[e]) /\ ~HasSync(line[f]) /\ tpc[e] # "sync" /\ tpc[f] # "sync"
    BY Calm
  <1>2. line[e] \in Seq(Package) /\ line[f] \in Seq(Package)
    BY <1>p, DirTypes
  <1>3. ~HasSync(Tail(line[e])) /\ ~HasSync(Append(line[f], x))
    BY <1>1, <1>2, HasSyncTail, HasSyncAppend
  <1>4. ~HasSync(line[e])' /\ ~HasSync(line[f])'
    BY <1>1, <1>3 DEF HasSync
  <1>5. ~Resetting(e)' /\ ~Resetting(f)'
    BY <1>1, <1>4 DEF Resetting
  <1>6. SyncInv(e)' /\ SyncInv(f)'
    BY <1>1, <1>4 DEF SyncInv
  <1> QED BY <1>5, <1>6 DEF Tx, Rx

\* Steps that leave the lines, the sender and what was accepted last.
LEMMA GoodFrame ==
    ASSUME GoodInv, \A x \in Ends : Got(x)' = Got(x),
           UNCHANGED <<tx_index, send_pendding, tpc, index, sent, line, arrived, completed>>
    PROVE  GoodInv'
  <1>0. \A x \in Ends : Resetting(x)' = Resetting(x)
    BY DEF Resetting, HasSync
  <1>1. \A x \in Ends : Tx(x)' = Tx(x) /\ Rx(x)' = Rx(x)
    BY <1>0 DEF Tx, Rx
  <1>2. ASSUME NEW x \in Ends
        PROVE  DirInv(x)' /\ SyncInv(x)'
    <2>1. Tx(x)' = Tx(x) /\ Rx(Peer(x))' = Rx(Peer(x))
      BY <1>1, PeerFacts
    <2>2. DirInv(x)'
      BY <2>1 DEF GoodInv, DirInv
    <2>3. SyncInv(x)'
      BY DEF GoodInv, SyncInv, HasSync
    <2> QED BY <2>2, <2>3
  <1> QED BY <1>2 DEF GoodInv

\* An end leaves the first package on the line or takes it, no SYNC, and answers with x or
\* not at all: what is left to show is each direction without the answer, and with it the
\* direction it acknowledges.
LEMMA ReceiveFrame ==
    ASSUME TypeInv, GoodInv, NEW e \in Ends, NEW f, f = Peer(e),
           line[e] # <<>>, line[e][1].type # "SYNC",
           UNCHANGED <<tpc, index, sent, completed>>,
           NEW m, m = Tail(line[e]) \/ m = line[e], line'[e] = m,
           NEW x \in Package, x.type = "ACK", line'[f] = line[f] \/ line'[f] = Append(line[f], x),
           send_pendding'[f] = send_pendding[f], tx_index'[f] = tx_index[f],
           Got(f)' = Got(f), arrived'[f] = arrived[f],
           NEW g, Got(e)' = g,
           tx_index'[e] \in 0 .. Mod - 1, send_pendding'[e] \in BOOLEAN,
           Dir(tx_index'[e], Got(f), send_pendding'[e], tpc[e], index[e], sent[e],
               line[f], m, arrived[f], completed[e]),
           Dir(tx_index[f], g, send_pendding[f], tpc[f], index[f], sent[f],
               m, line'[f], arrived'[e], completed[f])
    PROVE  GoodInv'
  <1>p. f \in Ends /\ f # e /\ Peer(f) = e /\ \A z \in Ends : z = e \/ z = f
    BY PeerFacts
  <1>y. /\ Rx(f) \in 0 .. Mod - 1 /\ sent[e] \in Nat
        /\ line[e] \in Seq(Package) /\ line[f] \in Seq(Package) /\ arrived[f] \in Seq(Nat)
    BY <1>p, DirTypes
  <1>z. m \in Seq(Package)
    BY <1>y, TailAt
  <1>x. x.type # "SYNC" /\ ~IsMsg(x)
    BY DEF IsMsg
  <1>1. Rx(f) = Got(f)
    BY Calm
  <1>2. /\ SyncInv(e)' /\ SyncInv(f)'
        /\ Tx(e)' = tx_index'[e] /\ Rx(e)' = g
        /\ Tx(f)' = tx_index[f] /\ Rx(f)' = Got(f)
    BY <1>x, CalmFrame
  <1>3. Dir(tx_index'[e], Rx(f), send_pendding'[e], tpc[e], index[e], sent[e], line[f],
            m, arrived[f], completed[e])
    BY <1>1
  <1>4. Dir(tx_index'[e], Rx(f), send_pendding'[e], tpc[e], index[e], sent[e], Append(line[f], x),
            m, arrived[f], completed[e])
    BY <1>3, <1>x, <1>y, <1>z, DirOtherMsg
  <1>5. DirInv(e)'
    BY <1>1, <1>2, <1>3, <1>4 DEF DirInv
  <1>6. DirInv(f)'
    BY <1>2, <1>p DEF DirInv
  <1> QED BY <1>2, <1>5, <1>6, <1>p DEF GoodInv

\* There are acknowledgements.
LEMMA SomeAck == \E x \in Package : x.type = "ACK"
  <1>1. 0 \in 0 .. Mod - 1
    BY JwpAssumption
  <1>2. [type |-> "ACK", index |-> 0] \in Package
    BY <1>1, PackageFacts
  <1> QED BY <1>2

\* A package is taken without an answer: there is no room, it is lost, or it acknowledges
\* what is no longer waited for.
LEMMA TakenKeeps ==
    ASSUME TypeInv, GoodInv, NEW e \in Ends, line[e] # <<>>, line[e][1].type # "SYNC",
           UNCHANGED <<tx_index, send_pendding, tpc, index, sent, completed, arrived>>,
           Got(e)' = Got(e), Got(Peer(e))' = Got(Peer(e)),
           line' = Took(e)
    PROVE  GoodInv'
  <1>f. PICK f : f = Peer(e)
    OBVIOUS
  <1>p. f \in Ends /\ f # e /\ Peer(f) = e /\ \A z \in Ends : z = e \/ z = f
    BY <1>f, PeerFacts
  <1>x. PICK x \in Package : x.type = "ACK"
    BY SomeAck
  <1>y. /\ Tx(e) \in 0 .. Mod - 1 /\ Rx(f) \in 0 .. Mod - 1 /\ send_pendding[e] \in BOOLEAN
        /\ Tx(f) \in 0 .. Mod - 1 /\ Rx(e) \in 0 .. Mod - 1 /\ send_pendding[f] \in BOOLEAN
        /\ sent[e] \in Nat /\ line[e] \in Seq(Package) /\ line[f] \in Seq(Package)
        /\ arrived[f] \in Seq(Nat) /\ arrived[e] \in Seq(Nat) /\ sent[f] \in Nat
    BY <1>p, DirTypes
  <1>1. line[e] # <<>> /\ line[e][1].type # "SYNC"
    OBVIOUS
  <1>l. line'[e] = Tail(line[e]) /\ line'[f] = line[f]
    BY <1>f, TookFacts DEF TypeInv
  <1>2. Tx(e) = tx_index[e] /\ Rx(e) = Got(e) /\ Tx(f) = tx_index[f] /\ Rx(f) = Got(f)
    BY <1>1, <1>f, Calm
  <1>3. Dir(Tx(e), Rx(f), send_pendding[e], tpc[e], index[e], sent[e], line[f], line[e], arrived[f],
            completed[e])
    BY <1>f, DirFacts
  <1>4. Dir(Tx(f), Rx(e), send_pendding[f], tpc[f], index[f], sent[f], line[e], line[f], arrived[e],
            completed[f])
    BY <1>f, DirFacts
  <1>5. Dir(Tx(e), Rx(f), send_pendding[e], tpc[e], index[e], sent[e], line[f], Tail(line[e]),
            arrived[f], completed[e])
    BY <1>1, <1>3, <1>y, DirTakeAck
  <1>6. Dir(Tx(f), Rx(e), send_pendding[f], tpc[f], index[f], sent[f], Tail(line[e]), line[f],
            arrived[e], completed[f])
    BY <1>1, <1>4, <1>y, DirTakeMsg
  <1>7. /\ tx_index'[e] \in 0 .. Mod - 1 /\ send_pendding'[e] \in BOOLEAN
        /\ send_pendding'[f] = send_pendding[f] /\ tx_index'[f] = tx_index[f]
        /\ Got(f)' = Got(f) /\ arrived'[f] = arrived[f]
    BY <1>2, <1>f, <1>y
  <1>8. Dir(tx_index'[e], Got(f), send_pendding'[e], tpc[e], index[e], sent[e],
            line[f], Tail(line[e]), arrived[f], completed[e])
    BY <1>2, <1>5
  <1>9. Dir(tx_index[f], Got(e), send_pendding[f], tpc[f], index[f], sent[f],
            Tail(line[e]), line'[f], arrived'[e], completed[f])
    BY <1>l, <1>2, <1>6
  <1> QED BY <1>f, <1>x, <1>l, <1>7, <1>8, <1>9, ReceiveFrame

\* A thread is done with the package: it was the only one, and the package is gone.
LEMMA DoneFacts ==
    ASSUME TypeInv, StagesInv, NEW e \in Ends, NEW t \in Fillers,
           at[e][t] \in {"check", "ack"}, Moves(e, t, "none"), rx_index'[Peer(e)] = rx_index[Peer(e)],
           \/ line'[Peer(e)] = line[Peer(e)]
           \/ \E p \in Package : line'[Peer(e)] = Append(line[Peer(e)], p)
    PROVE  /\ Got(e) = rx_index[e] /\ Got(e)' = rx_index'[e] /\ Got(Peer(e))' = Got(Peer(e))
           /\ line[e] # <<>> /\ Freed(e, t) = Took(e)
           /\ \A u \in Fillers : at'[e][u] = "none"
           /\ at'[Peer(e)] = at[Peer(e)]
  <1>t. at \in [Ends -> [Fillers -> Stages]] /\ "none" \in Stages
    BY TypeFacts DEF StagesOK, Stages
  <1>1. /\ at'[e][t] = "none" /\ at'[e][Other(t)] = at[e][Other(t)] /\ at'[Peer(e)] = at[Peer(e)]
    BY <1>t, MovesFacts
  <1>2. at[e][t] # "none" /\ at[e][t] # "set" /\ at[e][Other(t)] = "none"
    BY DEF StagesInv, StageInv
  <1>3. \A u \in Fillers : at'[e][u] = "none" /\ at[e][u] # "set"
    BY <1>1, <1>2, OtherFacts
  <1>4. ~Locked(e) /\ ~Locked(e)'
    BY <1>3 DEF Locked
  <1>5. line[e] # <<>>
    BY <1>2, TypeFacts DEF StagesOK, InUse
  <1>6. Got(Peer(e))' = Got(Peer(e))
    BY <1>1, PeerFacts, GotKeeps
  <1>7. Got(e) = rx_index[e] /\ Got(e)' = rx_index'[e]
    BY <1>4 DEF Got
  <1> QED BY <1>1, <1>2, <1>3, <1>5, <1>6, <1>7 DEF Freed

\* A package is thrown because the last data are still there.
LEMMA ThrowKeeps ==
    ASSUME TypeInv, GoodInv, StagesInv, NEW e \in Ends, NEW t \in Fillers, RecvThrow(e, t), odd' = {}
    PROVE  GoodInv'
  <1>1. /\ at[e][t] \in {"check", "ack"} /\ Moves(e, t, "none") /\ line' = Freed(e, t)
        /\ line[e][1].type # "SYNC"
        /\ UNCHANGED <<tx_index, rx_index, send_pendding, tpc, index, sent, completed, arrived>>
    BY DEF RecvThrow, MayRun, Done, First, sender, receiver
  <1>2. line[e] # <<>>
    BY <1>1, TypeFacts DEF StagesOK, InUse
  <1>3. line'[Peer(e)] = line[Peer(e)]
    BY <1>1, <1>2, FreedFacts DEF TypeInv
  <1>4. Got(e)' = Got(e) /\ Got(Peer(e))' = Got(Peer(e)) /\ Freed(e, t) = Took(e)
    BY <1>1, <1>3, DoneFacts
  <1> QED BY <1>1, <1>2, <1>4, TakenKeeps

\* The package accepted last is acknowledged, perhaps once more.
LEMMA AnswerKeeps ==
    ASSUME TypeInv, GoodInv, StagesInv, NEW e \in Ends, NEW t \in Fillers, jwp_send_ack_package(e, t)
    PROVE  GoodInv'
  <1>f. PICK f : f = Peer(e)
    OBVIOUS
  <1>p. f \in Ends /\ f # e /\ Peer(f) = e /\ \A z \in Ends : z = e \/ z = f
    BY <1>f, PeerFacts
  <1>y. /\ Tx(e) \in 0 .. Mod - 1 /\ Rx(f) \in 0 .. Mod - 1 /\ send_pendding[e] \in BOOLEAN
        /\ Tx(f) \in 0 .. Mod - 1 /\ Rx(e) \in 0 .. Mod - 1 /\ send_pendding[f] \in BOOLEAN
        /\ sent[e] \in Nat /\ line[e] \in Seq(Package) /\ line[f] \in Seq(Package)
        /\ arrived[f] \in Seq(Nat) /\ arrived[e] \in Seq(Nat) /\ sent[f] \in Nat
    BY <1>p, DirTypes
  <1>x. PICK x : x = [type |-> "ACK", index |-> line[e][1].index]
    OBVIOUS
  <1>a. /\ at[e][t] = "ack" /\ at[e][t] \in {"check", "ack"} /\ Moves(e, t, "none")
        /\ line' = Put(Freed(e, t), f, x)
        /\ UNCHANGED <<tx_index, rx_index, send_pendding, tpc, index, sent, completed, arrived>>
    BY <1>f, <1>x DEF jwp_send_ack_package, sender, receiver
  <1>1. /\ line[e] # <<>> /\ IsMsg(line[e][1]) /\ line[e][1].type # "SYNC"
        /\ line[e][1].index = rx_index[e]
    <2>1. IsMsg(line[e][1]) /\ line[e][1].index = rx_index[e]
      BY <1>a DEF StagesInv, StageInv
    <2>2. line[e] # <<>>
      BY <1>a, TypeFacts DEF StagesOK, InUse
    <2> QED BY <2>1, <2>2 DEF IsMsg
  <1>b. x \in Package /\ x.type = "ACK" /\ x.index = line[e][1].index
    BY <1>1, <1>x, TookFacts, PackageFacts DEF TypeInv
  <1>c. Freed(e, t) \in [Ends -> Seq(Package)] /\ Freed(e, t)[f] = line[f]
    BY <1>1, <1>f, FreedFacts DEF TypeInv
  <1>d. line'[f] = Append(line[f], x) /\ line'[e] = Freed(e, t)[e]
    <2>1. f \in Ends /\ Freed(e, t) \in [Ends -> Seq(Package)] /\ x \in Package
      BY <1>b, <1>c, <1>p
    <2>2. /\ Put(Freed(e, t), f, x)[Peer(f)] = Freed(e, t)[Peer(f)]
          /\ Put(Freed(e, t), f, x)[f] = Append(Freed(e, t)[f], x)
      BY <2>1, PutFacts
    <2> QED BY <2>2, <1>a, <1>c, <1>p
  <1>g. Got(e) = rx_index[e] /\ Got(e)' = rx_index'[e] /\ Got(f)' = Got(f) /\ Freed(e, t) = Took(e)
    BY <1>a, <1>b, <1>d, <1>f, DoneFacts
  <1>l. line'[e] = Tail(line[e])
    BY <1>1, <1>d, <1>g, TookFacts DEF TypeInv
  <1>2. Tx(e) = tx_index[e] /\ Rx(e) = Got(e) /\ Tx(f) = tx_index[f] /\ Rx(f) = Got(f)
    BY <1>1, <1>f, Calm
  <1>3. Dir(Tx(e), Rx(f), send_pendding[e], tpc[e], index[e], sent[e], line[f], line[e], arrived[f],
            completed[e])
    BY <1>f, DirFacts
  <1>4. Dir(Tx(f), Rx(e), send_pendding[f], tpc[f], index[f], sent[f], line[e], line[f], arrived[e],
            completed[f])
    BY <1>f, DirFacts
  <1>5. Dir(Tx(e), Rx(f), send_pendding[e], tpc[e], index[e], sent[e], line[f], Tail(line[e]),
            arrived[f], completed[e])
    BY <1>1, <1>3, <1>y, DirTakeAck
  <1>6. Dir(Tx(f), Rx(e), send_pendding[f], tpc[f], index[f], sent[f], Tail(line[e]), line[f],
            arrived[e], completed[f])
    BY <1>1, <1>4, <1>y, DirTakeMsg
  <1>z. Tail(line[e]) \in Seq(Package) /\ x.index = Rx(e)
    BY <1>1, <1>2, <1>b, <1>g, <1>y, TailAt
  <1>7. Dir(Tx(f), Rx(e), send_pendding[f], tpc[f], index[f], sent[f], Tail(line[e]),
            Append(line[f], x), arrived[e], completed[f])
    BY <1>6, <1>b, <1>y, <1>z, DirAnswer
  <1>8. /\ tx_index'[e] \in 0 .. Mod - 1 /\ send_pendding'[e] \in BOOLEAN
        /\ send_pendding'[f] = send_pendding[f] /\ tx_index'[f] = tx_index[f]
        /\ arrived'[f] = arrived[f] /\ Got(e)' = Got(e)
    BY <1>a, <1>g, <1>2, <1>y
  <1>9. Dir(tx_index'[e], Got(f), send_pendding'[e], tpc[e], index[e], sent[e],
            line[f], Tail(line[e]), arrived[f], completed[e])
    BY <1>a, <1>2, <1>5
  <1>10. Dir(tx_index[f], Got(e), send_pendding[f], tpc[f], index[f], sent[f],
             Tail(line[e]), line'[f], arrived'[e], completed[f])
    BY <1>a, <1>d, <1>2, <1>7
  <1>u. UNCHANGED <<tpc, index, sent, completed>>
    BY <1>a
  <1> QED BY <1>1, <1>f, <1>b, <1>d, <1>g, <1>l, <1>u, <1>8, <1>9, <1>10, ReceiveFrame

\* A new package is accepted: it stays in rx_pkg and counts as received.
LEMMA NewKeeps ==
    ASSUME TypeInv, GoodInv, StagesInv, NEW e \in Ends, NEW t \in Fillers, RecvNew(e, t)
    PROVE  GoodInv'
  <1>f. PICK f : f = Peer(e)
    OBVIOUS
  <1>p. f \in Ends /\ f # e /\ Peer(f) = e /\ \A z \in Ends : z = e \/ z = f
    BY <1>f, PeerFacts
  <1>y. /\ Tx(e) \in 0 .. Mod - 1 /\ Rx(f) \in 0 .. Mod - 1 /\ send_pendding[e] \in BOOLEAN
        /\ Tx(f) \in 0 .. Mod - 1 /\ Rx(e) \in 0 .. Mod - 1 /\ send_pendding[f] \in BOOLEAN
        /\ sent[e] \in Nat /\ line[e] \in Seq(Package) /\ line[f] \in Seq(Package)
        /\ arrived[f] \in Seq(Nat) /\ arrived[e] \in Seq(Nat) /\ sent[f] \in Nat
    BY <1>p, DirTypes
  <1>x. PICK x \in Package : x.type = "ACK"
    BY SomeAck
  <1>a. /\ at[e][t] = "check" /\ at[e][Other(t)] # "set" /\ Moves(e, t, "set")
        /\ IsMsg(line[e][1]) /\ line[e][1].index # rx_index[e]
        /\ arrived' = [arrived EXCEPT ![e] = Append(@, line[e][1].msg)]
        /\ UNCHANGED <<tx_index, rx_index, send_pendding, line, tpc, index, sent, completed>>
    BY DEF RecvNew, MayRun, First, IsMsg, sender
  <1>1. line[e] # <<>> /\ IsMsg(line[e][1]) /\ line[e][1].type # "SYNC"
    <2>1. line[e] # <<>>
      BY <1>a, TypeFacts DEF StagesOK, InUse
    <2> QED BY <2>1, <1>a DEF IsMsg
  <1>t. arrived \in [Ends -> Seq(Nat)] /\ at \in [Ends -> [Fillers -> Stages]] /\ "set" \in Stages
    BY TypeFacts DEF StagesOK, Stages
  <1>g. Got(e) = rx_index[e] /\ Got(e)' = line[e][1].index /\ Got(f)' = Got(f)
    <2>1. at'[e][t] = "set" /\ at'[f] = at[f]
      BY <1>a, <1>f, <1>t, MovesFacts
    <2>2. ~Locked(e) /\ Locked(e)'
      <3>1. \A u \in Fillers : at[e][u] # "set"
        BY <1>a, OtherFacts
      <3> QED BY <3>1, <2>1 DEF Locked
    <2>3. Got(f)' = Got(f)
      BY <2>1, <1>a, <1>p, GotKeeps
    <2> QED BY <2>2, <2>3, <1>a DEF Got
  <1>2. Tx(e) = tx_index[e] /\ Rx(e) = Got(e) /\ Tx(f) = tx_index[f] /\ Rx(f) = Got(f)
    BY <1>1, <1>f, Calm
  <1>3. Dir(Tx(e), Rx(f), send_pendding[e], tpc[e], index[e], sent[e], line[f], line[e], arrived[f],
            completed[e])
    BY <1>f, DirFacts
  <1>4. Dir(Tx(f), Rx(e), send_pendding[f], tpc[f], index[f], sent[f], line[e], line[f], arrived[e],
            completed[f])
    BY <1>f, DirFacts
  <1>n. sent[f] > 0
    <2>1. Messages(line[e], sent[f]) /\ 1 \in 1 .. Len(line[e])
      BY <1>1, <1>f, <1>y, TailAt DEF TypeInv, Numbered
    <2>2. line[e][1].msg \in 1 .. sent[f]
      BY <2>1, <1>1 DEF Messages
    <2> QED BY <2>2, <1>y
  <1>o. line[e][1].index # Rx(e)
    BY <1>a, <1>g, <1>2
  <1>6. Dir(Tx(f), line[e][1].index, send_pendding[f], tpc[f], index[f], sent[f], line[e],
            line[f], Append(arrived[e], line[e][1].msg), completed[f])
    BY <1>1, <1>4, <1>n, <1>o, <1>y, DirNew
  <1>8. /\ tx_index'[e] \in 0 .. Mod - 1 /\ send_pendding'[e] \in BOOLEAN
        /\ send_pendding'[f] = send_pendding[f] /\ tx_index'[f] = tx_index[f]
        /\ arrived'[f] = arrived[f] /\ arrived'[e] = Append(arrived[e], line[e][1].msg)
    BY <1>a, <1>2, <1>p, <1>t, <1>y
  <1>9. Dir(tx_index'[e], Got(f), send_pendding'[e], tpc[e], index[e], sent[e],
            line[f], line[e], arrived[f], completed[e])
    BY <1>a, <1>2, <1>3
  <1>10. Dir(tx_index[f], line[e][1].index, send_pendding[f], tpc[f], index[f], sent[f],
             line[e], line'[f], arrived'[e], completed[f])
    BY <1>a, <1>2, <1>6, <1>8
  <1>u. /\ UNCHANGED <<tpc, index, sent, completed>>
        /\ line'[e] = line[e] /\ line'[f] = line[f]
    BY <1>a
  <1> QED BY <1>1, <1>f, <1>x, <1>g, <1>u, <1>8, <1>9, <1>10, ReceiveFrame

\* rx_index follows what was accepted; filling and comparing change nothing yet.
LEMMA StillKeeps ==
    ASSUME TypeInv, GoodInv, StagesInv, NEW e \in Ends, NEW t \in Fillers,
           Fill(e, t) \/ RecvAgain(e, t) \/ RecvAccept(e, t), odd' = {}
    PROVE  GoodInv'
  <1>f. PICK f : f = Peer(e)
    OBVIOUS
  <1>p. f \in Ends /\ f # e /\ Peer(f) = e /\ \A z \in Ends : z = e \/ z = f
    BY <1>f, PeerFacts
  <1>t. /\ at \in [Ends -> [Fillers -> Stages]] /\ {"check", "ack"} \subseteq Stages
        /\ rx_index \in [Ends -> 0 .. Mod - 1]
    BY TypeFacts DEF StagesOK, Stages
  <1>1. /\ UNCHANGED <<tx_index, send_pendding, tpc, index, sent, line, arrived, completed>>
        /\ Moves(e, t, "check") \/ Moves(e, t, "ack")
        /\ at[e][t] = "none" => ~InUse(e)
        /\ at[e][t] # "set" => rx_index' = rx_index
        /\ at[e][t] = "set" => rx_index' = [rx_index EXCEPT ![e] = line[e][1].index]
    BY DEF Fill, RecvAgain, RecvAccept, MayRun, CanFill, sender, receiver
  <1>2. at'[e][t] \in {"check", "ack"} /\ at'[e][Other(t)] = at[e][Other(t)] /\ at'[f] = at[f]
    BY <1>1, <1>f, <1>t, MovesFacts
  <1>3. at[e][Other(t)] = "none"
    <2>1. CASE at[e][t] = "none"
      BY <2>1, <1>1, OtherFacts DEF InUse
    <2>2. CASE at[e][t] # "none"
      BY <2>2 DEF StagesInv, StageInv
    <2> QED BY <2>1, <2>2
  <1>4. ~Locked(e)' /\ (Locked(e) <=> at[e][t] = "set")
    <2>1. \A u \in Fillers : at'[e][u] # "set"
      BY <1>2, <1>3, OtherFacts
    <2>2. Locked(e) <=> at[e][t] = "set"
      BY <1>3, OtherFacts DEF Locked
    <2> QED BY <2>1, <2>2 DEF Locked
  <1>5. Got(e)' = Got(e)
    BY <1>1, <1>4, <1>t DEF Got
  <1>6. Got(f)' = Got(f)
    <2>1. rx_index'[f] = rx_index[f]
      BY <1>1, <1>p, <1>t
    <2> QED BY <2>1, <1>1, <1>2, <1>p, GotKeeps
  <1>7. \A z \in Ends : Got(z)' = Got(z)
    BY <1>5, <1>6, <1>p
  <1> QED BY <1>1, <1>7, GoodFrame

\* The acknowledgement waited for is taken, or one that is not.
LEMMA AckKeeps ==
    ASSUME TypeInv, GoodInv, StagesInv, NEW e \in Ends, NEW t \in Fillers, RecvAck(e, t)
    PROVE  GoodInv'
  <1>f. PICK f : f = Peer(e)
    OBVIOUS
  <1>p. f \in Ends /\ f # e /\ Peer(f) = e /\ \A z \in Ends : z = e \/ z = f
    BY <1>f, PeerFacts
  <1>y. /\ Tx(e) \in 0 .. Mod - 1 /\ Rx(f) \in 0 .. Mod - 1 /\ send_pendding[e] \in BOOLEAN
        /\ Tx(f) \in 0 .. Mod - 1 /\ Rx(e) \in 0 .. Mod - 1 /\ send_pendding[f] \in BOOLEAN
        /\ sent[e] \in Nat /\ line[e] \in Seq(Package) /\ line[f] \in Seq(Package)
        /\ arrived[f] \in Seq(Nat) /\ arrived[e] \in Seq(Nat) /\ sent[f] \in Nat
    BY <1>p, DirTypes
  <1>a. /\ at[e][t] \in {"check", "ack"} /\ Moves(e, t, "none") /\ line' = Freed(e, t)
        /\ line[e][1].type = "ACK"
        /\ UNCHANGED <<rx_index, tpc, index, sent, completed, arrived>>
    BY DEF RecvAck, MayRun, Done, First, sender, receiver
  <1>b. line[e] # <<>>
    BY <1>a, TypeFacts DEF StagesOK, InUse
  <1>c. line'[f] = line[f]
    BY <1>a, <1>b, <1>f, FreedFacts DEF TypeInv
  <1>g. Got(e)' = Got(e) /\ Got(f)' = Got(f) /\ Freed(e, t) = Took(e)
    BY <1>a, <1>c, <1>f, DoneFacts
  <1>1. /\ line[e] # <<>> /\ line[e][1].type = "ACK" /\ line' = Took(e)
        /\ UNCHANGED <<rx_index, tpc, index, sent, completed, arrived>>
    BY <1>a, <1>b, <1>g
  <1>t. tx_index \in [Ends -> 0 .. Mod - 1] /\ send_pendding \in [Ends -> BOOLEAN]
    BY TypeFacts
  <1>2. Tx(e) = tx_index[e] /\ Rx(e) = Got(e) /\ Tx(f) = tx_index[f] /\ Rx(f) = Got(f)
    BY <1>1, <1>f, Calm
  <1>3. Dir(Tx(e), Rx(f), send_pendding[e], tpc[e], index[e], sent[e], line[f], line[e], arrived[f],
            completed[e])
    BY <1>f, DirFacts
  <1>4. Dir(Tx(f), Rx(e), send_pendding[f], tpc[f], index[f], sent[f], line[e], line[f], arrived[e],
            completed[f])
    BY <1>f, DirFacts
  <1>5. CASE line[e][1].index = NextIndex(tx_index[e])
    <2>1. /\ tx_index' = [tx_index EXCEPT ![e] = line[e][1].index]
          /\ send_pendding' = [send_pendding EXCEPT ![e] = FALSE]
      BY <1>5 DEF RecvAck
    <2>2. /\ line[e][1].index = Rx(f)
          /\ Dir(Rx(f), Rx(f), FALSE, tpc[e], index[e], sent[e], line[f], Tail(line[e]), arrived[f],
                 completed[e])
      <3>1. line[e][1].index # Tx(e)
        BY <1>2, <1>5, <1>y, NextFacts
      <3>2. line[e] # <<>> /\ IsAck(line[e][1])
        BY <1>1 DEF IsAck
      <3>3. /\ Tx(e) \in 0 .. Mod - 1 /\ Rx(f) \in 0 .. Mod - 1 /\ send_pendding[e] \in BOOLEAN
            /\ sent[e] \in Nat /\ line[f] \in Seq(Package) /\ line[e] \in Seq(Package)
            /\ arrived[f] \in Seq(Nat)
        BY <1>y
      <3>4. ASSUME NEW q \in BOOLEAN, ~q
            PROVE  Dir(Rx(f), Rx(f), q, tpc[e], index[e], sent[e], line[f], Tail(line[e]), arrived[f],
                       completed[e])
        BY <3>1, <3>2, <3>3, <3>4, <1>3, DirAck
      <3>5. line[e][1].index = Rx(f)
        <4>1. 1 \in 1 .. Len(line[e])
          BY <3>2, <3>3, TailAt
        <4>2. Rx(f) # Tx(e) /\ line[e][1].index = NextIndex(Tx(e))
          BY <3>1, <3>2, <4>1, <1>3 DEF Dir, Acks, IsAck
        <4> QED BY <4>2, <1>3 DEF Dir, Level
      <3> QED BY <3>4, <3>5
    <2>3. /\ tx_index'[e] = Rx(f) /\ send_pendding'[e] = FALSE
          /\ tx_index'[f] = tx_index[f] /\ send_pendding'[f] = send_pendding[f]
      BY <2>1, <2>2, <1>p, <1>t
    <2>4. Dir(Tx(f), Rx(e), send_pendding[f], tpc[f], index[f], sent[f], Tail(line[e]), line[f],
              arrived[e], completed[f])
      BY <1>1, <1>4, <1>y, DirTakeMsg
    <2>5. line'[e] = Tail(line[e]) /\ line'[f] = line[f] /\ line[e][1] \in Package
      BY <1>1, <1>f, TookFacts DEF TypeInv
    <2>6. Dir(tx_index'[e], Got(f), send_pendding'[e], tpc[e], index[e], sent[e],
              line[f], Tail(line[e]), arrived[f], completed[e])
      BY <1>2, <2>2, <2>3
    <2>7. Dir(tx_index[f], Got(e), send_pendding[f], tpc[f], index[f], sent[f],
              Tail(line[e]), line'[f], arrived'[e], completed[f])
      BY <1>1, <1>2, <2>4, <2>5
    <2>8. /\ tx_index'[e] \in 0 .. Mod - 1 /\ send_pendding'[e] \in BOOLEAN
          /\ arrived'[f] = arrived[f] /\ line[e][1].type # "SYNC"
      BY <1>1, <2>3, <1>y
    <2>9. PICK x \in Package : x.type = "ACK"
      BY SomeAck
    <2> QED BY <1>1, <1>f, <1>g, <2>3, <2>5, <2>6, <2>7, <2>8, <2>9, ReceiveFrame
  <1>6. CASE line[e][1].index # NextIndex(tx_index[e])
    <2>1. UNCHANGED <<tx_index, send_pendding>>
      BY <1>6 DEF RecvAck
    <2>2. line[e][1].type # "SYNC"
      BY <1>1
    <2> QED BY <1>1, <1>f, <1>g, <2>1, <2>2, TakenKeeps
  <1> QED BY <1>5, <1>6

\* A SYNC is taken: the indices become what they counted as already.
LEMMA RecvSyncKeeps ==
    ASSUME TypeInv, GoodInv, StagesInv, NEW e \in Ends, NEW t \in Fillers, RecvSync(e, t)
    PROVE  GoodInv'
  <1>f. PICK f : f = Peer(e)
    OBVIOUS
  <1>p. f \in Ends /\ f # e /\ Peer(f) = e /\ \A z \in Ends : z = e \/ z = f
    BY <1>f, PeerFacts
  <1>y. /\ Tx(e) \in 0 .. Mod - 1 /\ Rx(f) \in 0 .. Mod - 1 /\ send_pendding[e] \in BOOLEAN
        /\ Tx(f) \in 0 .. Mod - 1 /\ Rx(e) \in 0 .. Mod - 1 /\ send_pendding[f] \in BOOLEAN
        /\ sent[e] \in Nat /\ line[e] \in Seq(Package) /\ line[f] \in Seq(Package)
        /\ arrived[f] \in Seq(Nat) /\ arrived[e] \in Seq(Nat) /\ sent[f] \in Nat
    BY <1>p, DirTypes
  <1>3. Dir(Tx(e), Rx(f), send_pendding[e], tpc[e], index[e], sent[e], line[f], line[e], arrived[f],
            completed[e])
    BY <1>f, DirFacts
  <1>4. Dir(Tx(f), Rx(e), send_pendding[f], tpc[f], index[f], sent[f], line[e], line[f], arrived[e],
            completed[f])
    BY <1>f, DirFacts
  <1>t. tx_index \in [Ends -> 0 .. Mod - 1] /\ rx_index \in [Ends -> 0 .. Mod - 1]
    BY TypeFacts
  <1>a. /\ at[e][t] \in {"check", "ack"} /\ Moves(e, t, "none") /\ line' = Freed(e, t)
        /\ line[e][1].type = "SYNC"
        /\ tx_index' = [tx_index EXCEPT ![e] = 0] /\ rx_index' = [rx_index EXCEPT ![e] = 0]
        /\ UNCHANGED <<send_pendding, tpc, index, sent, completed, arrived>>
    BY DEF RecvSync, MayRun, Done, First, sender, receiver
  <1>b. line[e] # <<>>
    BY <1>a, TypeFacts DEF StagesOK, InUse
  <1>8. /\ tx_index'[e] = 0 /\ rx_index'[e] = 0
        /\ tx_index'[f] = tx_index[f] /\ rx_index'[f] = rx_index[f]
    BY <1>a, <1>p, <1>t
  <1>c. line'[f] = line[f]
    BY <1>a, <1>b, <1>f, FreedFacts DEF TypeInv
  <1>g. Got(e)' = 0 /\ Got(f)' = Got(f) /\ Freed(e, t) = Took(e)
    BY <1>a, <1>c, <1>f, <1>8, DoneFacts
  <1>1. /\ line[e] # <<>> /\ line[e][1].type = "SYNC" /\ line' = Took(e)
        /\ UNCHANGED <<send_pendding, tpc, index, sent, completed, arrived>>
    BY <1>a, <1>b, <1>g
  <1>2. line'[e] = Tail(line[e]) /\ line'[f] = line[f]
    BY <1>1, <1>f, TookFacts DEF TypeInv
  <1>l. /\ Len(Tail(line[e])) = Len(line[e]) - 1 /\ Len(line[e]) \in Nat /\ Len(line[e]) > 0
        /\ \A i \in 1 .. Len(Tail(line[e])) :
            Tail(line[e])[i] = line[e][i + 1] /\ i + 1 \in 1 .. Len(line[e])
    BY <1>1, <1>y, TailAt
  <1>5. HasSync(line[e])
    <2>1. 1 \in 1 .. Len(line[e])
      BY <1>l
    <2> QED BY <2>1, <1>1 DEF HasSync
  <1>6. tpc[e] = "idle" /\ line[f] = <<>> /\ \A i \in 2 .. Len(line[e]) : IsMsg(line[e][i])
    BY <1>5, <1>f DEF GoodInv, SyncInv
  <1>7. ~HasSync(Tail(line[e])) /\ ~HasSync(line[f])
    <2>1. \A i \in 1 .. Len(Tail(line[e])) : i + 1 \in 2 .. Len(line[e])
      BY <1>l
    <2>2. \A i \in 1 .. Len(Tail(line[e])) : IsMsg(Tail(line[e])[i])
      BY <2>1, <1>l, <1>6
    <2>3. Len(line[f]) = 0
      BY <1>6
    <2> QED BY <2>2, <2>3 DEF HasSync, IsMsg
  <1>9. ~HasSync(line[e])' /\ ~HasSync(line[f])'
    BY <1>2, <1>7 DEF HasSync
  <1>10. Tx(e)' = Tx(e) /\ Rx(e)' = Rx(e) /\ Tx(f)' = Tx(f) /\ Rx(f)' = Rx(f)
    <2>1. Resetting(e) /\ ~Resetting(e)'
      BY <1>1, <1>5, <1>6, <1>9 DEF Resetting
    <2>2. Resetting(f)' = Resetting(f)
      BY <1>1, <1>7, <1>9 DEF Resetting
    <2> QED BY <2>1, <2>2, <1>8, <1>g DEF Tx, Rx
  <1>11. DirInv(e)'
    <2>1. Dir(Tx(e), Rx(f), send_pendding[e], tpc[e], index[e], sent[e], line[f], Tail(line[e]),
              arrived[f], completed[e])
      BY <1>1, <1>3, <1>y, DirTakeAck
    <2> QED BY <2>1, <1>1, <1>2, <1>10, <1>f DEF DirInv
  <1>12. DirInv(f)'
    <2>1. Dir(Tx(f), Rx(e), send_pendding[f], tpc[f], index[f], sent[f], Tail(line[e]), line[f],
              arrived[e], completed[f])
      BY <1>1, <1>4, <1>y, DirTakeMsg
    <2> QED BY <2>1, <1>1, <1>2, <1>10, <1>p DEF DirInv
  <1>13. SyncInv(e)'
    BY <1>1, <1>6, <1>9 DEF SyncInv
  <1>14. SyncInv(f)'
    <2>1. tpc[f] = "sync" => \A i \in 1 .. Len(line[e]) : line[e][i].type = "SYNC"
      BY <1>p DEF GoodInv, SyncInv
    <2>2. tpc[f] = "sync" => \A i \in 1 .. Len(Tail(line[e])) : Tail(line[e])[i].type = "SYNC"
      BY <2>1, <1>l
    <2> QED BY <2>2, <1>1, <1>2, <1>6, <1>9, <1>p DEF SyncInv
  <1> QED BY <1>11, <1>12, <1>13, <1>14, <1>p DEF GoodInv

-----------------------------------------------------------------------------
(* The theorems.                                                            *)

\* The stages of the end that does not step.
LEMMA StageFrame ==
    ASSUME TypeInv, NEW x \in Ends, StageInv(x), at'[x] = at[x], rx_index'[x] = rx_index[x],
           line'[x] = line[x] \/ \E p \in Package : line'[x] = Append(line[x], p)
    PROVE  StageInv(x)'
  <1>1. (\E t \in Fillers : at[x][t] # "none") => line'[x][1] = line[x][1]
    <2> SUFFICES ASSUME \E t \in Fillers : at[x][t] # "none"
                 PROVE  line'[x][1] = line[x][1]
      OBVIOUS
    <2>1. line[x] # <<>> /\ line[x] \in Seq(Package)
      BY TypeFacts DEF StagesOK, InUse, LinesOK
    <2>2. 1 \in 1 .. Len(line[x])
      BY <2>1, TailAt
    <2> QED BY <2>1, <2>2, AppendAt
  <1> QED BY <1>1 DEF StageInv, IsMsg

\* The only thread that processes the package goes on.
LEMMA StageMove ==
    ASSUME TypeInv, NEW e \in Ends, StageInv(e), NEW t \in Fillers, NEW g \in Stages, Moves(e, t, g),
           at[e][t] # "none" \/ ~InUse(e),
           g = "set" => IsMsg(line'[e][1]) /\ line'[e][1].index # rx_index'[e],
           g = "ack" => IsMsg(line'[e][1]) /\ line'[e][1].index = rx_index'[e]
    PROVE  StageInv(e)' /\ at'[Peer(e)] = at[Peer(e)]
  <1>1. at \in [Ends -> [Fillers -> Stages]]
    BY TypeFacts DEF StagesOK
  <1>2. /\ at'[e][t] = g /\ at'[e][Other(t)] = at[e][Other(t)] /\ at'[Peer(e)] = at[Peer(e)]
    BY <1>1, MovesFacts
  <1>3. at[e][Other(t)] = "none"
    <2>1. CASE ~InUse(e)
      BY <2>1, OtherFacts DEF InUse
    <2>2. CASE at[e][t] # "none"
      BY <2>2 DEF StageInv
    <2> QED BY <2>1, <2>2
  <1>4. ASSUME NEW u \in Fillers
        PROVE  /\ at'[e][u] # "none" => at'[e][Other(u)] = "none"
               /\ at'[e][u] = "set" => IsMsg(line'[e][1]) /\ line'[e][1].index # rx_index'[e]
               /\ at'[e][u] = "ack" => IsMsg(line'[e][1]) /\ line'[e][1].index = rx_index'[e]
    <2>1. CASE u = t
      BY <2>1, <1>2, <1>3
    <2>2. CASE u = Other(t)
      BY <2>2, <1>2, <1>3
    <2> QED BY <2>1, <2>2, OtherFacts
  <1> QED BY <1>2, <1>4 DEF StageInv, IsMsg

\* As long as rx_pkg is not overwritten, one thread at a time processes a package.
LEMMA OneReader ==
    ASSUME TypeInv, GoodInv, StagesInv, odd' = {}, NEW e \in Ends, Step(e)
    PROVE  StagesInv'
  <1>f. PICK f : f = Peer(e)
    OBVIOUS
  <1>p. f \in Ends /\ f # e /\ Peer(f) = e /\ \A x \in Ends : x = e \/ x = f
    BY <1>f, PeerFacts
  <1>t. /\ line \in [Ends -> Seq(Package)] /\ index \in [Ends -> 0 .. Mod - 1] /\ sent \in [Ends -> Nat]
        /\ rx_index \in [Ends -> 0 .. Mod - 1]
    BY TypeFacts DEF LinesOK
  <1>g. {"none", "check", "set", "ack"} = Stages
    BY DEF Stages
  <1>i. StageInv(e) /\ StageInv(f)
    BY <1>p DEF StagesInv
  <1>u. \A t \in Fillers : at[e][t] # "none" => line[e] # <<>>
    BY TypeFacts DEF StagesOK, InUse
  <1>s. SUFFICES ASSUME TRUE
                 PROVE  StageInv(e)' /\ StageInv(f)'
    BY <1>p DEF StagesInv
  <1>1. CASE \/ jwp_send_package(e) \/ jwp_set_package_index(e) \/ jwp_wait_tx_complete(e)
             \/ Retry(e) \/ GiveUp(e) \/ jwp_process_data(e)
    <2>1. line' = line /\ at' = at /\ rx_index' = rx_index
      BY <1>1 DEF jwp_send_package, jwp_set_package_index, jwp_wait_tx_complete, Retry, GiveUp,
                  jwp_process_data
    <2> QED BY <2>1, <1>i, <1>p, StageFrame
  <1>2. CASE Write(e) \/ jwp_send_sync(e)
    <2>1. at' = at /\ rx_index' = rx_index /\ \E x \in Package : line' = Put(line, f, x)
      <3>1. CASE Write(e)
        <4>1. [type |-> TypeOf(sent[e]), index |-> index[e], msg |-> sent[e]] \in Package
          BY <1>t, PackageFacts
        <4> QED BY <3>1, <4>1, <1>f DEF Write
      <3>2. CASE jwp_send_sync(e)
        <4>1. [type |-> "SYNC", index |-> 0] \in Package
          BY PackageFacts
        <4> QED BY <3>2, <4>1, <1>f DEF jwp_send_sync
      <3> QED BY <1>2, <3>1, <3>2
    <2>2. PICK x \in Package : line' = Put(line, f, x)
      BY <2>1
    <2>3. line'[e] = line[e] /\ line'[f] = Append(line[f], x)
      <3>1. f \in Ends /\ line \in [Ends -> Seq(Package)] /\ x \in Package
        BY <1>p, <1>t
      <3>2. Put(line, f, x)[Peer(f)] = line[Peer(f)] /\ Put(line, f, x)[f] = Append(line[f], x)
        BY <3>1, PutFacts
      <3> QED BY <3>2, <2>2, <1>p
    <2> QED BY <2>1, <2>3, <1>i, <1>p, StageFrame
  <1>3. CASE jwp_index_init(e)
    <2>1. /\ tpc[e] = "sync" /\ line' = line /\ at' = at /\ rx_index' = [rx_index EXCEPT ![e] = 0]
      BY <1>3 DEF jwp_index_init
    <2>2. line[e] = <<>>
      BY <2>1 DEF GoodInv, SyncInv
    <2>3. \A t \in Fillers : at'[e][t] = "none"
      BY <2>1, <2>2, <1>u
    <2>4. StageInv(e)'
      BY <2>3, OtherFacts DEF StageInv
    <2>5. rx_index'[f] = rx_index[f]
      BY <2>1, <1>p, <1>t
    <2> QED BY <2>1, <2>4, <2>5, <1>i, <1>p, StageFrame
  <1>4. CASE Lose(e)
    <2>1. /\ line[e] # <<>> /\ line' = Took(e) /\ at' = at /\ rx_index' = rx_index
          /\ \A t \in Fillers : at[e][t] = "none"
      BY <1>4 DEF Lose, InUse
    <2>2. StageInv(e)'
      BY <2>1, OtherFacts DEF StageInv
    <2>3. line'[f] = line[f]
      BY <2>1, <1>f, TookFacts DEF TypeInv
    <2> QED BY <2>1, <2>2, <2>3, <1>i, <1>p, StageFrame
  <1>5. ASSUME NEW t \in Fillers,
               Fill(e, t) \/ RecvAgain(e, t) \/ RecvNew(e, t) \/ RecvAccept(e, t)
        PROVE  StageInv(e)' /\ StageInv(f)'
    <2>0. line' = line
      BY <1>5 DEF Fill, RecvAgain, RecvNew, RecvAccept
    <2>1. CASE Fill(e, t)
      <3>1. Moves(e, t, "check") /\ ~InUse(e) /\ rx_index' = rx_index
        BY <2>1 DEF Fill
      <3>2. StageInv(e)' /\ at'[f] = at[f]
        BY <3>1, <1>f, <1>g, <1>i, StageMove
      <3> QED BY <2>0, <3>1, <3>2, <1>i, <1>p, StageFrame
    <2>2. CASE RecvAgain(e, t)
      <3>1. /\ Moves(e, t, "ack") /\ at[e][t] # "none" /\ rx_index' = rx_index
            /\ IsMsg(line[e][1]) /\ line[e][1].index = rx_index[e]
        BY <2>2 DEF RecvAgain, MayRun, First, IsMsg
      <3>2. IsMsg(line'[e][1]) /\ line'[e][1].index = rx_index'[e]
        BY <2>0, <3>1
      <3>3. StageInv(e)' /\ at'[f] = at[f]
        BY <3>1, <3>2, <1>f, <1>g, <1>i, StageMove
      <3> QED BY <2>0, <3>1, <3>3, <1>i, <1>p, StageFrame
    <2>3. CASE RecvNew(e, t)
      <3>1. /\ Moves(e, t, "set") /\ at[e][t] # "none" /\ rx_index' = rx_index
            /\ IsMsg(line[e][1]) /\ line[e][1].index # rx_index[e]
        BY <2>3 DEF RecvNew, MayRun, First, IsMsg
      <3>2. IsMsg(line'[e][1]) /\ line'[e][1].index # rx_index'[e]
        BY <2>0, <3>1
      <3>3. StageInv(e)' /\ at'[f] = at[f]
        BY <3>1, <3>2, <1>f, <1>g, <1>i, StageMove
      <3> QED BY <2>0, <3>1, <3>3, <1>i, <1>p, StageFrame
    <2>4. CASE RecvAccept(e, t)
      <3>1. /\ Moves(e, t, "ack") /\ at[e][t] = "set"
            /\ rx_index' = [rx_index EXCEPT ![e] = line[e][1].index]
        BY <2>4 DEF RecvAccept
      <3>2. IsMsg(line'[e][1]) /\ line'[e][1].index = rx_index'[e] /\ rx_index'[f] = rx_index[f]
        <4>1. IsMsg(line[e][1])
          BY <3>1, <1>i DEF StageInv
        <4> QED BY <2>0, <3>1, <4>1, <1>p, <1>t
      <3>3. StageInv(e)' /\ at'[f] = at[f]
        BY <3>1, <3>2, <1>f, <1>g, <1>i, StageMove
      <3> QED BY <2>0, <3>2, <3>3, <1>i, <1>p, StageFrame
    <2> QED BY <1>5, <2>1, <2>2, <2>3, <2>4
  <1>6. ASSUME NEW t \in Fillers,
               RecvThrow(e, t) \/ RecvAck(e, t) \/ RecvSync(e, t) \/ jwp_send_ack_package(e, t)
        PROVE  StageInv(e)' /\ StageInv(f)'
    <2>1. at[e][t] # "none" /\ Moves(e, t, "none")
      BY <1>6 DEF RecvThrow, RecvAck, RecvSync, jwp_send_ack_package, MayRun, Done
    <2>2. StageInv(e)' /\ at'[f] = at[f]
      BY <2>1, <1>f, <1>g, <1>i, StageMove
    <2>3. rx_index'[f] = rx_index[f]
      BY <1>6, <1>p, <1>t DEF RecvThrow, RecvAck, RecvSync, jwp_send_ack_package
    <2>4. line[e] # <<>>
      BY <2>1, <1>u
    <2>5. line'[f] = line[f] \/ \E p \in Package : line'[f] = Append(line[f], p)
      <3>1. CASE RecvThrow(e, t) \/ RecvAck(e, t) \/ RecvSync(e, t)
        <4>1. line' = Freed(e, t)
          BY <3>1 DEF RecvThrow, RecvAck, RecvSync, Done
        <4> QED BY <2>4, <4>1, <1>f, FreedFacts DEF TypeInv
      <3>2. CASE jwp_send_ack_package(e, t)
        <4>x. PICK x : x = [type |-> "ACK", index |-> line[e][1].index]
          OBVIOUS
        <4>1. line' = Put(Freed(e, t), f, x)
          BY <3>2, <1>f, <4>x DEF jwp_send_ack_package
        <4>2. x \in Package
          BY <2>4, <4>x, TookFacts, PackageFacts DEF TypeInv
        <4>3. Freed(e, t) \in [Ends -> Seq(Package)] /\ Freed(e, t)[f] = line[f] /\ f \in Ends
          BY <2>4, <1>f, <1>p, FreedFacts DEF TypeInv
        <4>4. Put(Freed(e, t), f, x)[f] = Append(Freed(e, t)[f], x)
          BY <4>2, <4>3, PutFacts
        <4> QED BY <4>1, <4>2, <4>3, <4>4
      <3> QED BY <1>6, <3>1, <3>2
    <2> QED BY <2>2, <2>3, <2>5, <1>i, <1>p, StageFrame
  <1>7. CASE Filling(e)
    <2>1. \A t \in Fillers : ~FillPart(e, t)
      BY DEF FillPart
    <2> QED BY <2>1, <1>5, <1>6, <1>7 DEF Filling, Process
  <1> QED BY <1>1, <1>2, <1>3, <1>4, <1>7 DEF Step, Sending

\* Every step keeps both directions while odd stays empty.
LEMMA GoodKeeps ==
    ASSUME TypeInv, GoodInv, StagesInv, odd' = {}, NEW e \in Ends, Step(e)
    PROVE  GoodInv'
  <1>1. CASE jwp_send_package(e)
    BY <1>1, SendKeeps
  <1>2. CASE jwp_send_sync(e)
    BY <1>2, SyncKeeps
  <1>3. CASE Sending(e)
    BY <1>3, SendingKeeps, WriteKeeps, IndexInitKeeps DEF Sending
  <1>4. CASE jwp_process_data(e)
    <2>1. UNCHANGED <<tx_index, rx_index, send_pendding, tpc, index, sent, line, at, arrived, completed>>
      BY <1>4 DEF jwp_process_data, sender
    <2>2. \A x \in Ends : Got(x)' = Got(x)
      BY <2>1 DEF Got, Locked
    <2> QED BY <2>1, <2>2, GoodFrame
  <1>5. CASE Filling(e)
    <2>1. \A t \in Fillers : ~FillPart(e, t)
      BY DEF FillPart
    <2> QED BY <1>5, <2>1, StillKeeps, ThrowKeeps, NewKeeps, AnswerKeeps, AckKeeps, RecvSyncKeeps
            DEF Filling, Process
  <1>6. CASE Lose(e)
    <2>1. /\ line[e] # <<>> /\ line[e][1].type # "SYNC" /\ line' = Took(e) /\ ~InUse(e)
          /\ UNCHANGED <<tx_index, rx_index, send_pendding, at, tpc, index, sent, completed, arrived>>
      BY <1>6 DEF Lose, First, sender, receiver
    <2>2. Got(e)' = Got(e)
      <3>1. ~Locked(e) /\ ~Locked(e)'
        BY <2>1 DEF InUse, Locked
      <3> QED BY <2>1, <3>1 DEF Got
    <2>3. Got(Peer(e))' = Got(Peer(e))
      <3>1. line'[Peer(e)] = line[Peer(e)] /\ Peer(e) \in Ends
        BY <2>1, TookFacts, PeerFacts DEF TypeInv
      <3> QED BY <2>1, <3>1, GotKeeps
    <2> QED BY <2>1, <2>2, <2>3, TakenKeeps
  <1> QED BY <1>1, <1>2, <1>3, <1>4, <1>5, <1>6 DEF Step

\* What has gone wrong stays on record.
LEMMA OddGrows ==
    ASSUME NEW e \in Ends, Step(e)
    PROVE  odd \subseteq odd'
  <1>1. CASE \/ jwp_send_package(e) \/ jwp_send_sync(e) \/ GiveUp(e) \/ jwp_index_init(e) \/ Lose(e)
    BY <1>1 DEF jwp_send_package, jwp_send_sync, GiveUp, jwp_index_init, Lose
  <1>2. CASE \/ jwp_set_package_index(e) \/ Write(e) \/ jwp_wait_tx_complete(e) \/ Retry(e)
             \/ jwp_process_data(e)
    BY <1>2 DEF jwp_set_package_index, Write, jwp_wait_tx_complete, Retry, jwp_process_data
  <1>3. ASSUME NEW t \in Fillers, Fill(e, t) \/ FillPart(e, t) \/ Process(e, t)
        PROVE  odd \subseteq odd'
    <2>1. CASE Fill(e, t) \/ FillPart(e, t)
      BY <2>1 DEF Fill, FillPart
    <2>2. CASE Process(e, t)
      BY <2>2 DEF Process, RecvAgain, RecvThrow, RecvNew, RecvAccept, jwp_send_ack_package, RecvAck,
                  RecvSync
    <2> QED BY <1>3, <2>1, <2>2
  <1> QED BY <1>1, <1>2, <1>3 DEF Step, Sending, Filling

\* jwp_init on both sides: everything is at its first value.
LEMMA InitGood ==
    ASSUME JwpInit
    PROVE  TypeInv /\ GoodInv /\ StagesInv
  <1>c. /\ Tries \in Nat \ {0} /\ LineCap \in Nat \ {0} /\ MaxSyncs \in Nat
        /\ Mod \in Nat /\ Mod > 2 /\ MaxSend \in [Ends -> Nat]
    BY JwpAssumption DEF Ends
  <1>1. LinkTypes
    <2>1. 0 \in 0 .. Mod - 1 /\ 0 \in 0 .. Tries /\ 0 \in 0 .. MaxSyncs
      BY <1>c
    <2>2. <<>> \in Seq(Package) /\ <<>> \in Seq(Nat)
      OBVIOUS
    <2>3. at \in [Ends -> [Fillers -> Stages]]
      BY DEF JwpInit, Stages
    <2> QED BY <2>1, <2>2, <2>3 DEF JwpInit, LinkTypes
  <1>2. \A x \in Ends :
            /\ Peer(x) \in Ends /\ tpc[x] = "idle" /\ sent[x] = 0 /\ line[x] = <<>> /\ data[x] = <<>>
            /\ arrived[x] = <<>> /\ completed[x] = {} /\ ~send_pendding[x]
            /\ tx_index[x] = 0 /\ rx_index[x] = 0
    BY PeerFacts DEF JwpInit
  <1>a. \A x \in Ends : \A t \in Fillers : at[x][t] = "none"
    BY DEF JwpInit
  <1>3. ASSUME NEW x \in Ends
        PROVE  Numbered(x)
    BY <1>2, <1>a, <1>c DEF Numbered, Busy, Messages, InUse
  <1>4. ASSUME NEW x \in Ends
        PROVE  DirInv(x) /\ SyncInv(x)
    <2>1. PICK y : y = Peer(x)
      OBVIOUS
    <2>2. /\ y \in Ends /\ tpc[x] = "idle" /\ tpc[y] = "idle" /\ line[x] = <<>> /\ line[y] = <<>>
          /\ ~send_pendding[x] /\ arrived[y] = <<>> /\ completed[x] = {} /\ sent[x] = 0
          /\ tx_index[x] = 0 /\ rx_index[y] = 0
      BY <2>1, <1>2
    <2>3. Tx(x) = 0 /\ Rx(y) = 0 /\ ~HasSync(line[x])
      <3>1. ~Locked(y)
        BY <2>2, <1>a DEF Locked
      <3>2. Got(y) = 0
        BY <2>2, <3>1 DEF Got
      <3> QED BY <2>2, <3>2 DEF Tx, Rx, HasSync
    <2>4. SyncInv(x)
      BY <2>2, <2>3 DEF SyncInv
    <2>5. Dir(0, 0, send_pendding[x], "idle", index[x], sent[x], <<>>, <<>>, <<>>, {})
      BY <2>2 DEF Dir, Level, Control, Busy, Packages, PackagesOrder, Acks, AcksOrder, IndexSet,
                  Accepted, Increasing, Finished
    <2> QED BY <2>1, <2>2, <2>3, <2>4, <2>5 DEF DirInv
  <1>5. StagesInv
    BY <1>a, OtherFacts DEF StagesInv, StageInv
  <1> QED BY <1>1, <1>3, <1>4, <1>5 DEF TypeInv, GoodInv

\* The inductive invariant: the types, and as long as nothing is given up or synchronised in
\* the middle of a transfer and rx_pkg is not overwritten, the relation of the two ends in
\* both directions.
THEOREM LinkInvariant == JwpSafeSpec => []LinkInv
  <1>1. JwpInit => LinkInv
    BY InitGood DEF LinkInv, TypeInv, GoodInv, StagesInv
  <1>2. LinkInv /\ [JwpNext]_vars => LinkInv'
    <2> SUFFICES ASSUME LinkInv, [JwpNext]_vars
                 PROVE  LinkInv'
      OBVIOUS
    <2>t. TypeInv /\ (odd = {} => GoodInv /\ StagesInv)
      BY DEF LinkInv, TypeInv, GoodInv, StagesInv
    <2>s. SUFFICES TypeInv' /\ (odd' = {} => GoodInv' /\ StagesInv')
      BY DEF LinkInv, TypeInv, GoodInv, StagesInv
    <2>1. CASE JwpNext
      <3>1. PICK e \in Ends : Step(e)
        BY <2>1 DEF JwpNext, Step
      <3>2. TypeInv'
        BY <3>1, <2>t, TypesKeep
      <3>3. odd' = {} => odd = {}
        BY <3>1, OddGrows
      <3>4. odd' = {} => GoodInv' /\ StagesInv'
        BY <3>1, <3>3, <2>t, GoodKeeps, OneReader
      <3> QED BY <3>2, <3>4
    <2>2. CASE UNCHANGED vars
      <3>1. TypeInv'
        BY <2>2, <2>t DEF vars, TypeInv, LinkTypes, Numbered, Messages, InUse
      <3>2. odd' = {} => GoodInv' /\ StagesInv'
        <4>1. \A x \in Ends : Got(x)' = Got(x)
          BY <2>2 DEF vars, Got, Locked
        <4>2. odd' = {} => GoodInv'
          BY <2>2, <2>t, <4>1, GoodFrame DEF vars
        <4>3. odd' = {} => StagesInv'
          BY <2>2, <2>t, StageFrame DEF vars, StagesInv
        <4> QED BY <4>2, <4>3
      <3> QED BY <3>1, <3>2
    <2> QED BY <2>1, <2>2
  <1> QED BY <1>1, <1>2, PTL DEF JwpSafeSpec

\* Types and bounds: the indices stay in jwp_u8's range, the lines within their
\* capacity, and only messages that were sent are accepted or completed.
THEOREM LinkTypesHold == JwpSpec => []JwpTypeOK
  <1>1. LinkInv => JwpTypeOK
    <2> SUFFICES ASSUME LinkInv
                 PROVE  JwpTypeOK
      OBVIOUS
    <2>1. LinkTypes /\ \A e \in Ends : Numbered(e)
      BY DEF LinkInv
    <2>2. ASSUME NEW e \in Ends
          PROVE  /\ sent[e] \in 0 .. MaxSend[e]
                 /\ line[e] \in Seq(Package) /\ Len(line[e]) <= LineCap + 1
                 /\ Len(data[e]) <= 1
                 /\ completed[e] \subseteq 1 .. sent[e]
                 /\ ToSet(arrived[e]) \subseteq 1 .. sent[Peer(e)]
      <3>1. sent[e] \in Nat /\ MaxSend[e] \in Nat /\ sent[e] <= MaxSend[e]
        BY <2>1, JwpAssumption DEF LinkTypes, Numbered, Ends
      <3>2. line[e] \in Seq(Package) /\ arrived[e] \in Seq(Nat)
        BY <2>1 DEF LinkTypes
      <3>3. ToSet(arrived[e]) \subseteq 1 .. sent[Peer(e)]
        BY <2>1, <3>2 DEF ToSet, Numbered
      <3> QED BY <2>1, <3>1, <3>2, <3>3 DEF Numbered
    <2> QED BY <2>1, <2>2 DEF JwpTypeOK, LinkTypes
  <1> QED BY <1>1, LinkInvariant, PTL DEF JwpSpec

\* jwp_process_package accepts each message once and in the order of jwp_send_package, for
\* every range of the index above 2, every capacity of the line and every number of messages,
\* on two threads, until one overwrites the rx_pkg that the other reads or one of the
\* other odd events happens.
THEOREM AcceptedInOrder == JwpSpec => []AcceptedOnceInOrder
  <1>1. LinkInv => AcceptedOnceInOrder
    <2> SUFFICES ASSUME LinkInv, odd = {}, NEW e \in Ends, NEW i \in DOMAIN arrived[e],
                        NEW j \in DOMAIN arrived[e], i < j
                 PROVE  arrived[e][i] < arrived[e][j]
      BY DEF AcceptedOnceInOrder
    <2>1. arrived[e] \in Seq(Nat)
      BY DEF LinkInv, LinkTypes
    <2>2. DOMAIN arrived[e] = 1 .. Len(arrived[e])
      BY <2>1
    <2>3. Increasing(arrived[e])
      <3>1. Peer(e) \in Ends /\ Peer(Peer(e)) = e
        BY PeerFacts
      <3>2. DirInv(Peer(e))
        BY <3>1 DEF LinkInv
      <3> QED BY <3>1, <3>2 DEF DirInv, Dir, Accepted
    <2> QED BY <2>2, <2>3 DEF Increasing
  <1> QED BY <1>1, LinkInvariant, PTL DEF JwpSpec

\* A send that jwp_wait_tx_complete reported as done has been accepted at the other end,
\* with the same exceptions.
THEOREM CompletedHaveArrived == JwpSpec => []CompletedArrived
  <1>1. LinkInv => CompletedArrived
    <2> SUFFICES ASSUME LinkInv, odd = {}, NEW e \in Ends, NEW c \in completed[e]
                 PROVE  c \in ToSet(arrived[Peer(e)])
      BY DEF CompletedArrived
    <2>1. Peer(e) \in Ends /\ arrived[Peer(e)] \in Seq(Nat)
      BY PeerFacts DEF LinkInv, LinkTypes
    <2>2. Finished(completed[e], arrived[Peer(e)])
      BY DEF LinkInv, DirInv, Dir
    <2>3. \E i \in 1 .. Len(arrived[Peer(e)]) : arrived[Peer(e)][i] = c
      BY <2>2 DEF Finished
    <2> QED BY <2>1, <2>3 DEF ToSet
  <1> QED BY <1>1, LinkInvariant, PTL DEF JwpSpec
=============================================================================
