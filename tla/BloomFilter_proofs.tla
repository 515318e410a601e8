-------------------------- MODULE BloomFilter_proofs ---------------------------
(***************************************************************************)
(* Theorems about BloomFilter, for any filters, keys, hashes, layouts and  *)
(* batches: what the host believes of its filters while the device is      *)
(* kernels behind, the workspace that one batch leaves to the next, what   *)
(* the filters hold once the stream has drained, and what queries answer.  *)
(*                                                                         *)
(* The argument.  HostInv is what holds of the host alone: every call that *)
(* could bring a key gives up known emptiness, on every way out of it, and *)
(* a workspace that was opened has room.  StreamInv relates the host to    *)
(* the kernels still in the stream.  A filter's counters need not be zero  *)
(* between two batches; then a kernel that zeroes them is still to come    *)
(* (Zeroes): the ClearWorkspace behind the allocation, or the apply of a   *)
(* routed batch, which a route always has right behind it (Paired).  And   *)
(* no call takes the workspace of a kernel in the stream away (Served): a  *)
(* move does take one, but callers let the stream drain before they move.  *)
(* That much is inductive by itself, and is all that the flag and the      *)
(* workspace need.                                                         *)
(*                                                                         *)
(* What the filters hold needs the course of BloomKernels_proofs as well:  *)
(* FilterInv adds that the device is on the way to what the host promised. *)
(* A call lengthens the course by kernels whose effects together are the   *)
(* call's promise (Fulfils), whichever path it picks; a kernel's last step *)
(* takes one state of the course to the next.  A drained stream leaves no  *)
(* way to go, and so the promise is what the filters hold.                 *)
(***************************************************************************)
EXTENDS BloomKernels_proofs

--------------------------------------------------------------------------------
(* Lemmas about streams. *)

\* What holds of two streams, holds of one after the other.
LEMMA Appended ==
    ASSUME NEW p \in Seq(Launched), NEW q \in Seq(Launched)
    PROVE  /\ p \o q \in Seq(Launched)
           /\ Paired(p) /\ Paired(q) => Paired(p \o q)
           /\ \A hosts : Served(p, hosts) /\ Served(q, hosts) => Served(p \o q, hosts)
           /\ \A f : Zeroes(f, p) \/ Zeroes(f, q) => Zeroes(f, p \o q)
  <1> DEFINE s == p \o q
  <1>1. /\ s \in Seq(Launched) /\ Len(s) = Len(p) + Len(q) /\ Len(p) \in Nat /\ Len(q) \in Nat
        /\ \A i \in 1..Len(p) : s[i] = p[i]
        /\ \A i \in 1..Len(q) : s[Len(p) + i] = q[i]
    OBVIOUS
  <1>2. \A i \in 1..Len(s) : i \in 1..Len(p) \/ (i - Len(p) \in 1..Len(q) /\ s[i] = q[i - Len(p)])
    <2>1. ASSUME NEW i \in 1..Len(s), i \notin 1..Len(p)
          PROVE  i - Len(p) \in 1..Len(q) /\ s[i] = q[i - Len(p)]
      <3> HIDE DEF s
      <3>1. i - Len(p) \in 1..Len(q) BY <1>1, <2>1
      <3>2. Len(p) + (i - Len(p)) = i BY <1>1
      <3> QED BY <1>1, <3>1, <3>2
    <2> QED BY <2>1
  <1> HIDE DEF s
  <1>3. ASSUME Paired(p), Paired(q) PROVE Paired(s)
    <2> SUFFICES ASSUME NEW i \in 1..Len(s), s[i].op = "route"
                 PROVE  i + 1 \in 1..Len(s) /\ s[i + 1].op = "apply" /\ s[i + 1].f = s[i].f
      BY DEF Paired
    <2>1. CASE i \in 1..Len(p)
      <3>1. s[i] = p[i] BY <1>1, <2>1
      <3>2. i + 1 \in 1..Len(p) /\ p[i + 1].op = "apply" /\ p[i + 1].f = p[i].f
        BY <1>3, <2>1, <3>1 DEF Paired
      <3> QED BY <1>1, <3>1, <3>2
    <2>2. CASE i \notin 1..Len(p)
      <3> DEFINE j == i - Len(p)
      <3>1. j \in 1..Len(q) /\ s[i] = q[j] BY <1>2, <2>2
      <3> HIDE DEF j
      <3>2. j + 1 \in 1..Len(q) /\ q[j + 1].op = "apply" /\ q[j + 1].f = q[j].f
        BY <1>3, <3>1 DEF Paired
      <3>3. s[Len(p) + (j + 1)] = q[j + 1] /\ Len(p) + (j + 1) = i + 1 BY <1>1, <3>2 DEF j
      <3> QED BY <1>1, <3>1, <3>2, <3>3
    <2> QED BY <2>1, <2>2
  <1>4. ASSUME NEW hosts, Served(p, hosts), Served(q, hosts) PROVE Served(s, hosts)
    <2> SUFFICES ASSUME NEW i \in 1..Len(s)
                 PROVE  /\ s[i].op \in RoutedKernels => hosts[s[i].f].workspace = "routed"
                        /\ s[i].op \in PrivateKernels => hosts[s[i].f].workspace = "private"
      BY DEF Served
    <2>1. CASE i \in 1..Len(p)
      <3>1. s[i] = p[i] BY <1>1, <2>1
      <3> QED BY <1>4, <2>1, <3>1 DEF Served
    <2>2. CASE i \notin 1..Len(p)
      <3> DEFINE j == i - Len(p)
      <3>1. j \in 1..Len(q) /\ s[i] = q[j] BY <1>2, <2>2
      <3> HIDE DEF j
      <3> QED BY <1>4, <3>1 DEF Served
    <2> QED BY <2>1, <2>2
  <1>5. ASSUME NEW f, Zeroes(f, p) PROVE Zeroes(f, s)
    <2>1. PICK i \in 1..Len(p) : p[i].op \in {"clear workspace", "apply"} /\ p[i].f = f
      BY <1>5 DEF Zeroes
    <2>2. i \in 1..Len(s) /\ s[i] = p[i] BY <1>1
    <2> QED BY <2>1, <2>2 DEF Zeroes
  <1>6. ASSUME NEW f, Zeroes(f, q) PROVE Zeroes(f, s)
    <2>1. PICK i \in 1..Len(q) : q[i].op \in {"clear workspace", "apply"} /\ q[i].f = f
      BY <1>6 DEF Zeroes
    <2>2. Len(p) + i \in 1..Len(s) /\ s[Len(p) + i] = q[i] BY <1>1
    <2> QED BY <2>1, <2>2 DEF Zeroes
  <1> QED BY <1>1, <1>3, <1>4, <1>5, <1>6 DEF s

\* The same of a stream without its first kernel; and only that one can have been
\* the one that a filter's counters wait for.
LEMMA Shifted ==
    ASSUME NEW q \in Seq(Launched), q # <<>>
    PROVE  /\ Tail(q) \in Seq(Launched) /\ Head(q) \in Launched /\ q[1] = Head(q)
           /\ Paired(q) => Paired(Tail(q))
           /\ \A hosts : Served(q, hosts) => Served(Tail(q), hosts)
           /\ \A f : Zeroes(f, q) => \/ Zeroes(f, Tail(q))
                                     \/ Head(q).op \in {"clear workspace", "apply"} /\ Head(q).f = f
  <1> DEFINE s == Tail(q)
  <1>1. /\ s \in Seq(Launched) /\ Len(s) = Len(q) - 1 /\ Len(q) \in Nat \ {0}
        /\ q[1] = Head(q) /\ Head(q) \in Launched
        /\ \A i \in 1..Len(s) : s[i] = q[i + 1]
    OBVIOUS
  <1> HIDE DEF s
  <1>2. ASSUME Paired(q) PROVE Paired(s)
    <2> SUFFICES ASSUME NEW i \in 1..Len(s), s[i].op = "route"
                 PROVE  i + 1 \in 1..Len(s) /\ s[i + 1].op = "apply" /\ s[i + 1].f = s[i].f
      BY DEF Paired
    <2>1. i + 1 \in 1..Len(q) /\ s[i] = q[i + 1] BY <1>1
    <2>2. (i + 1) + 1 \in 1..Len(q) /\ q[(i + 1) + 1].op = "apply" /\ q[(i + 1) + 1].f = q[i + 1].f
      BY <1>2, <2>1 DEF Paired
    <2>3. i + 1 \in 1..Len(s) BY <1>1, <2>2
    <2>4. s[i + 1] = q[(i + 1) + 1] BY <1>1, <2>3
    <2> QED BY <2>1, <2>2, <2>3, <2>4
  <1>3. ASSUME NEW hosts, Served(q, hosts) PROVE Served(s, hosts)
    <2>1. \A i \in 1..Len(s) : i + 1 \in 1..Len(q) BY <1>1
    <2> QED BY <1>1, <1>3, <2>1 DEF Served
  <1>4. ASSUME NEW f, Zeroes(f, q)
        PROVE  Zeroes(f, s) \/ (Head(q).op \in {"clear workspace", "apply"} /\ Head(q).f = f)
    <2>1. PICK i \in 1..Len(q) : q[i].op \in {"clear workspace", "apply"} /\ q[i].f = f
      BY <1>4 DEF Zeroes
    <2>2. CASE i = 1 BY <1>1, <2>1, <2>2
    <2>3. CASE i # 1
      <3>1. i - 1 \in 1..Len(s) /\ (i - 1) + 1 = i BY <1>1, <2>3
      <3>2. s[i - 1] = q[i] BY <1>1, <3>1
      <3> QED BY <2>1, <3>1, <3>2 DEF Zeroes
    <2> QED BY <2>2, <2>3
  <1> QED BY <1>1, <1>2, <1>3, <1>4 DEF s
--------------------------------------------------------------------------------
(* What the calls launch. *)

\* A kernel by itself.
LEMMA Alone ==
    ASSUME NEW k \in Launched
    PROVE  /\ <<k>> \in Seq(Launched)
           /\ k.op # "route" => Paired(<<k>>)
           /\ \A hosts : /\ k.op \in RoutedKernels => hosts[k.f].workspace = "routed"
                         /\ k.op \in PrivateKernels => hosts[k.f].workspace = "private"
                         => Served(<<k>>, hosts)
           /\ k.op \in {"clear workspace", "apply"} => Zeroes(k.f, <<k>>)
  <1>1. <<k>> \in Seq(Launched) /\ Len(<<k>>) = 1 /\ <<k>>[1] = k OBVIOUS
  <1>2. 1..Len(<<k>>) = {1} BY <1>1
  <1> QED BY <1>1, <1>2 DEF Paired, Served, Zeroes

\* No kernel at all.
LEMMA NoKernel ==
    /\ <<>> \in Seq(Launched) /\ Paired(<<>>)
    /\ \A hosts : Served(<<>>, hosts)
  <1>1. <<>> \in Seq(Launched) /\ Len(<<>>) = 0 OBVIOUS
  <1>2. 1..Len(<<>>) = {} BY <1>1
  <1> QED BY <1>1, <1>2 DEF Paired, Served

\* A kernel with the operands of a call is one that can be launched.
LEMMA KernelIsLaunched ==
    ASSUME NEW op \in Kinds, NEW f \in Filter
    PROVE  Kernel(op, f) \in Launched /\ Kernel(op, f).op = op /\ Kernel(op, f).f = f
  <1>1. <<>> \in Seq(Key) /\ <<>> \in Seq(BOOLEAN) OBVIOUS
  <1> QED BY <1>1 DEF Kernel, Launched

\* Two kernels, the second of which is not a Route.
LEMMA Both ==
    ASSUME NEW k \in Launched, NEW j \in Launched, j.op # "route",
           k.op = "route" => j.op = "apply" /\ j.f = k.f
    PROVE  /\ <<k, j>> \in Seq(Launched) /\ Paired(<<k, j>>)
           /\ \A hosts : Served(<<k>>, hosts) /\ Served(<<j>>, hosts) => Served(<<k, j>>, hosts)
  <1>1. /\ <<k, j>> \in Seq(Launched) /\ Len(<<k, j>>) = 2
        /\ <<k, j>>[1] = k /\ <<k, j>>[2] = j
    OBVIOUS
  <1>2. 1..Len(<<k, j>>) = {1, 2} BY <1>1
  <1>3. Paired(<<k, j>>) BY <1>1, <1>2 DEF Paired
  <1>4. Len(<<k>>) = 1 /\ <<k>>[1] = k /\ Len(<<j>>) = 1 /\ <<j>>[1] = j OBVIOUS
  <1>5. 1 \in 1..Len(<<k>>) /\ 1 \in 1..Len(<<j>>) BY <1>4
  <1>6. ASSUME NEW hosts, Served(<<k>>, hosts), Served(<<j>>, hosts) PROVE Served(<<k, j>>, hosts)
    <2>1. ASSUME NEW x \in {k, j}
          PROVE  /\ x.op \in RoutedKernels => hosts[x.f].workspace = "routed"
                 /\ x.op \in PrivateKernels => hosts[x.f].workspace = "private"
      <3>1. CASE x = k BY <1>4, <1>5, <1>6, <3>1 DEF Served
      <3>2. CASE x = j BY <1>4, <1>5, <1>6, <3>2 DEF Served
      <3> QED BY <3>1, <3>2
    <2>2. \A i \in 1..Len(<<k, j>>) : <<k, j>>[i] \in {k, j} BY <1>1, <1>2
    <2> QED BY <2>1, <2>2 DEF Served
  <1> QED BY <1>1, <1>3, <1>6

\* What a call does to the host's object of a filter and to the stream: the workspace
\* stays what it is once it is something, and a new one is set to zero first.
Called(f, a, ks) ==
    /\ a \in Object /\ Sized(a)
    /\ host' = [host EXCEPT ![f] = a] /\ queue' = queue \o ks
    /\ UNCHANGED <<layout, counters>>
    /\ ks \in Seq(Launched) /\ Paired(ks) /\ Served(ks, host')
    /\ host[f].workspace # "none" => a.workspace = host[f].workspace
    /\ host[f].workspace = "none" /\ a.workspace = "routed" => Zeroes(f, ks)

\* Such a call keeps the stream in order.
LEMMA CalledKeeps ==
    ASSUME HostInv, StreamInv, NEW f \in Filter, NEW a, NEW ks, Called(f, a, ks)
    PROVE  StreamInv' /\ host' \in [Filter -> Object] /\ \A g \in Filter : Sized(host'[g])
  <1>1. /\ a \in Object /\ Sized(a) /\ host' = [host EXCEPT ![f] = a] /\ queue' = queue \o ks
        /\ layout' = layout /\ counters' = counters
        /\ ks \in Seq(Launched) /\ Paired(ks) /\ Served(ks, host')
        /\ host[f].workspace # "none" => a.workspace = host[f].workspace
        /\ host[f].workspace = "none" /\ a.workspace = "routed" => Zeroes(f, ks)
    BY DEF Called
  <1>2. host \in [Filter -> Object] /\ \A g \in Filter : Sized(host[g]) BY DEF HostInv
  <1>3. /\ host' \in [Filter -> Object] /\ host'[f] = a
        /\ \A g \in Filter : g # f => host'[g] = host[g]
    BY <1>1, <1>2
  <1>4. \A g \in Filter : Sized(host'[g]) BY <1>1, <1>2, <1>3
  <1>5. queue \in Seq(Launched) /\ Paired(queue) /\ Served(queue, host) BY DEF StreamInv
  <1>6. Served(queue, host')
    <2>1. ASSUME NEW i \in 1..Len(queue)
          PROVE  host[queue[i].f].workspace # "none"
                    => host'[queue[i].f].workspace = host[queue[i].f].workspace
      <3>1. queue[i] \in Launched BY <1>5
      <3>2. queue[i].f \in Filter BY <3>1 DEF Launched
      <3> QED BY <1>1, <1>3, <3>2
    <2> QED BY <1>5, <2>1 DEF Served
  <1>7. /\ queue \o ks \in Seq(Launched) /\ Paired(queue \o ks) /\ Served(queue \o ks, host')
        /\ \A g : Zeroes(g, queue) \/ Zeroes(g, ks) => Zeroes(g, queue \o ks)
    BY <1>1, <1>5, <1>6, Appended
  <1>8. ASSUME NEW g \in Filter, host'[g].workspace = "routed"
        PROVE  Zero(g)' \/ Zeroes(g, queue \o ks)
    <2>1. Zero(g)' = Zero(g) BY <1>1 DEF Zero, Block, NumBlocks
    <2>2. CASE g = f /\ host[f].workspace = "none" BY <1>1, <1>3, <1>7, <1>8, <2>2
    <2>3. CASE ~(g = f /\ host[f].workspace = "none")
      <3>1. host[g].workspace = "routed" BY <1>1, <1>3, <1>8, <2>3
      <3> QED BY <1>7, <2>1, <3>1 DEF StreamInv
    <2> QED BY <2>2, <2>3
  <1>9. (counters \in [Filter -> [Block -> Nat]])'
    BY <1>1 DEF StreamInv, Block, NumBlocks
  <1>10. StreamInv'
    <2>1. \A g : Zeroes(g, queue)' = Zeroes(g, queue') BY DEF Zeroes
    <2>2. Paired(queue)' = Paired(queue') /\ Served(queue, host)' = Served(queue', host')
      BY DEF Paired, Served
    <2> QED BY <1>1, <1>7, <1>8, <1>9, <2>1, <2>2 DEF StreamInv
  <1> QED BY <1>3, <1>4, <1>10
--------------------------------------------------------------------------------
(* Workspaces. *)

\* An object that EnsureAddWorkspace may make of another: the workspace is as it
\* was, or new.
Grown(h, a) ==
    /\ a \in Object /\ a.knownEmpty = h.knownEmpty
    /\ \/ a.workspace = h.workspace /\ a.slots = h.slots /\ a.producers = h.producers
       \/ h.workspace = "none" /\ Sized(a)

\* A launch has at least one core.
LEMMA CoresAreLaunched ==
    ASSUME WorkersOK, NEW n \in Nat
    PROVE  LaunchCoreNum(n) \in Nat /\ LaunchCoreNum(n) > 0
  <1> DEFINE needed == (n + CoreThreads - 1) \div CoreThreads
             m == Min({Cores, needed})
  <1>1. needed \in Nat /\ Cores \in Nat BY DEF WorkersOK
  <1>2. m \in Nat
    <2> HIDE DEF needed
    <2>1. \E x \in {Cores, needed} : \A y \in {Cores, needed} : x <= y BY <1>1
    <2> QED BY <1>1, <2>1 DEF Min
  <1> HIDE DEF needed, m
  <1>3. Max({1, m}) \in Nat /\ Max({1, m}) > 0
    <2>1. \E x \in {1, m} : \A y \in {1, m} : x >= y BY <1>2
    <2>2. Max({1, m}) \in {1, m} /\ \A y \in {1, m} : Max({1, m}) >= y BY <2>1 DEF Max
    <2> QED BY <1>2, <2>2
  <1> QED BY <1>3 DEF LaunchCoreNum, needed, m

\* EnsureAddWorkspace makes a workspace where there is none, or nothing.
LEMMA EnsuredGrows ==
    ASSUME WorkersOK, NEW h \in Object, NEW n \in Nat, NEW a \in Ensured(h, n)
    PROVE  Grown(h, a)
  <1>1. CASE a = h BY <1>1 DEF Grown
  <1>2. CASE a = [h EXCEPT !.unavailable = TRUE] BY <1>2 DEF Grown, Object
  <1>3. CASE h.workspace = "none" /\ a \in RoutedChoices(h, n)
    <2>1. CASE \E s \in 1..Min({MaxSlots, DesiredSlots(n)}) :
                  a = [h EXCEPT !.workspace = "routed", !.slots = s]
      <3>1. PICK s \in 1..Min({MaxSlots, DesiredSlots(n)}) :
                  a = [h EXCEPT !.workspace = "routed", !.slots = s]
        BY <2>1
      <3>2. s \in Nat /\ s > 0 OBVIOUS
      <3> QED BY <1>3, <3>1, <3>2 DEF Grown, Object, Sized
    <2> QED BY <1>2, <1>3, <2>1 DEF RoutedChoices
  <1>4. CASE h.workspace = "none" /\ a \in PrivateChoices(h, n)
    <2>1. \/ a = [h EXCEPT !.workspace = "private", !.producers = LaunchCoreNum(n)]
          \/ a = [h EXCEPT !.unavailable = TRUE]
      BY <1>4 DEF PrivateChoices
    <2>2. LaunchCoreNum(n) \in Nat /\ LaunchCoreNum(n) > 0 BY CoresAreLaunched
    <2>3. CASE a = [h EXCEPT !.workspace = "private", !.producers = LaunchCoreNum(n)]
      BY <1>4, <2>2, <2>3 DEF Grown, Object, Sized
    <2> QED BY <1>2, <2>1, <2>3
  <1> QED BY <1>1, <1>3, <1>4 DEF Ensured
--------------------------------------------------------------------------------
(* The calls. *)

\* A call that says what the filter holds afterwards keeps the host's beliefs.
LEMMA CallKeeps ==
    ASSUME HostInv, StreamInv, NEW f \in Filter, NEW a, NEW ks, Called(f, a, ks),
           NEW content, Expect(f, content), a.knownEmpty => content = {} /\ ~a.exposed
    PROVE  HostInv' /\ StreamInv'
  <1>1. StreamInv' /\ host' \in [Filter -> Object] /\ \A g \in Filter : Sized(host'[g])
    BY CalledKeeps
  <1>2. host' = [host EXCEPT ![f] = a] /\ host \in [Filter -> Object] BY DEF Called, HostInv
  <1>3. /\ expected' = [expected EXCEPT ![f] = content] /\ DOMAIN expected = Filter
        /\ \A g \in Filter : host[g].knownEmpty => expected[g] = {} /\ ~host[g].exposed
    BY DEF Expect, HostInv, KnownEmptyIsEmpty
  <1>4. ASSUME NEW g \in Filter, host'[g].knownEmpty PROVE expected'[g] = {} /\ ~host'[g].exposed
    <2>1. CASE g = f BY <1>2, <1>3, <1>4, <2>1
    <2>2. CASE g # f BY <1>2, <1>3, <1>4, <2>2
    <2> QED BY <2>1, <2>2
  <1>5. DOMAIN expected' = Filter BY <1>3
  <1>6. (\A g \in Filter : Sized(host[g]))' BY <1>1 DEF Sized
  <1> QED BY <1>1, <1>4, <1>5, <1>6 DEF HostInv, KnownEmptyIsEmpty

\* So does one that launches nothing and leaves the object alone.
LEMMA NothingCalled ==
    ASSUME HostInv, StreamInv, NEW f \in Filter, UNCHANGED <<host, queue, layout, counters>>
    PROVE  Called(f, host[f], <<>>)
  <1>1. host[f] \in Object /\ Sized(host[f]) /\ host \in [Filter -> Object] BY DEF HostInv
  <1>2. [host EXCEPT ![f] = host[f]] = host BY <1>1
  <1>3. queue \o <<>> = queue
    <2>1. queue \in Seq(Launched) BY DEF StreamInv
    <2> QED BY <2>1
  <1> QED BY <1>1, <1>2, <1>3, NoKernel DEF Called

\* Ensured or not, a filter that has been written to is not known to be empty.
LEMMA MarkedGrows ==
    ASSUME WorkersOK, NEW h \in Object, NEW n \in Nat,
           NEW a \in Ensured(MarkDirty(h), n) \cup {MarkDirty(h)}
    PROVE  /\ a \in Object /\ ~a.knownEmpty
           /\ Sized(h) => Sized(a)
           /\ h.workspace # "none" => a.workspace = h.workspace
  <1>1. MarkDirty(h) \in Object /\ MarkDirty(h).workspace = h.workspace
        /\ ~MarkDirty(h).knownEmpty /\ MarkDirty(h).slots = h.slots
        /\ MarkDirty(h).producers = h.producers
    BY DEF MarkDirty, Object
  <1>2. CASE a = MarkDirty(h) BY <1>1, <1>2 DEF Sized
  <1>3. CASE a \in Ensured(MarkDirty(h), n)
    <2>1. Grown(MarkDirty(h), a) BY <1>1, <1>3, EnsuredGrows
    <2> QED BY <1>1, <2>1 DEF Grown, Sized
  <1> QED BY <1>2, <1>3

\* The kernel that sets a new workspace to zero comes first.
LEMMA ClearedFirst ==
    ASSUME NEW f \in Filter, NEW h, NEW a
    PROVE  /\ ClearedWorkspace(f, h, a) \in Seq(Launched) /\ Paired(ClearedWorkspace(f, h, a))
           /\ \A hosts : Served(ClearedWorkspace(f, h, a), hosts)
           /\ NewRouted(h, a) => Zeroes(f, ClearedWorkspace(f, h, a))
  <1> DEFINE k == Kernel("clear workspace", f)
  <1>1. k \in Launched /\ k.op = "clear workspace" /\ k.f = f
    <2>1. "clear workspace" \in Kinds BY DEF Kinds
    <2> QED BY <2>1, KernelIsLaunched
  <1> HIDE DEF k
  <1>2. k.op # "route" /\ k.op \notin RoutedKernels /\ k.op \notin PrivateKernels
    BY <1>1 DEF RoutedKernels, PrivateKernels
  <1>3. /\ <<k>> \in Seq(Launched) /\ Paired(<<k>>) /\ \A hosts : Served(<<k>>, hosts)
        /\ Zeroes(f, <<k>>)
    BY <1>1, <1>2, Alone
  <1>4. ClearedWorkspace(f, h, a) = IF NewRouted(h, a) THEN <<k>> ELSE <<>>
    BY DEF ClearedWorkspace, k
  <1> QED BY <1>3, <1>4, NoKernel

\* A batch is launched with the operands of its call.
LEMMA AddingIsLaunched ==
    ASSUME CallsOK, NEW c \in Calls, NEW h \in Object
    PROVE  /\ c.f \in Filter /\ c.from \in Filter /\ c.keys \in Seq(Key) /\ c.sel \in Seq(BOOLEAN)
           /\ Len(c.keys) \in Nat
           /\ Adding(c.f, c, h) \in Launched
           /\ Adding(c.f, c, h).op = "add" /\ Adding(c.f, c, h).f = c.f
           /\ \A op \in Kinds : LET j == [Adding(c.f, c, h) EXCEPT !.op = op] IN
                j \in Launched /\ j.op = op /\ j.f = c.f
  <1>1. /\ c.f \in Filter /\ c.from \in Filter /\ c.keys \in Seq(Key) /\ c.sel \in Seq(BOOLEAN)
        /\ Len(c.keys) \in Nat
    <2>1. c \in [op : STRING, f : Filter, from : Filter, keys : Seq(Key), sel : Seq(BOOLEAN)]
      BY DEF CallsOK
    <2> QED BY <2>1
  <1>2. Preserve(h) \in BOOLEAN /\ <<>> \in Seq(BOOLEAN) BY DEF Preserve, Object
  <1> DEFINE k == Kernel("add", c.f)
             j == [k EXCEPT !.keys = c.keys, !.sel = c.sel, !.preserve = Preserve(h)]
  <1>3. k \in Launched /\ k.op = "add" /\ k.f = c.f
    <2>1. "add" \in Kinds BY DEF Kinds
    <2> QED BY <1>1, <2>1, KernelIsLaunched
  <1>4. Adding(c.f, c, h) = j BY DEF Adding
  <1> HIDE DEF k
  <1>5. j \in Launched /\ j.op = "add" /\ j.f = c.f BY <1>1, <1>2, <1>3 DEF Launched
  <1> HIDE DEF j
  <1>6. ASSUME NEW op \in Kinds
        PROVE  [j EXCEPT !.op = op] \in Launched /\ [j EXCEPT !.op = op].op = op
               /\ [j EXCEPT !.op = op].f = c.f
    BY <1>5 DEF Launched
  <1> QED BY <1>1, <1>4, <1>5, <1>6

\* The kernels of a batch, by the workspace that the filter has.
LEMMA BatchesPair ==
    ASSUME NEW k \in Launched, k.op = "add",
           \A op \in Kinds : [k EXCEPT !.op = op] \in Launched
    PROVE  /\ RoutedAdd(k) \in Seq(Launched) /\ Paired(RoutedAdd(k))
           /\ PrivateAdd(k) \in Seq(Launched) /\ Paired(PrivateAdd(k))
           /\ \A hosts : hosts[k.f].workspace = "routed" => Served(RoutedAdd(k), hosts)
           /\ \A hosts : hosts[k.f].workspace = "private" => Served(PrivateAdd(k), hosts)
  <1>1. ASSUME NEW op \in Kinds
        PROVE  /\ [k EXCEPT !.op = op] \in Launched /\ [k EXCEPT !.op = op].op = op
               /\ [k EXCEPT !.op = op].f = k.f
    BY DEF Launched
  <1>2. {"route", "apply", "private route", "private apply", "compact apply"} \subseteq Kinds
    BY DEF Kinds, RoutedKernels, PrivateKernels
  <1> DEFINE r == [k EXCEPT !.op = "route"]
             a == [k EXCEPT !.op = "apply"]
             s == [k EXCEPT !.op = "private route"]
             b == IF layout = "compact" THEN [k EXCEPT !.op = "compact apply"]
                  ELSE [k EXCEPT !.op = "private apply"]
  <1>3. r \in Launched /\ r.op = "route" /\ r.f = k.f BY <1>1, <1>2
  <1>4. a \in Launched /\ a.op = "apply" /\ a.f = k.f BY <1>1, <1>2
  <1>5. s \in Launched /\ s.op = "private route" /\ s.f = k.f BY <1>1, <1>2
  <1>6. b \in Launched /\ b.op \in {"compact apply", "private apply"} /\ b.f = k.f BY <1>1, <1>2
  <1>7. RoutedAdd(k) = <<r, a>> BY DEF RoutedAdd, LaunchRoutedAddRoute, LaunchRoutedAddApply
  <1>8. PrivateAdd(k) = <<s, b>>
    BY DEF PrivateAdd, LaunchPrivateAddRoute, LaunchPrivateCompactSparseAddApply,
           LaunchPrivateAddApply
  <1> HIDE DEF r, a, s, b
  <1>9. ASSUME NEW hosts, hosts[k.f].workspace = "routed"
        PROVE  Served(<<r>>, hosts) /\ Served(<<a>>, hosts)
    BY <1>3, <1>4, <1>9, Alone DEF PrivateKernels
  <1>10. ASSUME NEW hosts, hosts[k.f].workspace = "private"
         PROVE  Served(<<s>>, hosts) /\ Served(<<b>>, hosts)
    BY <1>5, <1>6, <1>10, Alone DEF RoutedKernels
  <1>11. /\ <<r, a>> \in Seq(Launched) /\ Paired(<<r, a>>)
         /\ \A hosts : Served(<<r>>, hosts) /\ Served(<<a>>, hosts) => Served(<<r, a>>, hosts)
    BY <1>3, <1>4, Both
  <1>12. /\ <<s, b>> \in Seq(Launched) /\ Paired(<<s, b>>)
         /\ \A hosts : Served(<<s>>, hosts) /\ Served(<<b>>, hosts) => Served(<<s, b>>, hosts)
    BY <1>5, <1>6, Both
  <1> QED BY <1>7, <1>8, <1>9, <1>10, <1>11, <1>12

\* AddAsync: any path that the workspace and the size of the batch allow.
LEMMA AddCalls ==
    ASSUME HostInv, StreamInv, CallsOK, WorkersOK, NEW c \in Calls, AddAsync(c.f, c)
    PROVE  HostInv' /\ StreamInv'
  <1> DEFINE f == c.f
             h == host[f]
             n == Len(c.keys)
             k == Adding(f, c, h)
  <1>1. host \in [Filter -> Object] /\ f \in Filter /\ h \in Object /\ Sized(h)
    BY DEF HostInv, CallsOK
  <1>2. /\ n \in Nat /\ k \in Launched /\ k.op = "add" /\ k.f = f
        /\ \A op \in Kinds : [k EXCEPT !.op = op] \in Launched
    BY <1>1, AddingIsLaunched
  <1>3. PICK a \in Ensured(MarkDirty(h), n) \cup {MarkDirty(h)} :
           /\ host' = [host EXCEPT ![f] = a]
           /\ queue' = queue \o (ClearedWorkspace(f, h, a) \o
                                   IF ~Aggregates(a, n) THEN <<k>>
                                   ELSE IF a.workspace = "routed" THEN RoutedAdd(k)
                                   ELSE PrivateAdd(k))
    BY Zenon DEF AddAsync, Launch
  <1> DEFINE adds == IF ~Aggregates(a, n) THEN <<k>>
                     ELSE IF a.workspace = "routed" THEN RoutedAdd(k) ELSE PrivateAdd(k)
             ks == ClearedWorkspace(f, h, a) \o adds
  <1>4. /\ a \in Object /\ ~a.knownEmpty /\ Sized(a)
        /\ h.workspace # "none" => a.workspace = h.workspace
    BY <1>1, <1>2, MarkedGrows
  <1>5. host'[f] = a BY <1>1, <1>3
  <1>6. adds \in Seq(Launched) /\ Paired(adds) /\ Served(adds, host')
    <2>1. CASE ~Aggregates(a, n)
      <3>1. k.op \notin RoutedKernels /\ k.op \notin PrivateKernels /\ k.op # "route"
        BY <1>2 DEF RoutedKernels, PrivateKernels
      <3> HIDE DEF k
      <3>2. <<k>> \in Seq(Launched) /\ Paired(<<k>>) /\ Served(<<k>>, host')
        BY <1>2, <3>1, Alone
      <3> QED BY <2>1, <3>2
    <2>2. CASE Aggregates(a, n)
      <3>1. a.workspace \in {"routed", "private"} BY <1>4, <2>2 DEF Aggregates, Object
      <3> HIDE DEF k
      <3>2. /\ RoutedAdd(k) \in Seq(Launched) /\ Paired(RoutedAdd(k))
            /\ PrivateAdd(k) \in Seq(Launched) /\ Paired(PrivateAdd(k))
            /\ a.workspace = "routed" => Served(RoutedAdd(k), host')
            /\ a.workspace = "private" => Served(PrivateAdd(k), host')
        BY <1>2, <1>5, BatchesPair
      <3> QED BY <2>2, <3>1, <3>2
    <2> QED BY <2>1, <2>2
  <1>7. /\ ClearedWorkspace(f, h, a) \in Seq(Launched) /\ Paired(ClearedWorkspace(f, h, a))
        /\ Served(ClearedWorkspace(f, h, a), host')
        /\ NewRouted(h, a) => Zeroes(f, ClearedWorkspace(f, h, a))
    BY <1>1, ClearedFirst
  <1> HIDE DEF adds
  <1>8. /\ ks \in Seq(Launched) /\ Paired(ks) /\ Served(ks, host')
        /\ NewRouted(h, a) => Zeroes(f, ks)
    BY <1>6, <1>7, Appended
  <1>9. UNCHANGED <<layout, counters>> BY DEF AddAsync, NoDevice, workspace
  <1>10. queue' = queue \o ks BY <1>3, SMTT(40) DEF adds
  <1> HIDE DEF ks
  <1>11. Called(f, a, ks) BY <1>3, <1>4, <1>8, <1>9, <1>10 DEF Called, NewRouted
  <1>12. Expect(f, expected[f] \cup UNION {BitsOf(x) : x \in Selected(c)}) BY DEF AddAsync
  <1> QED BY <1>1, <1>4, <1>11, <1>12, CallKeeps

\* TryPrivateAdd may have made the flag too.
LEMMA TriedGrows ==
    ASSUME WorkersOK, NEW h \in Object, NEW n \in Nat, NEW a \in Tried(MarkDirty(h), n)
    PROVE  /\ a \in Object /\ ~a.knownEmpty
           /\ Sized(h) => Sized(a)
           /\ h.workspace # "none" => a.workspace = h.workspace
  <1>1. PICK x \in Ensured(MarkDirty(h), n) \cup {MarkDirty(h)} :
            a = x \/ a = [x EXCEPT !.flag = TRUE]
    BY DEF Tried, FlagChoices
  <1>2. /\ x \in Object /\ ~x.knownEmpty
        /\ Sized(h) => Sized(x)
        /\ h.workspace # "none" => x.workspace = h.workspace
    BY MarkedGrows
  <1> QED BY <1>1, <1>2 DEF Object, Sized

\* The three kernels of a conditional batch that has a private workspace.
LEMMA ConditionalBatch ==
    ASSUME NEW k \in Launched, \A op \in Kinds : [k EXCEPT !.op = op] \in Launched
    PROVE  /\ PrivateAddIf(k) \in Seq(Launched) /\ Paired(PrivateAddIf(k))
           /\ \A hosts : hosts[k.f].workspace = "private" => Served(PrivateAddIf(k), hosts)
  <1> DEFINE r == Kernel("reset flag", k.f)
             s == [k EXCEPT !.op = "private route if"]
             b == [k EXCEPT !.op = IF layout = "compact" THEN "compact apply if"
                                   ELSE "private apply if"]
             q == <<r, s, b>>
  <1>1. k.f \in Filter BY DEF Launched
  <1>2. {"reset flag", "private route if", "compact apply if", "private apply if"} \subseteq Kinds
    BY DEF Kinds, PrivateKernels
  <1>3. r \in Launched /\ r.op = "reset flag" BY <1>1, <1>2, KernelIsLaunched
  <1>4. s \in Launched /\ s.op = "private route if" /\ s.f = k.f BY <1>2 DEF Launched
  <1>5. b \in Launched /\ b.op \in {"compact apply if", "private apply if"} /\ b.f = k.f
    BY <1>2 DEF Launched
  <1>6. PrivateAddIf(k) = q
    BY DEF PrivateAddIf, LaunchPrivateRouteForLayout, LaunchPrivateApplyForLayout
  <1> HIDE DEF r, s, b
  <1>7. q \in Seq(Launched) /\ Len(q) = 3 /\ q[1] = r /\ q[2] = s /\ q[3] = b
    <2>1. r \in Launched /\ s \in Launched /\ b \in Launched BY <1>3, <1>4, <1>5
    <2> QED BY ONLY <2>1
  <1> HIDE DEF q
  <1>8. \A i \in 1..Len(q) : q[i] \in {r, s, b}
    <2>1. 1..3 = {1, 2, 3} OBVIOUS
    <2> QED BY <1>7, <2>1
  <1>9. Paired(q) BY <1>3, <1>4, <1>5, <1>8 DEF Paired
  <1>10. ASSUME NEW hosts, hosts[k.f].workspace = "private" PROVE Served(q, hosts)
    <2>1. \A x \in {r, s, b} :
             x.op \notin RoutedKernels /\ (x.op \in PrivateKernels => x.f = k.f)
      BY <1>3, <1>4, <1>5 DEF RoutedKernels, PrivateKernels
    <2> QED BY <1>8, <1>10, <2>1 DEF Served
  <1> QED BY <1>6, <1>7, <1>9, <1>10

\* AddIfAsync: with a private workspace and a flag, or key by key.
LEMMA AddIfCalls ==
    ASSUME HostInv, StreamInv, CallsOK, WorkersOK, NEW c \in Calls, AddIfAsync(c.f, c)
    PROVE  HostInv' /\ StreamInv'
  <1> DEFINE f == c.f
             h == host[f]
             n == Len(c.keys)
             k == Adding(f, c, h)
             j == [k EXCEPT !.op = "add if"]
  <1>1. host \in [Filter -> Object] /\ f \in Filter /\ h \in Object /\ Sized(h)
    BY DEF HostInv, CallsOK
  <1>2. /\ n \in Nat /\ k \in Launched /\ k.f = f
        /\ \A op \in Kinds : [k EXCEPT !.op = op] \in Launched
    BY <1>1, AddingIsLaunched
  <1>3. j \in Launched /\ j.op = "add if" /\ j.f = f
    <2>1. "add if" \in Kinds BY DEF Kinds
    <2>2. k \in Launched /\ j \in Launched BY <1>2, <2>1
    <2>3. j.op = "add if" /\ j.f = k.f
      <3> HIDE DEF k
      <3> QED BY <2>2 DEF Launched
    <2> QED BY <1>2, <2>2, <2>3
  <1>4. PICK a \in Tried(MarkDirty(h), n) :
           /\ host' = [host EXCEPT ![f] = a]
           /\ queue' = queue \o (ClearedWorkspace(f, h, a) \o
                                   IF TriedWell(a, n) THEN PrivateAddIf(k) ELSE <<j>>)
    BY DEF AddIfAsync, Launch
  <1> DEFINE adds == IF TriedWell(a, n) THEN PrivateAddIf(k) ELSE <<j>>
             ks == ClearedWorkspace(f, h, a) \o adds
  <1>5. /\ a \in Object /\ ~a.knownEmpty /\ Sized(a)
        /\ h.workspace # "none" => a.workspace = h.workspace
    BY <1>1, <1>2, TriedGrows
  <1>6. host'[f] = a BY <1>1, <1>4
  <1> HIDE DEF j, k
  <1>7. adds \in Seq(Launched) /\ Paired(adds) /\ Served(adds, host')
    <2>1. j.op \notin RoutedKernels /\ j.op \notin PrivateKernels /\ j.op # "route"
      BY <1>3 DEF RoutedKernels, PrivateKernels
    <2>2. <<j>> \in Seq(Launched) /\ Paired(<<j>>) /\ Served(<<j>>, host')
      BY <1>3, <2>1, Alone
    <2>3. /\ PrivateAddIf(k) \in Seq(Launched) /\ Paired(PrivateAddIf(k))
          /\ a.workspace = "private" => Served(PrivateAddIf(k), host')
      BY <1>2, <1>6, ConditionalBatch
    <2> QED BY <2>2, <2>3 DEF TriedWell
  <1>8. /\ ClearedWorkspace(f, h, a) \in Seq(Launched) /\ Paired(ClearedWorkspace(f, h, a))
        /\ Served(ClearedWorkspace(f, h, a), host')
        /\ NewRouted(h, a) => Zeroes(f, ClearedWorkspace(f, h, a))
    BY <1>1, ClearedFirst
  <1> HIDE DEF adds
  <1>9. /\ ks \in Seq(Launched) /\ Paired(ks) /\ Served(ks, host')
        /\ NewRouted(h, a) => Zeroes(f, ks)
    BY <1>7, <1>8, Appended
  <1>10. UNCHANGED <<layout, counters>> BY DEF AddIfAsync, NoDevice, workspace
  <1>11. queue' = queue \o ks BY <1>4 DEF adds
  <1> HIDE DEF ks
  <1>12. Called(f, a, ks) BY <1>4, <1>5, <1>9, <1>10, <1>11 DEF Called, NewRouted
  <1>13. Expect(f, expected[f] \cup UNION {BitsOf(x) : x \in Selected(c)}) BY DEF AddIfAsync
  <1> QED BY <1>1, <1>5, <1>12, <1>13, CallKeeps

\* A call of one kernel without a workspace.
LEMMA OneKernel ==
    ASSUME HostInv, NEW f \in Filter, NEW a \in Object, NEW k \in Launched,
           k.op \notin RoutedKernels \cup PrivateKernels,
           host' = [host EXCEPT ![f] = a], Launch(<<k>>), UNCHANGED <<layout, counters>>,
           a.workspace = host[f].workspace, a.slots = host[f].slots,
           a.producers = host[f].producers
    PROVE  Called(f, a, <<k>>)
  <1>1. k.op # "route" BY DEF RoutedKernels
  <1>2. <<k>> \in Seq(Launched) /\ Paired(<<k>>) /\ Served(<<k>>, host') BY <1>1, Alone
  <1>3. Sized(a) BY DEF HostInv, Sized
  <1> QED BY <1>2, <1>3 DEF Called, Launch

\* ClearAsync, and the part of IntersectAsync that is one: a filter that the host
\* knows to be empty is not cleared again.
LEMMA ClearCalls ==
    ASSUME HostInv, StreamInv, NEW f \in Filter, ClearLaunches(f), Expect(f, {}),
           UNCHANGED <<layout, counters>>
    PROVE  HostInv' /\ StreamInv'
  <1>1. host[f] \in Object BY DEF HostInv
  <1>2. CASE UNCHANGED <<host, queue>>
    <2>1. Called(f, host[f], <<>>) BY <1>2, NothingCalled
    <2>2. host[f].knownEmpty => ~host[f].exposed BY DEF HostInv, KnownEmptyIsEmpty
    <2> QED BY <2>1, <2>2, CallKeeps
  <1>3. CASE ~UNCHANGED <<host, queue>>
    <2> SUFFICES ASSUME NEW a, NEW k, a = ResetKnownEmpty(host[f]), k = Kernel("clear", f)
                 PROVE  HostInv' /\ StreamInv'
      OBVIOUS
    <2>1. Launch(<<k>>) /\ host' = [host EXCEPT ![f] = a] BY <1>3 DEF ClearLaunches
    <2>2. /\ a \in Object /\ a.workspace = host[f].workspace /\ a.slots = host[f].slots
          /\ a.producers = host[f].producers
          /\ a.knownEmpty => ~a.exposed
      BY <1>1 DEF ResetKnownEmpty, Object
    <2>3. k \in Launched /\ k.op = "clear"
      <3>1. "clear" \in Kinds BY DEF Kinds
      <3> QED BY <3>1, KernelIsLaunched
    <2>4. k.op \notin RoutedKernels \cup PrivateKernels
      BY <2>3 DEF RoutedKernels, PrivateKernels
    <2>5. Called(f, a, <<k>>) BY <2>1, <2>2, <2>3, <2>4, OneKernel
    <2> QED BY <2>2, <2>5, CallKeeps
  <1> QED BY <1>2, <1>3

\* MergeAsync and IntersectAsync: what the host knows to be empty decides whether
\* there is anything to do.
LEMMA CombineCalls ==
    ASSUME HostInv, StreamInv, NEW f \in Filter, NEW g \in Filter,
           MergeAsync(f, g) \/ IntersectAsync(f, g)
    PROVE  HostInv' /\ StreamInv'
  <1>1. host[f] \in Object /\ UNCHANGED <<layout, counters>>
    BY DEF HostInv, MergeAsync, IntersectAsync, NoDevice, workspace
  <1>2. /\ host[f].knownEmpty => expected[f] = {} /\ ~host[f].exposed
        /\ host[g].knownEmpty => expected[g] = {}
    BY DEF HostInv, KnownEmptyIsEmpty
  \* A kernel that writes the filter.
  <1>3. ASSUME NEW op \in {"merge", "intersect"}, NEW content, Expect(f, content),
               host' = [host EXCEPT ![f] = MarkDirty(host[f])],
               Launch(<<[Kernel(op, f) EXCEPT !.from = g]>>)
        PROVE  HostInv' /\ StreamInv'
    <2> SUFFICES ASSUME NEW a, NEW k, a = MarkDirty(host[f]), k = [Kernel(op, f) EXCEPT !.from = g]
                 PROVE  HostInv' /\ StreamInv'
      OBVIOUS
    <2>1. /\ a \in Object /\ a.workspace = host[f].workspace /\ a.slots = host[f].slots
          /\ a.producers = host[f].producers /\ ~a.knownEmpty
      BY <1>1 DEF MarkDirty, Object
    <2>2. k \in Launched /\ k.op = op
      <3>1. op \in Kinds BY DEF Kinds
      <3>2. Kernel(op, f) \in Launched /\ Kernel(op, f).op = op BY <3>1, KernelIsLaunched
      <3> QED BY <3>2 DEF Launched
    <2>3. k.op \notin RoutedKernels \cup PrivateKernels
      BY <2>2 DEF RoutedKernels, PrivateKernels
    <2>4. Called(f, a, <<k>>) BY <1>1, <1>3, <2>1, <2>2, <2>3, OneKernel
    <2> QED BY <1>3, <2>1, <2>4, CallKeeps
  \* Nothing to do: the filter is to hold what it holds.
  <1>4. ASSUME UNCHANGED <<host, queue>>, NEW content, Expect(f, content),
               content \subseteq expected[f]
        PROVE  HostInv' /\ StreamInv'
    <2>1. Called(f, host[f], <<>>) BY <1>1, <1>4, NothingCalled
    <2>2. host[f].knownEmpty => content = {} /\ ~host[f].exposed BY <1>2, <1>4
    <2> QED BY <1>4, <2>1, <2>2, CallKeeps
  <1>5. CASE MergeAsync(f, g)
    <2>1. Expect(f, expected[f] \cup expected[g]) BY <1>5 DEF MergeAsync
    <2>2. CASE f = g \/ host[g].knownEmpty
      <3>1. UNCHANGED <<host, queue>> BY <1>5, <2>2 DEF MergeAsync
      <3>2. expected[f] \cup expected[g] \subseteq expected[f] BY <1>2, <2>2
      <3> QED BY <1>4, <2>1, <3>1, <3>2
    <2>3. CASE ~(f = g \/ host[g].knownEmpty)
      <3>1. /\ host' = [host EXCEPT ![f] = MarkDirty(host[f])]
            /\ Launch(<<[Kernel("merge", f) EXCEPT !.from = g]>>)
        BY <1>5, <2>3 DEF MergeAsync
      <3> QED BY <1>3, <2>1, <3>1
    <2> QED BY <2>2, <2>3
  <1>6. CASE IntersectAsync(f, g)
    <2>1. Expect(f, expected[f] \cap expected[g]) BY <1>6 DEF IntersectAsync
    <2>2. CASE f = g
      <3>1. UNCHANGED <<host, queue>> BY <1>6, <2>2 DEF IntersectAsync
      <3>2. expected[f] \cap expected[g] \subseteq expected[f] OBVIOUS
      <3> QED BY <1>4, <2>1, <3>1, <3>2
    <2>3. CASE f # g /\ (host[f].knownEmpty \/ host[g].knownEmpty)
      <3>1. ClearLaunches(f) BY <1>6, <2>3 DEF IntersectAsync
      <3>2. expected[f] \cap expected[g] = {} BY <1>2, <2>3
      <3> QED BY <1>1, <2>1, <3>1, <3>2, ClearCalls
    <2>4. CASE f # g /\ ~(host[f].knownEmpty \/ host[g].knownEmpty)
      <3>1. /\ host' = [host EXCEPT ![f] = MarkDirty(host[f])]
            /\ Launch(<<[Kernel("intersect", f) EXCEPT !.from = g]>>)
        BY <1>6, <2>4 DEF IntersectAsync
      <3> QED BY <1>3, <2>1, <3>1
    <2> QED BY <2>2, <2>3, <2>4
  <1> QED BY <1>5, <1>6

\* ContainsAsync and ContainsIfAsync read only.
LEMMA QueryCalls ==
    ASSUME HostInv, StreamInv, CallsOK, NEW c \in Calls,
           NEW op \in {"contains", "contains if"}, Query(op, c.f, c)
    PROVE  HostInv' /\ StreamInv'
  <1> DEFINE f == c.f
             kind == IF host[f].knownEmpty THEN "zeros" ELSE op
  <1>1. /\ f \in Filter /\ c.keys \in Seq(Key) /\ c.sel \in Seq(BOOLEAN)
        /\ Len(c.keys) \in Nat /\ DOMAIN c.keys = 1..Len(c.keys)
    <2>1. f \in Filter /\ c.keys \in Seq(Key) /\ c.sel \in Seq(BOOLEAN) BY DEF CallsOK
    <2> QED BY <2>1, LenProperties
  <1>2. host[f] \in Object /\ host \in [Filter -> Object] BY <1>1 DEF HostInv
  <1>3. Wanted(f, c) \in Seq(BOOLEAN)
    <2>1. Wanted(f, c) = [i \in 1..Len(c.keys) |->
                             c.sel[i] /\ BitsOf(c.keys[i]) \subseteq expected[f]]
      <3>1. DOMAIN c.keys = 1..Len(c.keys) BY <1>1
      <3> QED BY ONLY <3>1 DEF Wanted
    <2>2. \A i \in 1..Len(c.keys) :
             (c.sel[i] /\ BitsOf(c.keys[i]) \subseteq expected[f]) \in BOOLEAN
      OBVIOUS
    <2>3. Wanted(f, c) \in [1..Len(c.keys) -> BOOLEAN] BY <2>1, <2>2
    <2>4. \E n \in Nat : Wanted(f, c) \in [1..n -> BOOLEAN] BY <1>1, <2>3
    <2>5. \A s : (\E n \in Nat : s \in [1..n -> BOOLEAN]) => s \in Seq(BOOLEAN) BY SeqDef
    <2> QED BY ONLY <2>4, <2>5
  <1> SUFFICES ASSUME NEW k, k = [Kernel(kind, f) EXCEPT !.keys = c.keys, !.sel = c.sel,
                                                         !.want = Wanted(f, c)]
               PROVE  HostInv' /\ StreamInv'
    OBVIOUS
  <1>4. /\ Launch(<<k>>) /\ UNCHANGED <<host, expected>>
        /\ UNCHANGED <<layout, counters>>
    BY DEF Query, NoDevice, workspace
  <1>5. k \in Launched /\ k.op \in {"contains", "contains if", "zeros"}
    <2>3. kind \in {"contains", "contains if", "zeros"} OBVIOUS
    <2>1. kind \in Kinds BY DEF Kinds
    <2> HIDE DEF kind
    <2>2. Kernel(kind, f) \in Launched /\ Kernel(kind, f).op = kind BY <1>1, <2>1, KernelIsLaunched
    <2> QED BY <1>1, <1>3, <2>2, <2>3 DEF Launched
  <1>6. k.op \notin RoutedKernels \cup PrivateKernels
    BY <1>5 DEF RoutedKernels, PrivateKernels
  <1>7. host' = [host EXCEPT ![f] = host[f]] BY <1>2, <1>4
  <1>8. Called(f, host[f], <<k>>) BY <1>1, <1>2, <1>4, <1>5, <1>6, <1>7, OneKernel
  <1>9. StreamInv' BY <1>1, <1>8, CalledKeeps
  <1> QED BY <1>4, <1>9 DEF HostInv, KnownEmptyIsEmpty, Sized

\* The pointer that Data hands out, and what is written through it.
LEMMA DataCalls ==
    ASSUME HostInv, StreamInv, NEW f \in Filter, Data(f) \/ \E k : WriteThrough(f, k)
    PROVE  HostInv' /\ StreamInv'
  <1>1. host[f] \in Object /\ Sized(host[f]) /\ host \in [Filter -> Object] BY DEF HostInv
  <1>2. CASE Data(f)
    <2> SUFFICES ASSUME NEW a, a = [MarkDirty(host[f]) EXCEPT !.exposed = TRUE]
                 PROVE  HostInv' /\ StreamInv'
      OBVIOUS
    <2>1. /\ a \in Object /\ a.workspace = host[f].workspace /\ Sized(a) /\ ~a.knownEmpty
      BY <1>1 DEF MarkDirty, Object, Sized
    <2>2. host' = [host EXCEPT ![f] = a] /\ UNCHANGED <<queue, expected, layout, counters>>
      BY <1>2 DEF Data, NoDevice, workspace
    <2>3. queue \o <<>> = queue
      <3>1. queue \in Seq(Launched) BY DEF StreamInv
      <3> QED BY <3>1
    <2>4. Called(f, a, <<>>) BY <2>1, <2>2, <2>3, NoKernel DEF Called
    <2>5. StreamInv' /\ host' \in [Filter -> Object] /\ \A g \in Filter : Sized(host'[g])
      BY <2>4, CalledKeeps
    <2>6. ASSUME NEW g \in Filter, host'[g].knownEmpty
          PROVE  expected'[g] = {} /\ ~host'[g].exposed
      <3>1. g # f BY <1>1, <2>1, <2>2, <2>6
      <3> QED BY <1>1, <2>2, <2>6, <3>1 DEF HostInv, KnownEmptyIsEmpty
    <2>7. DOMAIN expected' = Filter BY <2>2 DEF HostInv
    <2>8. (\A g \in Filter : Sized(host[g]))' BY <2>5 DEF Sized
    <2> QED BY <2>5, <2>6, <2>7, <2>8 DEF HostInv, KnownEmptyIsEmpty
  <1>3. ASSUME NEW k, WriteThrough(f, k) PROVE HostInv' /\ StreamInv'
    <2>1. /\ UNCHANGED <<host, queue, layout, counters>> /\ host[f].exposed
          /\ Expect(f, expected[f] \cup BitsOf(k))
      BY <1>3 DEF WriteThrough, workspace
    <2>2. ~host[f].knownEmpty BY <2>1 DEF HostInv, KnownEmptyIsEmpty
    <2>3. Called(f, host[f], <<>>) BY <2>1, NothingCalled
    <2> QED BY <2>1, <2>2, <2>3, CallKeeps
  <1> QED BY <1>2, <1>3

\* A filter moves with its workspace and all that is known of it.
LEMMA MoveCalls ==
    ASSUME HostInv, StreamInv, NEW f \in Filter, NEW g \in Filter, Move(f, g)
    PROVE  HostInv' /\ StreamInv'
  <1>1. /\ f # g /\ queue = <<>> /\ queue' = queue /\ layout' = layout
        /\ host' = [host EXCEPT ![f] = host[g], ![g] = Released]
        /\ expected' = [expected EXCEPT ![f] = expected[g], ![g] = {}]
        /\ counters' = [counters EXCEPT ![f] = counters[g], ![g] = counters[f]]
    BY DEF Move, Taken
  <1>2. /\ host \in [Filter -> Object] /\ counters \in [Filter -> [Block -> Nat]]
        /\ DOMAIN expected = Filter /\ Block' = Block
    BY <1>1 DEF HostInv, StreamInv, Block, NumBlocks
  <1>3. Released \in Object /\ Sized(Released) /\ Released.workspace = "none"
        /\ ~Released.knownEmpty
    BY DEF Released, Constructed, Object, Sized
  <1>4. /\ host'[f] = host[g] /\ host'[g] = Released
        /\ \A x \in Filter : x # f /\ x # g => host'[x] = host[x]
        /\ host' \in [Filter -> Object]
    BY <1>1, <1>2, <1>3
  <1>5. /\ expected'[f] = expected[g] /\ DOMAIN expected' = Filter
        /\ \A x \in Filter : x # f /\ x # g => expected'[x] = expected[x]
    BY <1>1, <1>2
  <1>6. /\ counters'[f] = counters[g] /\ counters' \in [Filter -> [Block -> Nat]]
        /\ \A x \in Filter : x # f /\ x # g => counters'[x] = counters[x]
    BY <1>1, <1>2
  <1>7. ASSUME NEW x \in Filter
        PROVE  /\ Sized(host'[x])
               /\ host'[x].knownEmpty => expected'[x] = {} /\ ~host'[x].exposed
               /\ host'[x].workspace = "routed" => \A b \in Block : counters'[x][b] = 0
    <2>1. \A y \in Filter :
            /\ Sized(host[y])
            /\ host[y].knownEmpty => expected[y] = {} /\ ~host[y].exposed
      BY DEF HostInv, KnownEmptyIsEmpty
    <2>2. \A y \in Filter : host[y].workspace = "routed" => \A b \in Block : counters[y][b] = 0
      <3>1. ~\E i \in 1..Len(queue) : TRUE BY <1>1
      <3> QED BY <3>1 DEF StreamInv, Zeroes, Zero
    <2>3. CASE x = f BY <1>4, <1>5, <1>6, <2>1, <2>2, <2>3
    <2>4. CASE x = g BY <1>3, <1>4, <2>4
    <2>5. CASE x # f /\ x # g BY <1>4, <1>5, <1>6, <2>1, <2>2, <2>5
    <2> QED BY <2>3, <2>4, <2>5
  <1>8. HostInv'
    <2>1. (\A x \in Filter : Sized(host[x]))' BY <1>7 DEF Sized
    <2> QED BY <1>4, <1>5, <1>7, <2>1 DEF HostInv, KnownEmptyIsEmpty
  <1>9. StreamInv'
    <2>1. (\A x \in Filter : host[x].workspace = "routed" => Zero(x))' BY <1>2, <1>7 DEF Zero
    <2>2. (counters \in [Filter -> [Block -> Nat]])' BY <1>2, <1>6
    <2>3. queue' \in Seq(Launched) /\ Paired(queue)' /\ Served(queue, host)'
      <3>1. queue' = <<>> BY <1>1
      <3> QED BY <3>1, NoKernel DEF Paired, Served
    <2> QED BY <2>1, <2>2, <2>3 DEF StreamInv
  <1> QED BY <1>8, <1>9

\* Every call.
LEMMA HostKeeps ==
    ASSUME HostInv, StreamInv, CallsOK, WorkersOK, NEW c \in Calls, Host(c)
    PROVE  HostInv' /\ StreamInv'
  <1>1. c.f \in Filter /\ c.from \in Filter BY DEF CallsOK
  <1>2. CASE AddAsync(c.f, c) BY <1>2, AddCalls
  <1>3. CASE AddIfAsync(c.f, c) BY <1>3, AddIfCalls
  <1>4. CASE ClearAsync(c.f)
    <2>1. ClearLaunches(c.f) /\ Expect(c.f, {}) /\ UNCHANGED <<layout, counters>>
      BY <1>4 DEF ClearAsync, NoDevice, workspace
    <2> QED BY <1>1, <2>1, ClearCalls
  <1>5. CASE MergeAsync(c.f, c.from) \/ IntersectAsync(c.f, c.from) BY <1>1, <1>5, CombineCalls
  <1>6. CASE ContainsAsync(c.f, c) BY <1>6, QueryCalls DEF ContainsAsync
  <1>7. CASE ContainsIfAsync(c.f, c) BY <1>7, QueryCalls DEF ContainsIfAsync
  <1>8. CASE Data(c.f) \/ \E k \in Range(c.keys) : WriteThrough(c.f, k)
    BY <1>1, <1>8, DataCalls
  <1>9. CASE Move(c.f, c.from) BY <1>1, <1>9, MoveCalls
  <1> QED BY <1>2, <1>3, <1>4, <1>5, <1>6, <1>7, <1>8, <1>9 DEF Host
--------------------------------------------------------------------------------
(* The kernels. *)

\* A step of a kernel changes nothing of what the host believes.
LEMMA Believed ==
    ASSUME HostInv, UNCHANGED <<host, expected>>
    PROVE  HostInv'
  <1>1. host' = host /\ expected' = expected OBVIOUS
  <1>2. \A f \in Filter : Sized(host[f])' = Sized(host[f]) BY <1>1 DEF Sized
  <1> QED BY <1>1, <1>2 DEF HostInv, KnownEmptyIsEmpty

\* A kernel that runs on counts in the counters of its filter only if they are not
\* expected to be zero.
LEMMA RunsOn ==
    ASSUME HostInv, StreamInv, KeepQueue, (counters \in [Filter -> [Block -> Nat]])',
           \A f \in Filter : host[f].workspace = "routed" =>
               counters'[f] = counters[f] \/ Zeroes(f, queue)
    PROVE  HostInv' /\ StreamInv'
  <1>1. layout' = layout /\ host' = host /\ expected' = expected /\ queue' = queue
    BY DEF KeepQueue, KeepHost
  <1>2. Paired(queue)' /\ Served(queue, host)' BY <1>1 DEF StreamInv, Paired, Served
  <1>3. ASSUME NEW f \in Filter, host'[f].workspace = "routed" PROVE (Zero(f) \/ Zeroes(f, queue))'
    <2>1. Zeroes(f, queue)' = Zeroes(f, queue) BY <1>1 DEF Zeroes
    <2>2. counters'[f] = counters[f] => Zero(f)' = Zero(f) BY <1>1 DEF Zero, Block, NumBlocks
    <2> QED BY <1>1, <1>3, <2>1, <2>2 DEF StreamInv
  <1> QED BY <1>1, <1>2, <1>3, Believed DEF StreamInv

\* A kernel that ends has set the counters of its filter to zero if it was to.
LEMMA Ends ==
    ASSUME HostInv, StreamInv, queue # <<>>, Finish, (counters \in [Filter -> [Block -> Nat]])',
           \A f \in Filter :
              Head(queue).op \in {"clear workspace", "apply"} /\ Head(queue).f = f => Zero(f)',
           \A f \in Filter : counters'[f] = counters[f] \/ Zero(f)'
    PROVE  HostInv' /\ StreamInv'
  <1>1. layout' = layout /\ host' = host /\ expected' = expected /\ queue' = Tail(queue)
    BY DEF Finish, KeepHost
  <1>2. /\ Tail(queue) \in Seq(Launched) /\ Paired(Tail(queue)) /\ Served(Tail(queue), host)
        /\ \A f : Zeroes(f, queue) =>
              \/ Zeroes(f, Tail(queue))
              \/ Head(queue).op \in {"clear workspace", "apply"} /\ Head(queue).f = f
    BY Shifted DEF StreamInv
  <1>3. Paired(queue)' /\ Served(queue, host)' BY <1>1, <1>2 DEF Paired, Served
  <1>4. ASSUME NEW f \in Filter, host'[f].workspace = "routed" PROVE (Zero(f) \/ Zeroes(f, queue))'
    <2>1. Zeroes(f, queue)' = Zeroes(f, Tail(queue)) BY <1>1 DEF Zeroes
    <2>2. counters'[f] = counters[f] => Zero(f)' = Zero(f) BY <1>1 DEF Zero, Block, NumBlocks
    <2>3. Zero(f) \/ Zeroes(f, queue) BY <1>1, <1>4 DEF StreamInv
    <2>4. CASE Zero(f) BY <2>2, <2>4
    <2>5. CASE Zeroes(f, queue) BY <1>2, <2>1, <2>5
    <2> QED BY <2>3, <2>4, <2>5
  <1> QED BY <1>1, <1>2, <1>3, <1>4, Believed DEF StreamInv

\* The counters of a filter are of its blocks throughout.
LEMMA SameBlocks == ASSUME layout' = layout PROVE Block' = Block /\ \A f : Zero(f)' =
                              (\A b \in Block : counters'[f][b] = 0)
  BY DEF Block, NumBlocks, Zero

\* Kernels that leave the counters alone.
LEMMA CountersKept ==
    ASSUME HostInv, StreamInv, UNCHANGED counters,
           \/ KeepQueue
           \/ Finish /\ queue # <<>> /\ Head(queue).op \notin {"clear workspace", "apply"}
    PROVE  HostInv' /\ StreamInv'
  <1>1. layout' = layout BY DEF KeepQueue, Finish, KeepHost
  <1>2. (counters \in [Filter -> [Block -> Nat]])' BY <1>1, SameBlocks DEF StreamInv
  <1> QED BY <1>2, RunsOn, Ends

\* ClearWorkspace makes a new workspace's counters zero.
LEMMA ClearWorkspaceKeeps ==
    ASSUME HostInv, StreamInv, ClearWorkspace
    PROVE  HostInv' /\ StreamInv'
  <1> SUFFICES ASSUME NEW f, f = Head(queue).f PROVE HostInv' /\ StreamInv' OBVIOUS
  <1>1. /\ queue # <<>> /\ Finish
        /\ counters' = [counters EXCEPT ![f] = [b \in Block |-> 0]]
    BY DEF ClearWorkspace, Running, This
  <1>2. Block' = Block /\ counters \in [Filter -> [Block -> Nat]]
        /\ \A g : Zero(g)' = (\A b \in Block : counters'[g][b] = 0)
    BY <1>1, SameBlocks DEF Finish, KeepHost, StreamInv
  <1>3. f \in Filter
    <2>1. Head(queue) \in Launched BY <1>1, Shifted DEF StreamInv
    <2> QED BY <2>1 DEF Launched
  <1>4. counters' \in [Filter -> [Block -> Nat]] BY <1>1, <1>2
  <1>5. Zero(f)' BY <1>1, <1>2, <1>3
  <1>6. \A g \in Filter : counters'[g] = counters[g] \/ Zero(g)' BY <1>1, <1>2, <1>5
  <1> QED BY <1>1, <1>2, <1>4, <1>5, <1>6, Ends

\* ApplyPackedH8V1 sets to zero what is not: its workspace has slots.
LEMMA ApplyKeeps ==
    ASSUME HostInv, StreamInv, ApplyPackedH8V1
    PROVE  HostInv' /\ StreamInv'
  <1> SUFFICES ASSUME NEW f, f = Head(queue).f PROVE HostInv' /\ StreamInv' OBVIOUS
  <1> DEFINE retained(b) == Min({counters[f][b], host[f].slots})
  <1>1. /\ queue # <<>> /\ Finish /\ Head(queue).op = "apply"
        /\ counters' = [counters EXCEPT
               ![f] = [b \in Block |-> IF retained(b) = 0 THEN counters[f][b] ELSE 0]]
    BY DEF ApplyPackedH8V1, Running, This
  <1>2. Block' = Block /\ counters \in [Filter -> [Block -> Nat]]
        /\ \A g : Zero(g)' = (\A b \in Block : counters'[g][b] = 0)
    BY <1>1, SameBlocks DEF Finish, KeepHost, StreamInv
  <1>3. f \in Filter /\ queue[1] = Head(queue)
    <2>1. Head(queue) \in Launched /\ queue[1] = Head(queue) BY <1>1, Shifted DEF StreamInv
    <2> QED BY <2>1 DEF Launched
  <1>4. host[f].slots \in Nat /\ host[f].slots > 0
    <2>1. 1 \in 1..Len(queue)
      <3>1. queue \in Seq(Launched) BY DEF StreamInv
      <3>2. Len(queue) \in Nat /\ Len(queue) # 0 BY <1>1, <3>1
      <3> QED BY <3>2
    <2>2. host[f].workspace = "routed"
      BY <1>1, <1>3, <2>1 DEF StreamInv, Served, RoutedKernels
    <2> QED BY <1>3, <2>2 DEF HostInv, Sized, Object
  <1>5. \A b \in Block : retained(b) = 0 <=> counters[f][b] = 0
    <2> SUFFICES ASSUME NEW b \in Block PROVE retained(b) = 0 <=> counters[f][b] = 0 OBVIOUS
    <2>1. counters[f][b] \in Nat BY <1>2, <1>3
    <2> QED BY <1>4, <2>1, SmallerOf
  <1> HIDE DEF retained
  <1>6. counters' \in [Filter -> [Block -> Nat]] BY <1>1, <1>2, <1>3
  <1>7. Zero(f)' BY <1>1, <1>2, <1>3, <1>5
  <1>8. \A g \in Filter : counters'[g] = counters[g] \/ Zero(g)' BY <1>1, <1>2, <1>7
  <1> QED BY <1>1, <1>2, <1>6, <1>7, <1>8, Ends

\* A ticket of Route is counted while the Apply that will set the counters to zero
\* is in the stream.
LEMMA RouteTicketKeeps ==
    ASSUME HostInv, StreamInv, NEW t, RouteTicket(t)
    PROVE  HostInv' /\ StreamInv'
  <1> SUFFICES ASSUME NEW f, f = Head(queue).f PROVE HostInv' /\ StreamInv' OBVIOUS
  <1> DEFINE n == RoutedBlockIndex(UpperHash(KeyAt(Upcoming(t))))
  <1>1. /\ queue # <<>> /\ KeepQueue /\ Head(queue).op = "route"
        /\ counters' = [counters EXCEPT ![f][n] = @ + 1]
    BY DEF RouteTicket, AtKey, Running, This
  <1>2. Block' = Block /\ counters \in [Filter -> [Block -> Nat]]
    BY <1>1, SameBlocks DEF KeepQueue, KeepHost, StreamInv
  <1>3. f \in Filter /\ queue[1] = Head(queue)
    <2>1. Head(queue) \in Launched /\ queue[1] = Head(queue) BY <1>1, Shifted DEF StreamInv
    <2> QED BY <2>1 DEF Launched
  <1>4. Zeroes(f, queue)
    <2>1. 1 \in 1..Len(queue)
      <3>1. queue \in Seq(Launched) BY DEF StreamInv
      <3>2. Len(queue) \in Nat /\ Len(queue) # 0 BY <1>1, <3>1
      <3> QED BY <3>2
    <2>2. 1 + 1 \in 1..Len(queue) /\ queue[1 + 1].op = "apply" /\ queue[1 + 1].f = f
      BY <1>1, <1>3, <2>1 DEF StreamInv, Paired
    <2> QED BY <2>2 DEF Zeroes
  <1> HIDE DEF n
  <1>5. counters' \in [Filter -> [Block -> Nat]]
    <2>1. [counters[f] EXCEPT ![n] = @ + 1] \in [Block -> Nat]
      <3>1. counters[f] \in [Block -> Nat] BY <1>2, <1>3
      <3>2. \A b \in Block : [counters[f] EXCEPT ![n] = @ + 1][b] \in Nat BY <3>1
      <3> QED BY <3>1, <3>2
    <2>2. counters' = [counters EXCEPT ![f] = [counters[f] EXCEPT ![n] = @ + 1]] BY <1>1
    <2> QED BY <1>2, <2>1, <2>2
  <1>6. \A g \in Filter : g # f => counters'[g] = counters[g] BY <1>1, <1>2
  <1> QED BY <1>1, <1>2, <1>4, <1>5, <1>6, RunsOn

\* Every step of a kernel.
LEMMA DeviceKeeps ==
    ASSUME HostInv, StreamInv, Device
    PROVE  HostInv' /\ StreamInv'
  <1> DEFINE Quiet == /\ UNCHANGED counters
                      /\ KeepQueue \/ (Finish /\ queue # <<>> /\
                                       Head(queue).op \notin {"clear workspace", "apply"})
  <1>1. CASE Quiet BY <1>1, CountersKept
  <1>2. ClearSimt \/ ResetFlag \/ CombineSimt \/ ContainsSimt => Quiet
    BY DEF ClearSimt, ResetFlag, CombineSimt, ContainsSimt, Running, workspace
  <1>3. AddSimt \/ EndAdd => Quiet BY DEF AddSimt, EndAdd, Running, workspace
  <1>4. RoutePackedH8V1 \/ EndRoute => Quiet
    BY DEF RoutePackedH8V1, EndRoute, Running, workspace
  <1>5. RoutePrivateH8V1 \/ RoutePrivateH8V1If \/ EndPrivateRoute => Quiet
    BY DEF RoutePrivateH8V1, RoutePrivateH8V1If, EndPrivateRoute, Running, workspace, Routes
  <1>6. SkipApply \/ BeginApply => Quiet
    BY DEF SkipApply, BeginApply, Running, workspace, TiledApplies, CompactApplies
  <1>7. CombineTiled \/ CombineCompact => Quiet
    BY DEF CombineTiled, CombineCompact, Onwards, Gathering, Running, TiledApplies, CompactApplies
  <1>8. ASSUME NEW t, Simt(t) PROVE RouteTicket(t) \/ Quiet
    BY <1>8 DEF Simt, AddPackedPairs, AddWord, CommitRouted, AddTicket, Observe, OverflowIsSet,
                CasTicket, CommitPrivate, workspace
  <1>9. ASSUME NEW r, GatherTiled(r) \/ GatherCompact(r) PROVE Quiet
    BY <1>9 DEF GatherTiled, GatherCompact, workspace
  <1>10. CASE ClearWorkspace BY <1>10, ClearWorkspaceKeeps
  <1>11. CASE ApplyPackedH8V1 BY <1>11, ApplyKeeps
  <1>12. ASSUME NEW t, RouteTicket(t) PROVE HostInv' /\ StreamInv' BY <1>12, RouteTicketKeeps
  <1> HIDE DEF Quiet
  <1> QED BY <1>1, <1>2, <1>3, <1>4, <1>5, <1>6, <1>7, <1>8, <1>9, <1>10, <1>11, <1>12 DEF Device

--------------------------------------------------------------------------------
(* The theorems. *)

\* Both invariants hold at the start.
LEMMA InitKeeps == ASSUME Init PROVE HostInv /\ StreamInv
  <1>1. Constructed \in Object /\ Sized(Constructed) /\ Constructed.workspace = "none"
        /\ ~Constructed.exposed
    BY DEF Constructed, Object, Sized
  <1>2. HostInv BY <1>1 DEF Init, HostInv, KnownEmptyIsEmpty
  <1>3. StreamInv BY <1>1, NoKernel DEF Init, StreamInv
  <1> QED BY <1>2, <1>3

\* Every step keeps them.
LEMMA NextKeeps ==
    ASSUME CallsOK, WorkersOK, HostInv, StreamInv, [Next]_vars
    PROVE  HostInv' /\ StreamInv'
  <1>1. ASSUME NEW c \in Calls, Host(c) PROVE HostInv' /\ StreamInv' BY <1>1, HostKeeps
  <1>2. CASE Device BY <1>2, DeviceKeeps
  <1>3. CASE UNCHANGED vars
    <2>1. KeepQueue /\ UNCHANGED counters
      BY <1>3 DEF vars, KeepQueue, KeepHost, workspace
    <2> QED BY <2>1, CountersKept
  <1> QED BY <1>1, <1>2, <1>3 DEF Next

\* So they hold in every behaviour.
LEMMA FiltersAreKept == ASSUME CallsOK, WorkersOK PROVE Spec => [](HostInv /\ StreamInv)
  <1>1. Init => HostInv /\ StreamInv BY InitKeeps
  <1>2. HostInv /\ StreamInv /\ [Next]_vars => HostInv' /\ StreamInv' BY NextKeeps
  <1> QED BY <1>1, <1>2, PTL DEF Spec

--------------------------------------------------------------------------------
(* The private apply. *)

\* The blocks of a tile, in numbers.
LEMMA TileNumbers ==
    ASSUME HashesOK, NEW l, l.bucket \in Bucket, l.tile \in 0..(Tiles - 1)
    PROVE  /\ Bucket = 0..1 /\ Tiles \in {1, 2} /\ TileSize * Tiles = 2
           /\ l.bucket \in 0..1 /\ TileStart(l) \in Nat /\ TileEnd(l) \in Nat
           /\ TileBlocks(l.tile) \subseteq 0..1
           /\ \A g \in 0..3 : TileStart(l) <= g /\ g < TileEnd(l) =>
                \E b \in TileBlocks(l.tile) : g = GlobalBlock(l.bucket, b)
           /\ \A b \in 0..1 : \A c \in 0..1 :
                TileStart(l) <= GlobalBlock(c, b) /\ GlobalBlock(c, b) < TileEnd(l) <=>
                    c = l.bucket /\ b \in TileBlocks(l.tile)
  <1>1. Bucket = 0..1
    <2>1. 2^BucketBits = 2 BY Powers
    <2> QED BY <2>1 DEF Bucket
  <1>2. Tiles \in {1, 2} BY DEF Tiles
  <1>3. TileSize = IF Tiles = 1 THEN 2 ELSE 1 BY <1>2 DEF TileSize, BlocksPerBucket
  <1>4. \A tile : TileBlocks(tile) = tile * TileSize..((tile + 1) * TileSize - 1)
    BY DEF TileBlocks, TileSize
  <1>5. \A c, b : GlobalBlock(c, b) = c * 2 + b BY DEF GlobalBlock, BlocksPerBucket
  <1>6. TileStart(l) = l.bucket * 2 + l.tile * TileSize /\ TileEnd(l) = TileStart(l) + TileSize
    BY DEF TileStart, TileEnd, BlocksPerBucket
  <1> SUFFICES ASSUME NEW c, c = l.bucket, NEW t, t = l.tile, NEW B, B = TileBlocks(t),
                      NEW x, x = TileStart(l), NEW y, y = TileEnd(l), NEW n, n = Tiles,
                      NEW z, z = TileSize
               PROVE  /\ z * n = 2 /\ c \in 0..1 /\ x \in Nat /\ y \in Nat /\ B \subseteq 0..1
                      /\ \A g \in 0..3 : x <= g /\ g < y => \E b \in B : g = c * 2 + b
                      /\ \A b \in 0..1 : \A a \in 0..1 :
                           x <= a * 2 + b /\ a * 2 + b < y <=> a = c /\ b \in B
    BY <1>1, <1>2, <1>5
  <1>7. /\ c \in 0..1 /\ t \in 0..(n - 1) /\ n \in {1, 2} /\ z = (IF n = 1 THEN 2 ELSE 1)
        /\ B = t * z..((t + 1) * z - 1) /\ x = c * 2 + t * z /\ y = x + z
    BY <1>1, <1>2, <1>3, <1>4, <1>6
  <1>8. CASE n = 1
    <2>1. t = 0 /\ z = 2 /\ B = 0..1 /\ x = c * 2 /\ y = c * 2 + 2 BY ONLY <1>7, <1>8
    <2> QED BY ONLY <1>7, <1>8, <2>1
  <1>9. CASE n = 2
    <2>1. t \in 0..1 /\ z = 1 /\ B = {t} /\ x = c * 2 + t /\ y = c * 2 + t + 1 BY ONLY <1>7, <1>9
    <2> QED BY ONLY <1>7, <1>9, <2>1
  <1> QED BY ONLY <1>7, <1>8, <1>9

\* What the tiles depend on.
LEMMA TilesAreRigid ==
    ASSUME UNCHANGED <<layout, host, queue, counts, records>>
    PROVE  /\ Tiles' = Tiles /\ TileSize' = TileSize
           /\ \A tile : TileBlocks(tile)' = TileBlocks(tile)
           /\ \A r : BlockAt(r)' = BlockAt(r) /\ LowerAt(r)' = LowerAt(r)
           /\ \A f, b : BucketOverflow(f, b)' = BucketOverflow(f, b)
           /\ \A f, b, tile : TileRecords(f, b, tile)' = TileRecords(f, b, tile)
  <1>1. Tiles' = Tiles BY DEF Tiles, This
  <1>2. TileSize' = TileSize /\ \A tile : TileBlocks(tile)' = TileBlocks(tile)
    BY <1>1 DEF TileSize, TileBlocks
  <1>3. \A f, r : HashAt(f, r)' = HashAt(f, r) BY DEF HashAt
  <1>4. \A r : BlockAt(r)' = BlockAt(r) /\ LowerAt(r)' = LowerAt(r)
    BY <1>3 DEF BlockAt, LowerAt, This
  <1>5. \A f : Producers(f)' = Producers(f) BY DEF Producers
  <1>6. \A f, b : BucketOverflow(f, b)' = BucketOverflow(f, b)
    BY <1>5 DEF BucketOverflow, SegmentOverflow
  <1>7. \A f, b : BucketRecords(f, b)' = BucketRecords(f, b)
    <2>1. \A f, b, p : SegmentCount(f, b, p)' = SegmentCount(f, b, p) BY DEF SegmentCount
    <2> QED BY <1>5, <2>1 DEF BucketRecords
  <1>8. \A f, b, tile : TileRecords(f, b, tile)' = TileRecords(f, b, tile)
    BY <1>2, <1>3, <1>7 DEF TileRecords
  <1> QED BY <1>1, <1>2, <1>4, <1>6, <1>8

\* An apply, after a step.
LEMMA ApplyGoingNext ==
    ASSUME UNCHANGED <<layout, host, queue, counts, records>>, NEW m, NEW k, NEW was,
           NEW now, now = bits', NEW l, l = local'
    PROVE  ApplyGoing(m, k, was)' <=> threads' = <<>> /\ l # <<>> /\ ApplyAt(m, k, was, now, l)
  <1>1. Around(m, k, was, bits)' <=> Around(m, k, was, now)
    BY DEF Around, PrivateKept, Kept, Published, PrivatePut, Sunk
  <1>2. TileTyped(k, local)' <=> TileTyped(k, l) BY TilesAreRigid DEF TileTyped
  <1>3. TileStart(local)' = TileStart(l) /\ TileEnd(local)' = TileEnd(l)
    BY TilesAreRigid DEF TileStart, TileEnd
  <1>4. Sofar(m, k, was[k.f], bits[k.f], TileStart(local), TileEnd(local))' <=>
        Sofar(m, k, was[k.f], now[k.f], TileStart(l), TileEnd(l))
    BY <1>3, TilesAreRigid DEF Sofar
  <1>5. Gathered(k, local)' = Gathered(k, l) BY TilesAreRigid DEF Gathered
  <1>6. \A b : BlockKept(m, k, was[k.f], bits[k.f], local, b)' <=>
               BlockKept(m, k, was[k.f], now[k.f], l, b)
    BY <1>5, TilesAreRigid DEF BlockKept, Combined
  <1>7. TileBlocks(local.tile)' = TileBlocks(l.tile) BY TilesAreRigid
  <1> QED BY <1>1, <1>2, <1>4, <1>6, <1>7 DEF ApplyGoing, ApplyAt

\* A record that stands for an element.
Recorded(k, b, r, i) ==
    /\ BlockAt(r) \in 0..1
    /\ GlobalBlock(b, BlockAt(r)) = BlockIndex(UpperHash(k.keys[i]))
    /\ InBlock(GlobalBlock(b, BlockAt(r)), BlockPattern(LowerAt(r))) = BitsOf(k.keys[i])

\* What the route has left of the batch: the records stand for elements, and the
\* elements that are not in the filter have a record.
LEMMA RecordsStand ==
    ASSUME Sound, NEW m, NEW s, NEW e, Here(m, s, e), queue # <<>>,
           NEW k, k = Head(queue), k.op \in PrivateKernels, NEW now, NEW cell,
           PrivateKept(m, k, cell, host[k.f].producers, counts[k.f], records[k.f], now)
    PROVE  /\ \A b \in Bucket : \A r \in BucketRecords(k.f, b) :
                \E i \in Chosen(k) : Recorded(k, b, r, i)
           /\ \A i \in Chosen(k) :
                \/ i \in Sunk(m, k, now)
                \/ \E b \in Bucket : \E r \in BucketRecords(k.f, b) : Recorded(k, b, r, i)
  <1> SUFFICES ASSUME NEW f, f = k.f, NEW n, n = host[f].producers, NEW D, D = Segments(n),
                      NEW S, S = Chosen(k), NEW count, count = Published(D, counts[f]),
                      NEW cap, cap = SegmentRecords, NEW file, file = records[f]
               PROVE  /\ \A b \in Bucket : \A r \in BucketRecords(f, b) :
                           \E i \in S : Recorded(k, b, r, i)
                      /\ \A i \in S :
                           \/ i \in Sunk(m, k, now)
                           \/ \E b \in Bucket : \E r \in BucketRecords(f, b) : Recorded(k, b, r, i)
    OBVIOUS
  <1>1. f \in Filter BY PrivateStands
  <1>2. n \in 1..Cores /\ Cores \in Nat /\ cap \in Nat BY PrivateStands DEF Sound, WorkersOK
  <1>3. \A i \in S :
            /\ k.keys[i] \in Key /\ BucketOf(UpperHash(k.keys[i])) \in Bucket
            /\ LocalBlock(UpperHash(k.keys[i])) \in 0..1
            /\ GlobalBlock(BucketOf(UpperHash(k.keys[i])), LocalBlock(UpperHash(k.keys[i]))) =
                 BlockIndex(UpperHash(k.keys[i]))
    BY PrivateStands
  <1>4. /\ \A i \in S : cell[i][1] = BucketOf(UpperHash(k.keys[i]))
        /\ Kept(S, D, cell, count, cap, PrivatePut(k, file, D), Sunk(m, k, now))
    BY DEF PrivateKept
  <1>5. counts[f] \in [Bucket -> [0..(Cores - 1) -> Nat]] BY <1>1 DEF Here, Arrays
  <1>6. \A b \in Bucket : \A p \in 0..(n - 1) :
            /\ <<b, p>> \in D /\ count[<<b, p>>] = counts[f][b][p] /\ counts[f][b][p] \in Nat
    <2> SUFFICES ASSUME NEW b \in Bucket, NEW p \in 0..(n - 1)
                 PROVE  /\ <<b, p>> \in D /\ count[<<b, p>>] = counts[f][b][p]
                        /\ counts[f][b][p] \in Nat
      OBVIOUS
    <2>1. <<b, p>> \in D BY DEF Segments
    <2>2. count[<<b, p>>] = counts[f][b][p] BY <2>1 DEF Published
    <2>3. p \in 0..(Cores - 1) BY <1>2
    <2>4. counts[f][b][p] \in Nat BY <1>5, <2>3
    <2> QED BY <2>1, <2>2, <2>4, SMTT(40)
  <1>7. \A b \in Bucket : \A r : r \in BucketRecords(f, b) <=>
            \E p \in 0..(n - 1) : \E a \in 0..(cap - 1) : r = <<b, p, a>> /\ a < count[<<b, p>>]
    <2> SUFFICES ASSUME NEW b \in Bucket, NEW r
                 PROVE  r \in BucketRecords(f, b) <=>
                          \E p \in 0..(n - 1) : \E a \in 0..(cap - 1) :
                              r = <<b, p, a>> /\ a < count[<<b, p>>]
      OBVIOUS
    <2>1. r \in BucketRecords(f, b) <=> \E p \in 0..(n - 1) :
             \E a \in 0..(SegmentCount(f, b, p) - 1) : r = <<b, p, a>>
      BY DEF BucketRecords, Producers
    <2>2. ASSUME NEW p \in 0..(n - 1), NEW a
          PROVE  a \in 0..(SegmentCount(f, b, p) - 1) <=> a \in 0..(cap - 1) /\ a < count[<<b, p>>]
      <3>1. SegmentCount(f, b, p) = Min({counts[f][b][p], cap}) BY SMTT(40) DEF SegmentCount
      <3>2. counts[f][b][p] \in Nat /\ count[<<b, p>>] = counts[f][b][p] BY <1>6
      <3> DEFINE x == counts[f][b][p]
                 y == Min({x, cap})
      <3>3. y \in Nat /\ y <= x /\ y <= cap /\ (y = x \/ y = cap) BY <1>2, <3>2, SmallerIs
      <3> HIDE DEF x, y
      <3>4. a \in 0..(y - 1) <=> a \in 0..(cap - 1) /\ a < x
        <4>1. x \in Nat BY <3>2 DEF x
        <4> QED BY ONLY <1>2, <3>3, <4>1
      <3> QED BY <3>1, <3>2, <3>4 DEF x, y
    <2> QED BY <2>1, <2>2
  <1>8. ASSUME NEW b \in Bucket, NEW r, NEW i \in S, HashAt(f, r) = Hash[k.keys[i]],
               b = BucketOf(UpperHash(k.keys[i]))
        PROVE  Recorded(k, b, r, i)
    <2>1. Hash[k.keys[i]] # Stale
      <3>1. Hash[k.keys[i]] \in 0..(2^(2 * HashBits) - 1) BY <1>3 DEF Sound, HashesOK
      <3> QED BY <3>1 DEF Stale
    <2>2. BlockAt(r) = LocalBlock(UpperHash(k.keys[i])) BY <1>8 DEF BlockAt, This, UpperHash
    <2>3. LowerAt(r) = LowerHash(k.keys[i]) BY <1>8, <2>1 DEF LowerAt, This, LowerHash
    <2> QED BY <1>3, <1>8, <2>2, <2>3 DEF Recorded, BitsOf
  <1>9. \A c \in D, a \in 0..(cap - 1), i \in S : <<c, a, i>> \in PrivatePut(k, file, D) =>
            HashAt(f, <<c[1], c[2], a>>) = Hash[k.keys[i]]
    BY DEF PrivatePut, HashAt
  <1>10. ASSUME NEW b \in Bucket, NEW r \in BucketRecords(f, b)
         PROVE  \E i \in S : Recorded(k, b, r, i)
    <2>1. PICK p \in 0..(n - 1), a \in 0..(cap - 1) : r = <<b, p, a>> /\ a < count[<<b, p>>]
      BY <1>7, SMTT(40)
    <2>2. <<b, p>> \in D BY <1>6
    <2>3. PICK i \in S : cell[i] = <<b, p>> /\ <<<<b, p>>, a, i>> \in PrivatePut(k, file, D)
      BY <1>4, <2>1, <2>2, Zenon DEF Kept
    <2>4. HashAt(f, r) = Hash[k.keys[i]] BY <1>9, <2>1, <2>2, <2>3
    <2>5. b = BucketOf(UpperHash(k.keys[i])) BY <1>4, <2>3
    <2> QED BY <1>8, <2>4, <2>5
  <1>11. ASSUME NEW i \in S, i \notin Sunk(m, k, now)
         PROVE  \E b \in Bucket : \E r \in BucketRecords(f, b) : Recorded(k, b, r, i)
    <2>1. PICK a \in 0..(cap - 1) :
             a < count[cell[i]] /\ <<cell[i], a, i>> \in PrivatePut(k, file, D)
      BY <1>4, <1>11, Zenon DEF Kept
    <2>2. cell[i] \in D BY <1>4, Zenon DEF Kept
    <2> DEFINE b == cell[i][1]
               p == cell[i][2]
               r == <<b, p, a>>
    <2>3. b \in Bucket /\ p \in 0..(n - 1) /\ cell[i] = <<b, p>> BY <2>2 DEF Segments
    <2>4. r \in BucketRecords(f, b)
      <3>1. a < count[<<b, p>>] BY <2>1, <2>3
      <3>2. r = <<b, p, a>> OBVIOUS
      <3> HIDE DEF b, p, r
      <3> QED BY <1>7, <2>3, <3>1, <3>2
    <2>5. HashAt(f, r) = Hash[k.keys[i]] BY <1>9, <2>1, <2>2
    <2>6. b = BucketOf(UpperHash(k.keys[i]))
      <3>1. \A j \in Chosen(k) : cell[j][1] = BucketOf(UpperHash(k.keys[j])) BY <1>4
      <3> QED BY <3>1
    <2>7. Recorded(k, b, r, i) BY <1>8, <2>3, <2>5, <2>6
    <2> QED BY <2>3, <2>4, <2>7
  <1> QED BY <1>10, <1>11

\* A block that was written to before its time is in a bucket that overflows.
LEMMA OverIsOverflow ==
    ASSUME NEW f, NEW n, n = host[f].producers, NEW D, D = Segments(n),
           NEW b \in OverIn(D, Published(D, counts[f]))
    PROVE  BucketOverflow(f, b \div BlocksPerBucket)
  <1>1. PICK c \in D : c[1] = b \div BlocksPerBucket /\ Published(D, counts[f])[c] > SegmentRecords
    BY DEF OverIn
  <1>2. counts[f][c[1]][c[2]] > SegmentRecords BY <1>1 DEF Published
  <1>3. c[2] \in Producers(f) BY DEF Segments, Producers
  <1> QED BY <1>1, <1>2, <1>3 DEF BucketOverflow, SegmentOverflow

\* Where a private apply stands.
LEMMA ApplyStands ==
    ASSUME Sound, NEW m, NEW s, NEW e, Here(m, s, e), queue # <<>>,
           NEW k, k = Head(queue), k.op \in Applies
    PROVE  /\ k.op \in PrivateKernels /\ k.op \in ApplyKinds /\ k.op \notin RouteKinds
           /\ HashesOK /\ Block = 0..3 /\ Bucket = 0..1
           /\ k \in Launched /\ k.f \in Filter /\ s.content \in Content(m)
           /\ (~k.preserve => s.content[k.f] = {})
           /\ \A now \in Content(m) : \A p \in now[k.f] : p[1] \in 0..3
           /\ \A p \in Gain(m, k) : p[1] \in 0..3
  <1>1. k.op \in PrivateKernels /\ k.op \in ApplyKinds /\ k.op \notin RouteKinds
    BY DEF Applies, TiledApplies, CompactApplies, PrivateKernels, ApplyKinds, RouteKinds, Routes
  <1>2. HashesOK /\ PolicyOK BY DEF Sound
  <1>3. layout \in Private BY <1>1, PrivateStands
  <1>4. Block = 0..3
    <2>1. NumBlocks = 4 BY <1>3, SomeBlocks
    <2> QED BY <2>1 DEF Block
  <1>5. k \in Launched /\ k.f \in Filter BY <1>1, PrivateStands
  <1>6. s.content \in Content(m) BY <1>1, PrivateStands
  <1>7. ~k.preserve => s.content[k.f] = {}
    <2>1. Ready(m, k, s) BY Beginning DEF Here
    <2> QED BY <1>1, <2>1 DEF Ready, Batched
  <1>8. \A p \in UNION {m[x] : x \in Key} : p[1] \in 0..3
    <2>1. \A x \in Key : m[x] = BitsOf(x) BY DEF Here, Marks
    <2>2. \A x \in Key : BitsOf(x) \subseteq Bit BY <1>2, Marked
    <2>3. \A p \in Bit : p[1] \in 0..3 BY <1>4 DEF Bit
    <2> QED BY <2>1, <2>2, <2>3
  <1>9. Gain(m, k) \subseteq UNION {m[x] : x \in Key} BY <1>5, GainOfKeys
  <1>10. Bucket = 0..1
    <2>1. 2^BucketBits = 2 BY <1>2, Powers
    <2> QED BY <2>1 DEF Bucket
  <1> QED BY <1>1, <1>2, <1>4, <1>5, <1>6, <1>7, <1>8, <1>9, <1>10 DEF Content

\* The next tile is entered.
LEMMA TileOpens ==
    ASSUME Sound, NEW m, NEW s, NEW e, Here(m, s, e), queue # <<>>,
           NEW k, k = Head(queue), k.op \in Applies, NEW was, was = s.content,
           UNCHANGED <<layout, host, queue, counts, records>>, threads' = <<>>,
           NEW now, now = bits', Around(m, k, was, now), NEW b \in Bucket,
           NEW tile \in 0..(Tiles - 1), NEW l, l = ZeroTile(b, tile), local' = l,
           Sofar(m, k, was[k.f], now[k.f], TileStart(l), TileStart(l))
    PROVE  ApplyGoing(m, k, was)'
  <1>1. /\ l.bucket = b /\ l.tile = tile /\ l.left = TileRecords(k.f, b, tile)
        /\ l.routed = [x \in TileBlocks(tile) |-> 0] /\ l.slot = [x \in TileBlocks(tile) |-> {}]
        /\ l.over = [x \in TileBlocks(tile) |-> {}] /\ l # <<>>
    <2>1. DOMAIN l = TileFields BY DEF ZeroTile, TileFields
    <2>2. DOMAIN <<>> = {} OBVIOUS
    <2>3. l # <<>> BY <2>1, <2>2 DEF TileFields
    <2> QED BY <2>3 DEF ZeroTile, This
  <1>2. HashesOK /\ Bucket = 0..1 BY ApplyStands
  <1>3. /\ TileBlocks(tile) \subseteq 0..1 /\ TileStart(l) \in Nat /\ TileSize \in Nat
        /\ TileEnd(l) \in Nat /\ TileStart(l) <= TileEnd(l)
    <2>1. TileBlocks(tile) \subseteq 0..1 /\ TileStart(l) \in Nat
      BY <1>1, <1>2, TileNumbers, ZenonT(60)
    <2>2. TileSize \in Nat BY DEF TileSize, BlocksPerBucket, Tiles
    <2> QED BY <2>1, <2>2 DEF TileEnd
  <1>4. TileTyped(k, l) BY <1>1 DEF TileTyped
  <1>5. /\ \A p \in now[k.f] : p[1] \in 0..3
    BY ApplyStands DEF Around
  <1>6. Sofar(m, k, was[k.f], now[k.f], TileStart(l), TileEnd(l))
    BY <1>3, <1>5 DEF Sofar
  <1>7. ASSUME NEW x \in TileBlocks(l.tile) PROVE BlockKept(m, k, was[k.f], now[k.f], l, x)
    <2> DEFINE g == GlobalBlock(b, x)
    <2>1. l.routed[x] = 0 /\ Combined(l, x) = {} BY <1>1 DEF Combined
    <2>2. InBlock(g, {}) = {} BY DEF InBlock
    <2>3. Gathered(k, l) = {} BY <1>1 DEF Gathered
    <2>4. TileStart(l) <= g /\ g \div BlocksPerBucket = b
      <3>1. x \in 0..1 /\ b \in 0..1 BY <1>1, <1>2, <1>3
      <3>2. TileStart(l) <= g BY <1>1, <1>2, <3>1, TileNumbers
      <3>3. g \div BlocksPerBucket = b BY <3>1, BlockOfBucket
      <3> QED BY <3>2, <3>3
    <2> HIDE DEF g
    <2>5. ASSUME NEW p \in now[k.f], p[1] = g PROVE p \in was[k.f] \/ BucketOverflow(k.f, b)
      BY <1>3, <1>5, <2>4, <2>5 DEF Sofar
    <2> QED BY <1>1, <2>1, <2>2, <2>3, <2>5 DEF BlockKept, g
  <1>8. ApplyAt(m, k, was, now, l) BY <1>4, <1>6, <1>7 DEF ApplyAt
  <1>9. ApplyGoing(m, k, was)' <=> threads' = <<>> /\ l # <<>> /\ ApplyAt(m, k, was, now, l)
    BY ApplyGoingNext
  <1> QED BY <1>1, <1>8, <1>9

\* BeginApply.
LEMMA ApplyBegins ==
    ASSUME Sound, NEW m, NEW s, NEW e, Here(m, s, e), BeginApply
    PROVE  Arrays' /\ \E d : Course(m, d, e)'
  <1> SUFFICES ASSUME NEW k, k = Head(queue), NEW was, was = s.content, NEW now, now = bits',
                      NEW l, l = ZeroTile(0, 0), NEW n, n = host[k.f].producers
               PROVE  Arrays' /\ Course(m, s, e)'
    OBVIOUS
  <1>1. Arrays /\ StreamInv /\ Course(m, s, e) BY DEF Here
  <1>2. /\ queue # <<>> /\ k.op \in Applies /\ local = <<>> /\ local' = l /\ KeepQueue
        /\ UNCHANGED <<layout, host, queue, threads, bits>>
        /\ UNCHANGED <<counters, slots, counts, records, selected>>
    BY DEF BeginApply, Running, This, KeepQueue, KeepHost, Applies, workspace
  <1>3. PrivateDone(m, k, was) BY <1>1, <1>2 DEF Course, Progress, ApplyGoing, Applies
  <1>4. Between(m, k, was, bits, OverIn(Segments(n), Published(Segments(n), counts[k.f])))
    BY <1>3 DEF PrivateDone
  <1>5. Around(m, k, was, now)
    <2>1. PICK cell : PrivateKept(m, k, cell, n, counts[k.f], records[k.f], bits)
      BY <1>3 DEF PrivateDone
    <2> QED BY <1>2, <1>4, <2>1 DEF Around, Between
  <1>6. HashesOK /\ Bucket = 0..1 /\ k.op \in ApplyKinds BY <1>2, ApplyStands
  <1>7. 0 \in Bucket /\ 0 \in 0..(Tiles - 1)
    <2>1. Tiles \in {1, 2} BY DEF Tiles
    <2> QED BY <1>6, <2>1
  <1>8. TileStart(l) = 0
    <2>1. l.bucket = 0 /\ l.tile = 0 BY DEF ZeroTile
    <2>2. TileSize \in Nat BY DEF TileSize, BlocksPerBucket, Tiles
    <2> QED BY <2>1, <2>2 DEF TileStart, BlocksPerBucket
  <1>9. Sofar(m, k, was[k.f], now[k.f], 0, 0)
    <2>1. /\ \A p \in was[k.f] : p[1] \in 0..3
          /\ \A p \in Gain(m, k) : p[1] \in 0..3
      BY <1>2, ApplyStands
    <2>2. \A p \in was[k.f] \cup Gain(m, k) : ~(p[1] < 0) BY <2>1
    <2>3. ASSUME NEW p \in now[k.f]
          PROVE  p \in was[k.f] \/ BucketOverflow(k.f, p[1] \div BlocksPerBucket)
      <3>1. p \in was[k.f] \/ p[1] \in OverIn(Segments(n), Published(Segments(n), counts[k.f]))
        BY <1>2, <1>4 DEF Between
      <3> QED BY <3>1, OverIsOverflow
    <2> QED BY <2>2, <2>3 DEF Sofar
  <1>10. threads = <<>> BY <1>3 DEF PrivateDone
  <1>11. ApplyGoing(m, k, was)'
    <2>1. Sofar(m, k, was[k.f], now[k.f], TileStart(l), TileStart(l)) BY <1>8, <1>9
    <2> QED BY <1>2, <1>5, <1>7, <1>10, <2>1, TileOpens
  <1>12. Progress(m, was)' BY <1>2, <1>11, StillGoing DEF Applies
  <1>13. ZerosAreTrue(s)' BY <1>1, <1>2, <1>10, ZerosRemain DEF Course
  <1>14. Course(m, s, e)' BY <1>1, <1>2, <1>12, <1>13, GoesOn
  <1>15. Arrays' BY <1>1, <1>2, ArraysStay DEF Arrays
  <1> QED BY <1>14, <1>15

\* SkipApply: nothing was selected.
LEMMA ApplySkipped ==
    ASSUME Sound, NEW m, NEW s, NEW e, Here(m, s, e), SkipApply
    PROVE  Arrays' /\ \E d : Course(m, d, e)'
  <1> SUFFICES ASSUME NEW k, k = Head(queue), NEW was, was = s.content,
                      NEW d, d = Executed(m, k, s), NEW n, n = host[k.f].producers
               PROVE  Arrays' /\ Course(m, d, e)'
    OBVIOUS
  <1>1. Arrays /\ StreamInv /\ Course(m, s, e) BY DEF Here
  <1>2. /\ queue # <<>> /\ k.op \in Applies /\ local = <<>> /\ Finish
        /\ k.op \in {"private apply if", "compact apply if"} /\ ~selected[k.f]
        /\ UNCHANGED <<layout, host, bits, counters, slots, counts, records, selected>>
    BY DEF SkipApply, Skips, Running, This, Finish, KeepHost, Applies, workspace
  <1>3. PrivateDone(m, k, was) BY <1>1, <1>2 DEF Course, Progress, ApplyGoing, Applies
  <1>4. Between(m, k, was, bits, OverIn(Segments(n), Published(Segments(n), counts[k.f])))
        /\ Chosen(k) = {}
    BY <1>2, <1>3 DEF PrivateDone
  <1>5. k \in Launched BY <1>2, ApplyStands
  <1>6. k.op \in ApplyKinds /\ k.op \notin RouteKinds BY <1>2, ApplyStands
  <1>7. s \in State(m) BY <1>1 DEF Course
  <1>8. bits' = d.content
    <2>1. bits = [was EXCEPT ![k.f] = was[k.f] \cup Gain(m, k)]
      <3>1. Chosen(k) \subseteq Sunk(m, k, bits) BY <1>4
      <3> QED BY <1>4, <1>5, <1>7, <3>1, BitsComplete
    <2>2. Contents(m, k, was) = was[k.f] \cup Gain(m, k) BY <1>6 DEF Contents
    <2> QED BY <1>2, <2>1, <2>2 DEF Executed
  <1>9. k.op \notin RouteKinds \cup {"apply", "clear workspace"} BY <1>2, <1>6
  <1>10. Course(m, d, e)' BY <1>1, <1>2, <1>8, <1>9, PlainEnd
  <1>11. Arrays' BY <1>1, <1>2, ArraysStay DEF Arrays
  <1> QED BY <1>10, <1>11

\* A record of the tile: its block is one of the tile's, and its pattern there is the
\* bits of an element.
LEMMA RecordAt ==
    ASSUME Sound, NEW m, NEW s, NEW e, Here(m, s, e), queue # <<>>,
           NEW k, k = Head(queue), k.op \in Applies, NEW was, NEW now, Around(m, k, was, now),
           NEW l, l.bucket \in Bucket, l.tile \in 0..(Tiles - 1),
           NEW r \in TileRecords(k.f, l.bucket, l.tile),
           NEW g, g = GlobalBlock(l.bucket, BlockAt(r)),
           NEW X, X = InBlock(g, BlockPattern(LowerAt(r)))
    PROVE  /\ BlockAt(r) \in TileBlocks(l.tile) /\ TileStart(l) <= g /\ g < TileEnd(l)
           /\ \E i \in Chosen(k) : X = m[k.keys[i]]
           /\ X \subseteq Gain(m, k) /\ \A p \in X : p[1] = g
  <1>1. HashesOK /\ k.op \in PrivateKernels BY ApplyStands
  <1>2. r \in BucketRecords(k.f, l.bucket) /\ BlockAt(r) \in TileBlocks(l.tile)
    BY DEF TileRecords, BlockAt, This
  <1>3. PICK cell : PrivateKept(m, k, cell, host[k.f].producers, counts[k.f], records[k.f], now)
    BY DEF Around
  <1>4. PICK i \in Chosen(k) : Recorded(k, l.bucket, r, i) BY <1>1, <1>2, <1>3, RecordsStand
  <1>5. BlockAt(r) \in 0..1 /\ X = BitsOf(k.keys[i]) BY <1>4 DEF Recorded
  <1>6. m[k.keys[i]] = BitsOf(k.keys[i]) BY <1>1, PrivateStands
  <1>7. BitsOf(k.keys[i]) \subseteq Gain(m, k) BY <1>1, PrivateStands
  <1>8. l.bucket \in 0..1 BY <1>1, TileNumbers
  <1>9. TileStart(l) <= g /\ g < TileEnd(l) BY <1>1, <1>2, <1>5, <1>8, TileNumbers
  <1>10. \A p \in X : p[1] = g BY DEF InBlock
  <1> QED BY <1>2, <1>5, <1>6, <1>7, <1>9, <1>10

\* A record is taken from those that are left.
Takes(l, l2, r) ==
    /\ l2.bucket = l.bucket /\ l2.tile = l.tile /\ l2.left = l.left \ {r}
    /\ l2.routed = Counted(l.routed, BlockAt(r))
    /\ DOMAIN l2.slot = DOMAIN l.slot /\ DOMAIN l2.over = DOMAIN l.over
    /\ \A b : b # BlockAt(r) => Combined(l2, b) = Combined(l, b)

\* Its pattern goes into the local memory, or to the filter.
LEMMA TileGathers ==
    ASSUME Sound, NEW m, NEW s, NEW e, Here(m, s, e), queue # <<>>,
           NEW k, k = Head(queue), k.op \in Applies, NEW was, NEW now, NEW l,
           ApplyAt(m, k, was, now, l), NEW r \in l.left, NEW l2, Takes(l, l2, r),
           NEW g, g = GlobalBlock(l.bucket, BlockAt(r)), NEW P, P = BlockPattern(LowerAt(r)),
           NEW then,
           \/ then = now /\ Combined(l2, BlockAt(r)) = Combined(l, BlockAt(r)) \cup P
           \/ /\ then = Enlarged(now, k.f, InBlock(g, P))
              /\ Combined(l2, BlockAt(r)) = Combined(l, BlockAt(r))
              /\ k.op \in CompactApplies /\ l.routed[BlockAt(r)] >= LocalSlots
    PROVE  ApplyAt(m, k, was, then, l2)
  <1> SUFFICES ASSUME NEW B, B = BlockAt(r), NEW X, X = InBlock(g, P), NEW N, N = now[k.f],
                      NEW N2, N2 = then[k.f]
               PROVE  ApplyAt(m, k, was, then, l2)
    OBVIOUS
  <1>1. Around(m, k, was, now) /\ TileTyped(k, l)
    BY DEF ApplyAt
  <1>2. Sofar(m, k, was[k.f], N, TileStart(l), TileEnd(l)) BY DEF ApplyAt
  <1>3. \A b \in TileBlocks(l.tile) : BlockKept(m, k, was[k.f], N, l, b) BY DEF ApplyAt
  <1>4. /\ l2.bucket = l.bucket /\ l2.tile = l.tile /\ l2.left = l.left \ {r}
        /\ l2.routed = Counted(l.routed, B)
        /\ DOMAIN l2.slot = DOMAIN l.slot /\ DOMAIN l2.over = DOMAIN l.over
        /\ \A b : b # B => Combined(l2, b) = Combined(l, b)
    BY DEF Takes
  <1>5. /\ l.bucket \in Bucket /\ l.tile \in 0..(Tiles - 1)
        /\ r \in TileRecords(k.f, l.bucket, l.tile)
        /\ DOMAIN l.routed = TileBlocks(l.tile)
    BY <1>1 DEF TileTyped
  <1>6. B \in TileBlocks(l.tile) /\ TileStart(l) <= g /\ g < TileEnd(l)
    BY <1>1, <1>5, RecordAt
  <1>7. X \subseteq Gain(m, k) /\ \A p \in X : p[1] = g
    BY <1>1, <1>5, RecordAt
  <1>8. /\ now \in Content(m) /\ k.f \in Filter /\ k \in Launched
        /\ \A p \in N : p[1] \in 0..3
    BY <1>1, ApplyStands DEF Around
  <1>9. /\ then \in Content(m) /\ \A h \in Filter : h # k.f => then[h] = now[h]
        /\ N2 = N \/ (N2 = N \cup X /\ k.op \in CompactApplies /\ l.routed[B] >= LocalSlots)
    <2>1. CASE then = now BY <1>8, <2>1
    <2>2. CASE then = Enlarged(now, k.f, X) /\ k.op \in CompactApplies /\ l.routed[B] >= LocalSlots
      <3>1. Gain(m, k) \subseteq UNION {m[x] : x \in Key} BY <1>8, GainOfKeys
      <3> DEFINE U == UNION {m[x] : x \in Key}
      <3>2. now \in [Filter -> SUBSET U] /\ X \subseteq U BY <1>7, <1>8, <3>1 DEF Content
      <3> HIDE DEF U
      <3>3. /\ then \in [Filter -> SUBSET U] /\ N2 = N \cup X
            /\ \A h \in Filter : h # k.f => then[h] = now[h]
        BY <1>8, <2>2, <3>2 DEF Enlarged
      <3> QED BY <2>2, <3>3 DEF Content, U
    <2> QED BY <2>1, <2>2
  <1>10. N \subseteq N2 /\ N2 \subseteq N \cup X BY <1>9
  <1>11. Around(m, k, was, then)
    <2>1. PICK cell : PrivateKept(m, k, cell, host[k.f].producers, counts[k.f], records[k.f], now)
      BY <1>1 DEF Around
    <2>2. Sunk(m, k, now) \subseteq Sunk(m, k, then) BY <1>10 DEF Sunk
    <2>3. PrivateKept(m, k, cell, host[k.f].producers, counts[k.f], records[k.f], then)
      BY <2>1, <2>2, Zenon DEF PrivateKept, Kept
    <2>4. /\ \A h \in Filter : h # k.f => now[h] = was[h]
          /\ was[k.f] \subseteq N /\ N \subseteq was[k.f] \cup Gain(m, k)
      BY <1>1 DEF Around
    <2> QED BY <1>7, <1>9, <1>10, <2>3, <2>4 DEF Around
  <1>12. TileTyped(k, l2) BY <1>1, <1>4 DEF TileTyped, Counted
  <1>13. TileStart(l2) = TileStart(l) /\ TileEnd(l2) = TileEnd(l)
    BY <1>4 DEF TileStart, TileEnd
  <1>14. TileStart(l) \in Nat /\ TileEnd(l) \in Nat /\ g \in Nat
    <2>1. HashesOK BY DEF Sound
    <2>2. TileStart(l) \in Nat /\ TileEnd(l) \in Nat BY <1>5, <2>1, TileNumbers
    <2>3. l.bucket \in 0..1 /\ TileBlocks(l.tile) \subseteq 0..1 BY <1>5, <2>1, TileNumbers
    <2> QED BY <1>6, <2>2, <2>3 DEF GlobalBlock, BlocksPerBucket
  <1>15. Sofar(m, k, was[k.f], N2, TileStart(l2), TileEnd(l2))
    <2>1. \A p \in N2 : p[1] >= TileEnd(l) => p \in N BY <1>6, <1>7, <1>10, <1>14
    <2> QED BY <1>2, <1>10, <1>13, <2>1 DEF Sofar
  <1>16. Gathered(k, l2) = Gathered(k, l) \cup {r} /\ r \notin Gathered(k, l)
    BY <1>4, <1>5 DEF Gathered
  <1>17. ASSUME NEW b \in TileBlocks(l.tile), b # B PROVE BlockKept(m, k, was[k.f], N2, l2, b)
    <2> DEFINE h == GlobalBlock(l.bucket, b)
    <2>1. h # g
      <3>1. HashesOK BY DEF Sound
      <3>2. TileBlocks(l.tile) \subseteq 0..1 /\ l.bucket \in 0..1 BY <1>5, <3>1, TileNumbers
      <3> QED BY <1>6, <1>17, <3>2 DEF GlobalBlock, BlocksPerBucket
    <2>2. \A p \in N2 : p[1] = h => p \in N BY <1>7, <1>10, <2>1
    <2>3. l2.routed[b] = l.routed[b] BY <1>4, <1>5, <1>17 DEF Counted
    <2>4. Combined(l2, b) = Combined(l, b) BY <1>4, <1>17
    <2>5. (\E x \in Gathered(k, l2) : BlockAt(x) = b) <=> \E x \in Gathered(k, l) : BlockAt(x) = b
      BY <1>16, <1>17
    <2>6. \A x \in Gathered(k, l2) : BlockAt(x) = b => x \in Gathered(k, l) BY <1>16, <1>17
    <2>7. BlockKept(m, k, was[k.f], N, l, b) BY <1>3
    <2>8. /\ l.routed[b] \in Nat /\ InBlock(h, Combined(l, b)) \subseteq Gain(m, k)
          /\ (\E x \in Gathered(k, l) : BlockAt(x) = b) <=> l.routed[b] # 0
      BY <2>7 DEF BlockKept
    <2>9. \A x \in Gathered(k, l) : BlockAt(x) = b =>
              InBlock(h, BlockPattern(LowerAt(x))) \subseteq InBlock(h, Combined(l, b)) \cup N
      BY <2>7 DEF BlockKept
    <2>10. \A p \in N : p[1] = h => \/ p \in was[k.f] \/ BucketOverflow(k.f, l.bucket)
                                    \/ k.op \in CompactApplies /\ l.routed[b] > LocalSlots
      BY <2>7 DEF BlockKept
    <2> HIDE DEF h
    <2>11. \A x \in Gathered(k, l2) : BlockAt(x) = b =>
              InBlock(h, BlockPattern(LowerAt(x))) \subseteq InBlock(h, Combined(l, b)) \cup N2
      BY <1>10, <2>6, <2>9
    <2>12. \A p \in N2 : p[1] = h => \/ p \in was[k.f] \/ BucketOverflow(k.f, l.bucket)
                                     \/ k.op \in CompactApplies /\ l.routed[b] > LocalSlots
      BY <2>2, <2>10
    <2> QED BY <1>4, <2>3, <2>4, <2>5, <2>8, <2>11, <2>12 DEF BlockKept, h
  <1>18. BlockKept(m, k, was[k.f], N2, l2, B)
    <2> DEFINE C == InBlock(g, Combined(l, B))
               C2 == InBlock(g, Combined(l2, B))
    <2>1. BlockKept(m, k, was[k.f], N, l, B) BY <1>3, <1>6
    <2>2. /\ l.routed[B] \in Nat /\ C \subseteq Gain(m, k)
      BY <2>1 DEF BlockKept
    <2>3. \A x \in Gathered(k, l) : BlockAt(x) = B =>
              InBlock(g, BlockPattern(LowerAt(x))) \subseteq C \cup N
      BY <2>1 DEF BlockKept
    <2>4. \A p \in N : p[1] = g => \/ p \in was[k.f] \/ BucketOverflow(k.f, l.bucket)
                                   \/ k.op \in CompactApplies /\ l.routed[B] > LocalSlots
      BY <2>1 DEF BlockKept
    <2>5. C \subseteq C2 /\ C2 \subseteq C \cup X /\ X \subseteq C2 \cup N2
      <3>1. CASE Combined(l2, B) = Combined(l, B) \cup P BY <3>1 DEF InBlock
      <3>2. CASE Combined(l2, B) = Combined(l, B) /\ then = Enlarged(now, k.f, X)
        <4>1. N2 = N \cup X BY <1>8, <3>2 DEF Enlarged, Content
        <4> QED BY <3>2, <4>1
      <3> QED BY <3>1, <3>2
    <2>6. l2.routed[B] = l.routed[B] + 1 BY <1>4, <1>5, <1>6 DEF Counted
    <2>7. r \in Gathered(k, l2) /\ BlockAt(r) = B BY <1>16
    <2>8. X = InBlock(g, BlockPattern(LowerAt(r))) OBVIOUS
    <2> HIDE DEF C, C2
    <2>9. \A x \in Gathered(k, l2) : BlockAt(x) = B =>
              InBlock(g, BlockPattern(LowerAt(x))) \subseteq C2 \cup N2
      <3> SUFFICES ASSUME NEW x \in Gathered(k, l2), BlockAt(x) = B
                   PROVE  InBlock(g, BlockPattern(LowerAt(x))) \subseteq C2 \cup N2
        OBVIOUS
      <3>1. CASE x = r BY <2>5, <2>8, <3>1
      <3>2. CASE x # r
        <4>1. x \in Gathered(k, l) BY <1>16, <3>2
        <4> QED BY <1>10, <2>3, <2>5, <4>1
      <3> QED BY <3>1, <3>2
    <2>10. \A p \in N2 : p[1] = g => \/ p \in was[k.f] \/ BucketOverflow(k.f, l.bucket)
                                     \/ k.op \in CompactApplies /\ l2.routed[B] > LocalSlots
      <3>1. LocalSlots \in Nat BY DEF Sound, WorkersOK
      <3> SUFFICES ASSUME NEW p \in N2, p[1] = g
                   PROVE  \/ p \in was[k.f] \/ BucketOverflow(k.f, l.bucket)
                          \/ k.op \in CompactApplies /\ l2.routed[B] > LocalSlots
        OBVIOUS
      <3>2. CASE p \in N BY <2>2, <2>4, <2>6, <3>1, <3>2
      <3>3. CASE p \notin N BY <1>9, <2>2, <2>6, <3>1, <3>3
      <3> QED BY <3>2, <3>3
    <2>11. l2.routed[B] \in Nat /\ l2.routed[B] # 0 BY <2>2, <2>6
    <2>12. C2 \subseteq Gain(m, k) BY <1>7, <2>2, <2>5
    <2>13. g = GlobalBlock(l2.bucket, B) BY <1>4
    <2> QED BY <1>4, <2>7, <2>9, <2>10, <2>11, <2>12, <2>13 DEF BlockKept, C2
  <1>19. \A b \in TileBlocks(l2.tile) : BlockKept(m, k, was[k.f], N2, l2, b) BY <1>4, <1>17, <1>18
  <1> QED BY <1>11, <1>12, <1>15, <1>19 DEF ApplyAt

\* GatherTiled and GatherCompact.
LEMMA RecordGathered ==
    ASSUME Sound, NEW m, NEW s, NEW e, Here(m, s, e), NEW r \in local.left, Gathering(Applies),
           GatherTiled(r) \/ GatherCompact(r)
    PROVE  Arrays' /\ \E d : Course(m, d, e)'
  <1> SUFFICES ASSUME NEW k, k = Head(queue), NEW was, was = s.content, NEW l, l = local,
                      NEW l2, l2 = local', NEW now, now = bits, NEW then, then = bits',
                      NEW B, B = BlockAt(r), NEW P, P = BlockPattern(LowerAt(r)),
                      NEW g, g = GlobalBlock(l.bucket, B)
               PROVE  Arrays' /\ Course(m, s, e)'
    OBVIOUS
  <1>1. Arrays /\ StreamInv /\ ShapeInv /\ Course(m, s, e) BY DEF Here
  <1>2. /\ queue # <<>> /\ k.op \in Applies /\ l # <<>> /\ KeepQueue
        /\ UNCHANGED <<layout, host, queue, threads, counters, slots, counts, records, selected>>
    BY DEF Gathering, Running, This, GatherTiled, GatherCompact, KeepQueue, KeepHost, workspace
  <1>3. ApplyGoing(m, k, was)
    BY <1>1, <1>2 DEF Course, Progress, PrivateDone, Applies
  <1>4. ApplyAt(m, k, was, now, l) /\ threads = <<>> BY <1>3 DEF ApplyGoing
  <1>5. DOMAIN l = TileFields BY <1>1 DEF ShapeInv
  <1>6. TileTyped(k, l) /\ Around(m, k, was, now) BY <1>4 DEF ApplyAt
  <1>7. r \in l.left /\ l.left \subseteq TileRecords(k.f, l.bucket, l.tile)
        /\ l.bucket \in Bucket /\ l.tile \in 0..(Tiles - 1)
        /\ DOMAIN l.slot = TileBlocks(l.tile) /\ DOMAIN l.over = TileBlocks(l.tile)
        /\ DOMAIN l.routed = TileBlocks(l.tile)
    BY <1>6 DEF TileTyped
  <1>8. B \in TileBlocks(l.tile)
    <2>1. r \in TileRecords(k.f, l.bucket, l.tile) BY <1>7
    <2> QED BY <2>1 DEF TileRecords, BlockAt, This
  <1>9. /\ Ticketed(r) = [l EXCEPT !.left = l.left \ {r}, !.routed = Counted(l.routed, B)]
        /\ InSlot(r) = [Ticketed(r) EXCEPT !.slot = [Ticketed(r).slot EXCEPT ![B] = @ \cup P]]
    <2>1. Ticketed(r) = [l EXCEPT !.left = l.left \ {r}, !.routed = Counted(l.routed, B)]
      BY DEF Ticketed, Counted
    <2>2. InSlot(r) = [Ticketed(r) EXCEPT !.slot = [Ticketed(r).slot EXCEPT ![B] = @ \cup P]]
      BY DEF InSlot
    <2> QED BY <2>1, <2>2
  <1> SUFFICES ASSUME NEW c, c = Ticketed(r) PROVE Arrays' /\ Course(m, s, e)' OBVIOUS
  <1>10. /\ c.left = l.left \ {r} /\ c.routed = Counted(l.routed, B)
         /\ c.bucket = l.bucket /\ c.tile = l.tile /\ c.slot = l.slot /\ c.over = l.over
         /\ DOMAIN c = TileFields
    BY <1>5, <1>9 DEF TileFields
  <1>11. ASSUME NEW x, x = [c EXCEPT !.slot = [c.slot EXCEPT ![B] = @ \cup P]]
         PROVE  Takes(l, x, r) /\ Combined(x, B) = Combined(l, B) \cup P
    <2>1. /\ x.left = c.left /\ x.routed = c.routed /\ x.bucket = c.bucket /\ x.tile = c.tile
          /\ x.over = c.over /\ x.slot = [l.slot EXCEPT ![B] = l.slot[B] \cup P]
      BY <1>10, <1>11 DEF TileFields
    <2>2. DOMAIN x.slot = DOMAIN l.slot /\ x.slot[B] = l.slot[B] \cup P
          /\ \A b : b # B => x.slot[b] = l.slot[b]
      BY <1>7, <1>8, <2>1
    <2> QED BY <1>10, <2>1, <2>2 DEF Takes, Combined
  <1>12. ASSUME NEW x, x = [c EXCEPT !.over = [c.over EXCEPT ![B] = @ \cup P]]
         PROVE  Takes(l, x, r) /\ Combined(x, B) = Combined(l, B) \cup P
    <2>1. /\ x.left = c.left /\ x.routed = c.routed /\ x.bucket = c.bucket /\ x.tile = c.tile
          /\ x.slot = c.slot /\ x.over = [l.over EXCEPT ![B] = l.over[B] \cup P]
      BY <1>10, <1>12 DEF TileFields
    <2>2. DOMAIN x.over = DOMAIN l.over /\ x.over[B] = l.over[B] \cup P
          /\ \A b : b # B => x.over[b] = l.over[b]
      BY <1>7, <1>8, <2>1
    <2> QED BY <1>10, <2>1, <2>2 DEF Takes, Combined
  <1>13. Takes(l, c, r) /\ Combined(c, B) = Combined(l, B)
    BY <1>10 DEF Takes, Combined
  <1>14. l2 # <<>>
    <2>1. DOMAIN l2 = TileFields
      <3>1. \/ l2 = c
            \/ l2 = [c EXCEPT !.slot = [c.slot EXCEPT ![B] = @ \cup P]]
            \/ \E y : l2 = [c EXCEPT !.over = y]
        BY <1>9 DEF GatherTiled, GatherCompact
      <3> QED BY <1>10, <3>1
    <2>2. DOMAIN <<>> = {} OBVIOUS
    <2> QED BY <2>1, <2>2 DEF TileFields
  <1>15. /\ Takes(l, l2, r)
         /\ \/ then = now /\ Combined(l2, B) = Combined(l, B) \cup P
            \/ /\ then = Enlarged(now, k.f, InBlock(g, P)) /\ Combined(l2, B) = Combined(l, B)
               /\ k.op \in CompactApplies /\ l.routed[B] >= LocalSlots
    <2>1. CASE l2 = InSlot(r) /\ then = now
      <3>1. l2 = [c EXCEPT !.slot = [c.slot EXCEPT ![B] = @ \cup P]] BY <1>9, <2>1
      <3> QED BY <1>11, <2>1, <3>1
    <2>2. CASE l2 = [Ticketed(r) EXCEPT !.over[BlockAt(r)] = @ \cup BlockPattern(LowerAt(r))]
               /\ then = now
      <3>1. l2 = [c EXCEPT !.over = [c.over EXCEPT ![B] = @ \cup P]] BY <2>2
      <3> QED BY <1>12, <2>2, <3>1
    <2>3. CASE l2 = Ticketed(r) /\ ~Fits(r) /\ k.op \in CompactApplies
               /\ Write(k.f, GlobalBlock(local.bucket, BlockAt(r)), BlockPattern(LowerAt(r)))
      <3>1. then = Enlarged(now, k.f, InBlock(g, P)) BY <2>3 DEF Write, Enlarged
      <3>2. l.routed[B] >= LocalSlots
        <4>1. BlockKept(m, k, was[k.f], now[k.f], l, B) BY <1>4, <1>8 DEF ApplyAt
        <4>2. l.routed[B] \in Nat /\ LocalSlots \in Nat BY <4>1 DEF BlockKept, Sound, WorkersOK
        <4>3. ~(l.routed[B] < LocalSlots) BY <2>3 DEF Fits
        <4> QED BY <4>2, <4>3
      <3> QED BY <1>13, <2>3, <3>1, <3>2
    <2>4. \/ l2 = InSlot(r) /\ then = now
          \/ /\ l2 = [Ticketed(r) EXCEPT !.over[BlockAt(r)] = @ \cup BlockPattern(LowerAt(r))]
             /\ then = now
          \/ /\ l2 = Ticketed(r) /\ ~Fits(r) /\ k.op \in CompactApplies
             /\ Write(k.f, GlobalBlock(local.bucket, BlockAt(r)), BlockPattern(LowerAt(r)))
      BY DEF GatherTiled, GatherCompact, Gathering, Running, This
    <2> QED BY <2>1, <2>2, <2>3, <2>4
  <1>16. ApplyAt(m, k, was, then, l2)
    <2>1. Sound /\ Here(m, s, e) /\ queue # <<>> /\ k = Head(queue) /\ k.op \in Applies BY <1>2
    <2>2. r \in l.left /\ g = GlobalBlock(l.bucket, BlockAt(r)) /\ P = BlockPattern(LowerAt(r))
      BY <1>7
    <2>3. \/ then = now /\ Combined(l2, BlockAt(r)) = Combined(l, BlockAt(r)) \cup P
          \/ /\ then = Enlarged(now, k.f, InBlock(g, P))
             /\ Combined(l2, BlockAt(r)) = Combined(l, BlockAt(r))
             /\ k.op \in CompactApplies /\ l.routed[BlockAt(r)] >= LocalSlots
      BY <1>15
    <2>4. Takes(l, l2, r) BY <1>15
    <2> QED BY ONLY <1>4, <2>1, <2>2, <2>3, <2>4, TileGathers
  <1>17. ApplyGoing(m, k, was)'
    <2>1. ApplyGoing(m, k, was)' <=> threads' = <<>> /\ l2 # <<>> /\ ApplyAt(m, k, was, then, l2)
      BY <1>2, ApplyGoingNext
    <2> QED BY <1>2, <1>4, <1>14, <1>16, <2>1
  <1>18. Progress(m, was)' BY <1>2, <1>17, StillGoing DEF Applies
  <1>19. ZerosAreTrue(s)' BY <1>1, <1>2, <1>4, ZerosRemain DEF Course
  <1>20. Course(m, s, e)' BY <1>1, <1>2, <1>18, <1>19, GoesOn
  <1>21. Arrays' BY <1>1, <1>2, ArraysStay DEF Arrays
  <1> QED BY <1>20, <1>21

\* A tile as Combine stores it, over[b] saying whether a block is loaded whatever
\* the batch.
Touched(l) == {b \in DOMAIN l.routed : l.routed[b] # 0}
StoredAt(k, now, l, b, o) ==
    InBlock(GlobalBlock(l.bucket, b), Combined(l, b))
        \cup (IF Loads(k.preserve, o) THEN OfBlock(now[k.f], GlobalBlock(l.bucket, b)) ELSE {})
CombinedTile(k, now, l, over) ==
    {p \in now[k.f] : \A b \in Touched(l) : p[1] # GlobalBlock(l.bucket, b)}
        \cup UNION {StoredAt(k, now, l, b, over[b]) : b \in Touched(l)}
\* What it is to be: the batch is in the blocks of the tile.
Completed(A, G, N, from, to) == {p \in A \cup G : p \in N \/ (from <= p[1] /\ p[1] < to)}

\* What is missing in a tile has a record there.
LEMMA MissingIsRecorded ==
    ASSUME Sound, NEW m, NEW s, NEW e, Here(m, s, e), queue # <<>>,
           NEW k, k = Head(queue), k.op \in Applies, NEW was, NEW now, Around(m, k, was, now),
           NEW l, l.bucket \in Bucket, l.tile \in 0..(Tiles - 1),
           NEW p \in Gain(m, k), p \notin now[k.f], TileStart(l) <= p[1], p[1] < TileEnd(l)
    PROVE  \E r \in TileRecords(k.f, l.bucket, l.tile) :
             /\ p[1] = GlobalBlock(l.bucket, BlockAt(r))
             /\ p \in InBlock(p[1], BlockPattern(LowerAt(r)))
  <1>1. HashesOK /\ k.op \in PrivateKernels /\ Bucket = 0..1 BY ApplyStands
  <1>2. PICK cell : PrivateKept(m, k, cell, host[k.f].producers, counts[k.f], records[k.f], now)
    BY DEF Around
  <1>3. PICK i \in Chosen(k) : p \in m[k.keys[i]] BY DEF Gain
  <1>4. i \notin Sunk(m, k, now) BY <1>3 DEF Sunk
  <1>5. PICK c \in Bucket : \E r \in BucketRecords(k.f, c) : Recorded(k, c, r, i)
    BY <1>1, <1>2, <1>4, RecordsStand
  <1>6. PICK r \in BucketRecords(k.f, c) : Recorded(k, c, r, i) BY <1>5
  <1>7. m[k.keys[i]] = BitsOf(k.keys[i]) BY <1>1, PrivateStands
  <1>8. \A q \in BitsOf(k.keys[i]) : q[1] = BlockIndex(UpperHash(k.keys[i]))
    BY <1>1, PrivateStands
  <1>9. /\ BlockAt(r) \in 0..1 /\ p[1] = GlobalBlock(c, BlockAt(r))
        /\ p \in InBlock(p[1], BlockPattern(LowerAt(r)))
    BY <1>3, <1>6, <1>7, <1>8 DEF Recorded
  <1>10. c \in 0..1 BY <1>1
  <1>11. c = l.bucket /\ BlockAt(r) \in TileBlocks(l.tile)
    <2>1. TileStart(l) <= GlobalBlock(c, BlockAt(r)) /\ GlobalBlock(c, BlockAt(r)) < TileEnd(l)
      BY <1>9
    <2> QED BY <1>1, <1>9, <1>10, <2>1, TileNumbers
  <1>12. r \in TileRecords(k.f, l.bucket, l.tile) BY <1>11 DEF TileRecords, BlockAt, This
  <1> QED BY <1>9, <1>11, <1>12

\* With that every record of the tile is in the filter.
LEMMA TileIsComplete ==
    ASSUME Sound, NEW m, NEW s, NEW e, Here(m, s, e), queue # <<>>,
           NEW k, k = Head(queue), k.op \in Applies, NEW was, was = s.content, NEW now, NEW l,
           ApplyAt(m, k, was, now, l), l.left = {}, NEW over,
           \A b \in TileBlocks(l.tile) :
               over[b] <=> \/ BucketOverflow(k.f, l.bucket)
                           \/ k.op \in CompactApplies /\ l.routed[b] > LocalSlots
    PROVE  CombinedTile(k, now, l, over) =
             Completed(was[k.f], Gain(m, k), now[k.f], TileStart(l), TileEnd(l))
  <1> SUFFICES ASSUME NEW A, A = was[k.f], NEW G, G = Gain(m, k), NEW N, N = now[k.f],
                      NEW from, from = TileStart(l), NEW to, to = TileEnd(l),
                      NEW T, T = Touched(l), NEW D, D = TileBlocks(l.tile), NEW c, c = l.bucket
               PROVE  CombinedTile(k, now, l, over) = Completed(A, G, N, from, to)
    OBVIOUS
  <1>1. Around(m, k, was, now) /\ TileTyped(k, l) BY DEF ApplyAt
  <1>2. A \subseteq N /\ N \subseteq A \cup G BY <1>1 DEF Around
  <1>3. /\ c \in Bucket /\ l.tile \in 0..(Tiles - 1) /\ DOMAIN l.routed = D
    BY <1>1 DEF TileTyped
  <1>4. HashesOK /\ (~k.preserve => A = {})
        /\ (\A p \in N : p[1] \in 0..3) /\ (\A p \in G : p[1] \in 0..3)
    BY <1>1, ApplyStands DEF Around
  <1>5. /\ D \subseteq 0..1 /\ c \in 0..1 /\ from \in Nat /\ to \in Nat
        /\ \A g \in 0..3 : from <= g /\ g < to => \E b \in D : g = GlobalBlock(c, b)
        /\ \A b \in D : from <= GlobalBlock(c, b) /\ GlobalBlock(c, b) < to
    <2>1. D \subseteq 0..1 /\ c \in 0..1 /\ from \in Nat /\ to \in Nat BY <1>3, <1>4, TileNumbers
    <2>2. \A g \in 0..3 : from <= g /\ g < to => \E b \in D : g = GlobalBlock(c, b)
      BY <1>3, <1>4, TileNumbers
    <2>3. \A b \in 0..1 : \A a \in 0..1 :
            from <= GlobalBlock(a, b) /\ GlobalBlock(a, b) < to <=> a = c /\ b \in D
      BY <1>3, <1>4, TileNumbers
    <2>4. \A b \in D : from <= GlobalBlock(c, b) /\ GlobalBlock(c, b) < to BY <2>1, <2>3
    <2> QED BY <2>1, <2>2, <2>4
  <1>6. \A a, b \in D : GlobalBlock(c, a) = GlobalBlock(c, b) => a = b
    BY <1>5 DEF GlobalBlock, BlocksPerBucket
  <1>7. T = {b \in D : l.routed[b] # 0} BY <1>3 DEF Touched
  <1>8. \A b \in D :
            /\ InBlock(GlobalBlock(c, b), Combined(l, b)) \subseteq G
            /\ (\E r \in Gathered(k, l) : BlockAt(r) = b) <=> l.routed[b] # 0
            /\ \A r \in Gathered(k, l) : BlockAt(r) = b =>
                 InBlock(GlobalBlock(c, b), BlockPattern(LowerAt(r)))
                     \subseteq InBlock(GlobalBlock(c, b), Combined(l, b)) \cup N
            /\ \A p \in N : p[1] = GlobalBlock(c, b) => p \in A \/ over[b]
    BY DEF ApplyAt, BlockKept
  <1>9. Gathered(k, l) = TileRecords(k.f, c, l.tile) BY DEF Gathered
  <1>10. \A r \in Gathered(k, l) : BlockAt(r) \in D BY <1>9 DEF TileRecords, BlockAt, This
  <1>11. ASSUME NEW p \in G, p \notin N, from <= p[1], p[1] < to
         PROVE  \E r \in Gathered(k, l) : /\ p[1] = GlobalBlock(c, BlockAt(r))
                                          /\ p \in InBlock(p[1], BlockPattern(LowerAt(r)))
    BY <1>1, <1>3, <1>9, <1>11, MissingIsRecorded
  <1>12. ASSUME NEW p \in Completed(A, G, N, from, to) PROVE p \in CombinedTile(k, now, l, over)
    <2>1. p \in A \cup G /\ (p \in N \/ (from <= p[1] /\ p[1] < to)) BY <1>12 DEF Completed
    <2>2. p[1] \in 0..3 BY <1>2, <1>4, <2>1
    <2>3. CASE ~(from <= p[1] /\ p[1] < to)
      <3>1. \A b \in T : p[1] # GlobalBlock(c, b) BY <1>5, <1>7, <2>3
      <3> QED BY <2>1, <2>3, <3>1 DEF CombinedTile
    <2>4. CASE from <= p[1] /\ p[1] < to
      <3>1. PICK b \in D : p[1] = GlobalBlock(c, b) BY <1>5, <2>2, <2>4
      <3>2. CASE p \in N /\ b \notin T
        <4>1. \A a \in T : p[1] # GlobalBlock(c, a) BY <1>6, <1>7, <3>1, <3>2
        <4> QED BY <3>2, <4>1 DEF CombinedTile
      <3>3. CASE p \in N /\ b \in T
        <4>1. Loads(k.preserve, over[b]) BY <1>4, <1>8, <3>1, <3>3 DEF Loads
        <4>2. p \in OfBlock(N, GlobalBlock(c, b)) BY <3>1, <3>3 DEF OfBlock
        <4>3. p \in StoredAt(k, now, l, b, over[b]) BY <4>1, <4>2 DEF StoredAt
        <4> QED BY <3>3, <4>3 DEF CombinedTile
      <3>4. CASE p \notin N
        <4>1. p \in G BY <1>2, <2>1, <3>4
        <4>2. PICK r \in Gathered(k, l) : /\ p[1] = GlobalBlock(c, BlockAt(r))
                                          /\ p \in InBlock(p[1], BlockPattern(LowerAt(r)))
          BY <1>11, <2>4, <3>4, <4>1
        <4>3. BlockAt(r) = b BY <1>6, <1>10, <3>1, <4>2
        <4>4. b \in T BY <1>7, <1>8, <4>3
        <4>5. p \in InBlock(GlobalBlock(c, b), Combined(l, b)) BY <1>8, <3>1, <3>4, <4>2, <4>3
        <4>6. p \in StoredAt(k, now, l, b, over[b]) BY <4>5 DEF StoredAt
        <4> QED BY <4>4, <4>6 DEF CombinedTile
      <3> QED BY <3>2, <3>3, <3>4
    <2> QED BY <2>3, <2>4
  <1>13. ASSUME NEW p \in CombinedTile(k, now, l, over) PROVE p \in Completed(A, G, N, from, to)
    <2>1. CASE p \in N BY <1>2, <2>1 DEF Completed
    <2>2. CASE p \notin N
      <3>1. PICK b \in T : p \in StoredAt(k, now, l, b, over[b]) BY <1>13, <2>2 DEF CombinedTile
      <3>2. p \in InBlock(GlobalBlock(c, b), Combined(l, b))
        BY <2>2, <3>1 DEF StoredAt, OfBlock
      <3>3. b \in D BY <1>7
      <3>4. p[1] = GlobalBlock(c, b) BY <3>2 DEF InBlock
      <3>5. p \in G /\ from <= p[1] /\ p[1] < to BY <1>5, <1>8, <3>2, <3>3, <3>4
      <3> QED BY <3>5 DEF Completed
    <2> QED BY <2>1, <2>2
  <1> QED BY <1>12, <1>13

\* The next tile begins where this one ends, and after the last there is none.
LEMMA TilesInTurn ==
    ASSUME HashesOK, NEW l, l = local, l.bucket \in Bucket, l.tile \in 0..(Tiles - 1),
           NEW b, b = NextTile[1], NEW tile, tile = NextTile[2], NEW x, x = ZeroTile(b, tile)
    PROVE  /\ b \in Bucket => tile \in 0..(Tiles - 1) /\ TileStart(x) = TileEnd(l)
           /\ b \notin Bucket => TileEnd(l) = 4
  <1>1. Bucket = 0..1 /\ Tiles \in {1, 2} /\ TileSize * Tiles = 2 BY TileNumbers
  <1>2. TileSize = IF Tiles = 1 THEN 2 ELSE 1 BY <1>1 DEF TileSize, BlocksPerBucket
  <1>3. x.bucket = b /\ x.tile = tile BY DEF ZeroTile
  <1>4. IF l.tile + 1 < Tiles THEN b = l.bucket /\ tile = l.tile + 1
        ELSE b = l.bucket + 1 /\ tile = 0
    BY DEF NextTile
  <1>5. TileStart(x) = b * 2 + tile * TileSize BY <1>3 DEF TileStart, BlocksPerBucket
  <1>6. TileEnd(l) = l.bucket * 2 + l.tile * TileSize + TileSize
    BY DEF TileEnd, TileStart, BlocksPerBucket
  <1> SUFFICES ASSUME NEW c, c = l.bucket, NEW t, t = l.tile, NEW n, n = Tiles, NEW z, z = TileSize
               PROVE  /\ b \in 0..1 => tile \in 0..(n - 1) /\ b * 2 + tile * z = c * 2 + t * z + z
                      /\ b \notin 0..1 => c * 2 + t * z + z = 4
    BY <1>1, <1>5, <1>6
  <1>7. /\ c \in 0..1 /\ t \in 0..(n - 1) /\ n \in {1, 2} /\ z = (IF n = 1 THEN 2 ELSE 1)
        /\ IF t + 1 < n THEN b = c /\ tile = t + 1 ELSE b = c + 1 /\ tile = 0
    BY <1>1, <1>2, <1>4
  <1>8. CASE n = 1
    <2>1. t = 0 /\ z = 2 /\ b = c + 1 /\ tile = 0 BY ONLY <1>7, <1>8
    <2> QED BY ONLY <1>7, <1>8, <2>1
  <1>9. CASE n = 2
    <2>1. t \in 0..1 /\ z = 1 BY ONLY <1>7, <1>9, SMTT(40)
    <2> QED BY ONLY <1>7, <1>9, <2>1
  <1> QED BY ONLY <1>7, <1>8, <1>9

\* Other contents of a filter.
Replaced(now, f, X) == [now EXCEPT ![f] = X]

\* A tile is stored, and its blocks are as they are to be.
LEMMA TileIsStored ==
    ASSUME Sound, NEW m, NEW s, NEW e, Here(m, s, e), queue # <<>>,
           NEW k, k = Head(queue), k.op \in Applies, NEW was, was = s.content, NEW now, NEW l,
           ApplyAt(m, k, was, now, l), NEW from, from = TileStart(l), NEW to, to = TileEnd(l),
           NEW then, NEW N2, N2 = Completed(was[k.f], Gain(m, k), now[k.f], from, to),
           then = Replaced(now, k.f, N2)
    PROVE  /\ Around(m, k, was, then) /\ then[k.f] = N2
           /\ Sofar(m, k, was[k.f], N2, to, to)
  <1> SUFFICES ASSUME NEW A, A = was[k.f], NEW G, G = Gain(m, k), NEW N, N = now[k.f]
               PROVE  /\ Around(m, k, was, then) /\ then[k.f] = N2 /\ Sofar(m, k, A, N2, to, to)
    OBVIOUS
  <1>1. Around(m, k, was, now) /\ TileTyped(k, l) /\ Sofar(m, k, A, N, from, to) BY DEF ApplyAt
  <1>2. /\ now \in Content(m) /\ \A g \in Filter : g # k.f => now[g] = was[g]
        /\ A \subseteq N /\ N \subseteq A \cup G
    BY <1>1 DEF Around
  <1>3. /\ k.f \in Filter /\ k \in Launched /\ HashesOK
        /\ (\A p \in N : p[1] \in 0..3) /\ (\A p \in G : p[1] \in 0..3)
    BY <1>2, ApplyStands
  <1>4. from \in Nat /\ to \in Nat
    <2>1. l.bucket \in Bucket /\ l.tile \in 0..(Tiles - 1) BY <1>1 DEF TileTyped
    <2> QED BY <1>3, <2>1, TileNumbers
  <1>5. N \subseteq N2 /\ A \subseteq N2 /\ N2 \subseteq A \cup G BY <1>2 DEF Completed
  <1>6. then \in Content(m) /\ then[k.f] = N2 /\ \A g \in Filter : g # k.f => then[g] = now[g]
    <2> DEFINE U == UNION {m[x] : x \in Key}
    <2>1. now \in [Filter -> SUBSET U] BY <1>2 DEF Content
    <2>2. G \subseteq U BY <1>3, GainOfKeys
    <2>3. N \subseteq U BY <1>3, <2>1
    <2> HIDE DEF U
    <2>4. N2 \subseteq U BY <1>2, <1>5, <2>2, <2>3
    <2>5. /\ then \in [Filter -> SUBSET U] /\ then[k.f] = N2
          /\ \A g \in Filter : g # k.f => then[g] = now[g]
      BY <1>3, <2>1, <2>4 DEF Replaced
    <2> QED BY <2>5, Zenon DEF Content, U
  <1>7. Around(m, k, was, then)
    <2>1. PICK cell : PrivateKept(m, k, cell, host[k.f].producers, counts[k.f], records[k.f], now)
      BY <1>1 DEF Around
    <2>2. Sunk(m, k, now) \subseteq Sunk(m, k, then) BY <1>5, <1>6, Zenon DEF Sunk
    <2>3. PrivateKept(m, k, cell, host[k.f].producers, counts[k.f], records[k.f], then)
      BY <2>1, <2>2, Zenon DEF PrivateKept, Kept
    <2> QED BY <1>2, <1>5, <1>6, <2>3, Zenon DEF Around
  <1>8. /\ \A p \in A \cup G : p[1] < from => p \in N
        /\ \A p \in N : p[1] >= to => p \in A \/ BucketOverflow(k.f, p[1] \div BlocksPerBucket)
    BY <1>1 DEF Sofar
  <1>9. ASSUME NEW p \in A \cup G, p[1] < to PROVE p \in N2
    <2>1. p[1] \in 0..3 BY <1>2, <1>3
    <2>2. CASE p[1] < from BY <1>5, <1>8, <2>2
    <2>3. CASE ~(p[1] < from) BY <1>4, <1>9, <2>1, <2>3 DEF Completed
    <2> QED BY <2>2, <2>3
  <1>10. ASSUME NEW p \in N2, p[1] >= to
         PROVE  p \in A \/ BucketOverflow(k.f, p[1] \div BlocksPerBucket)
    <2>1. p[1] \in 0..3 BY <1>2, <1>3, <1>5
    <2>2. p \in N BY <1>4, <1>10, <2>1 DEF Completed
    <2> QED BY <1>8, <1>10, <2>2
  <1>11. Sofar(m, k, A, N2, to, to) BY <1>9, <1>10 DEF Sofar
  <1> QED BY <1>6, <1>7, <1>11

\* CombineTiled and CombineCompact.
LEMMA TileCombined ==
    ASSUME Sound, NEW m, NEW s, NEW e, Here(m, s, e), CombineTiled \/ CombineCompact
    PROVE  Arrays' /\ \E d : Course(m, d, e)'
  <1> SUFFICES ASSUME NEW k, k = Head(queue), NEW was, was = s.content, NEW l, l = local,
                      NEW now, now = bits, NEW then, then = bits', NEW d, d = Executed(m, k, s),
                      NEW from, from = TileStart(l), NEW to, to = TileEnd(l),
                      NEW N2, N2 = Completed(was[k.f], Gain(m, k), now[k.f], from, to),
                      NEW b, b = NextTile[1], NEW tile, tile = NextTile[2],
                      NEW x, x = ZeroTile(b, tile)
               PROVE  Arrays' /\ \E c : Course(m, c, e)'
    OBVIOUS
  <1>1. Arrays /\ StreamInv /\ ShapeInv /\ Course(m, s, e) BY DEF Here
  <1>2. /\ queue # <<>> /\ k.op \in Applies /\ l # <<>> /\ l.left = {} /\ Onwards
        /\ UNCHANGED <<counters, slots, counts, selected>>
    BY DEF Gathering, Running, This, CombineTiled, CombineCompact, Onwards, Applies
  <1>3. ApplyGoing(m, k, was)
    BY <1>1, <1>2 DEF Course, Progress, PrivateDone, Applies
  <1>4. ApplyAt(m, k, was, now, l) /\ threads = <<>> BY <1>3 DEF ApplyGoing
  <1>5. TileTyped(k, l) BY <1>4 DEF ApplyAt
  <1>6. /\ l.bucket \in Bucket /\ l.tile \in 0..(Tiles - 1)
        /\ DOMAIN l.routed = TileBlocks(l.tile)
    BY <1>5 DEF TileTyped
  <1>7. /\ HashesOK /\ k \in Launched /\ k.f \in Filter
        /\ k.op \in ApplyKinds /\ k.op \notin RouteKinds
    BY <1>2, ApplyStands
  <1>8. then = Replaced(now, k.f, N2)
    <2>1. PICK over : /\ then = [now EXCEPT ![k.f] = CombinedTile(k, now, l, over)]
                      /\ \A y \in TileBlocks(l.tile) :
                            over[y] <=> \/ BucketOverflow(k.f, l.bucket)
                                        \/ k.op \in CompactApplies /\ l.routed[y] > LocalSlots
      <3>1. CASE CombineTiled
        <4> DEFINE o == [y \in DOMAIN local.routed |-> BucketOverflow(k.f, l.bucket)]
        <4>1. StoreTile(o) /\ k.op \notin CompactApplies
          BY <3>1 DEF CombineTiled, Gathering, Running, This, TiledApplies, CompactApplies
        <4>2. \A y \in TileBlocks(l.tile) : o[y] <=> BucketOverflow(k.f, l.bucket) BY <1>6
        <4> HIDE DEF o
        <4>3. then = [now EXCEPT ![k.f] = CombinedTile(k, now, l, o)]
          BY <4>1 DEF StoreTile, Store, Stored, CombinedTile, StoredAt, Touched, Combined, This
        <4> QED BY <4>1, <4>2, <4>3
      <3>2. CASE CombineCompact
        <4> DEFINE o == [y \in DOMAIN local.routed |->
                           BucketOverflow(k.f, l.bucket) \/ local.routed[y] > LocalSlots]
        <4>1. StoreTile(o) /\ k.op \in CompactApplies
          BY <3>2 DEF CombineCompact, Gathering, Running, This
        <4>2. \A y \in TileBlocks(l.tile) :
                 o[y] <=> BucketOverflow(k.f, l.bucket) \/ l.routed[y] > LocalSlots
          BY <1>6
        <4> HIDE DEF o
        <4>3. then = [now EXCEPT ![k.f] = CombinedTile(k, now, l, o)]
          BY <4>1 DEF StoreTile, Store, Stored, CombinedTile, StoredAt, Touched, Combined, This
        <4> QED BY <4>1, <4>2, <4>3
      <3> QED BY <3>1, <3>2
    <2>2. CombinedTile(k, now, l, over) = N2 BY <1>2, <1>4, <2>1, TileIsComplete
    <2> QED BY <2>1, <2>2 DEF Replaced
  <1>16. /\ Sound /\ Here(m, s, e) /\ queue # <<>> /\ k = Head(queue) /\ k.op \in Applies
         /\ was = s.content /\ from = TileStart(l) /\ to = TileEnd(l)
         /\ N2 = Completed(was[k.f], Gain(m, k), now[k.f], from, to)
    BY <1>2
  <1>9. Around(m, k, was, then) BY ONLY <1>4, <1>8, <1>16, TileIsStored
  <1>10. then[k.f] = N2 BY ONLY <1>4, <1>8, <1>16, TileIsStored
  <1>11. Sofar(m, k, was[k.f], N2, to, to) BY ONLY <1>4, <1>8, <1>16, TileIsStored
  <1>12. to = 4 => N2 = was[k.f] \cup Gain(m, k)
    <2>1. /\ \A p \in was[k.f] : p[1] \in 0..3
          /\ \A p \in Gain(m, k) : p[1] \in 0..3
      BY <1>2, ApplyStands
    <2>2. to = 4 => \A p \in was[k.f] \cup Gain(m, k) : p \in N2 BY <1>11, <2>1 DEF Sofar
    <2> QED BY <2>2 DEF Completed
  <1>13. /\ b \in Bucket => tile \in 0..(Tiles - 1) /\ TileStart(x) = to
         /\ b \notin Bucket => to = 4
    BY <1>6, <1>7, TilesInTurn
  <1>14. CASE b \in Bucket
    <2>1. /\ local' = x /\ KeepQueue
          /\ UNCHANGED <<layout, host, queue, threads, counters, slots, counts, records, selected>>
      BY <1>2, <1>14 DEF Onwards, KeepQueue, KeepHost
    <2>2. Sofar(m, k, was[k.f], then[k.f], TileStart(x), TileStart(x)) BY <1>10, <1>11, <1>13, <1>14
    <2>3. threads' = <<>> BY <1>4, <2>1
    <2>4. UNCHANGED <<layout, host, queue, counts, records>> BY <2>1
    <2>5. ApplyGoing(m, k, was)'
      BY <1>2, <1>9, <1>13, <1>14, <2>1, <2>2, <2>3, <2>4, TileOpens
    <2>6. Progress(m, was)' BY <1>2, <2>1, <2>5, StillGoing DEF Applies
    <2>7. ZerosAreTrue(s)' BY <1>1, <1>4, <2>1, ZerosRemain DEF Course
    <2>8. Course(m, s, e)' BY <1>1, <2>1, <2>6, <2>7, GoesOn
    <2>9. Arrays' BY <1>1, <2>1, ArraysStay DEF Arrays
    <2> QED BY <2>8, <2>9
  <1>15. CASE b \notin Bucket
    <2>1. /\ Finish /\ records' = [records EXCEPT ![k.f] = <<>>] /\ UNCHANGED <<layout, host>>
      BY <1>2, <1>15 DEF Onwards, This, Finish, KeepHost
    <2>2. then = [now EXCEPT ![k.f] = was[k.f] \cup Gain(m, k)]
      BY <1>8, <1>12, <1>13, <1>15 DEF Replaced
    <2>3. bits' = d.content
      <3>1. Contents(m, k, was) = was[k.f] \cup Gain(m, k) BY <1>7 DEF Contents
      <3>2. d.content = [was EXCEPT ![k.f] = was[k.f] \cup Gain(m, k)] BY <3>1 DEF Executed
      <3>3. Around(m, k, was, now) BY <1>4 DEF ApplyAt
      <3>4. now \in Content(m) /\ \A g \in Filter : g # k.f => now[g] = was[g]
        BY <3>3 DEF Around
      <3>5. was \in Content(m) BY <1>2, ApplyStands
      <3> DEFINE U == UNION {m[y] : y \in Key}
      <3>6. was \in [Filter -> SUBSET U] /\ now \in [Filter -> SUBSET U]
        BY <3>4, <3>5 DEF Content
      <3> HIDE DEF U
      <3>7. ASSUME NEW X PROVE [now EXCEPT ![k.f] = X] = [was EXCEPT ![k.f] = X]
        BY ONLY <1>7, <3>4, <3>6
      <3> QED BY <2>2, <3>2, <3>7
    <2>4. k.op \notin RouteKinds \cup {"apply", "clear workspace"}
      BY <1>2, <1>7 DEF Applies, TiledApplies, CompactApplies
    <2>5. Course(m, d, e)' BY <1>1, <1>2, <2>1, <2>3, <2>4, PlainEnd
    <2>6. Arrays' BY <1>1, <1>2, <2>1, ArraysStay DEF Arrays
    <2> QED BY <2>5, <2>6
  <1> QED BY <1>14, <1>15

--------------------------------------------------------------------------------
(* Calls of the host, and what they add to the course of things. *)

\* A kernel that runs is where it was, when the host has only launched others.
LEMMA RoutesStay ==
    ASSUME NoDevice, NEW m, NEW was, NEW k,
           host'[k.f].slots = host[k.f].slots, host'[k.f].producers = host[k.f].producers
    PROVE  /\ RouteGoing(m, k, was)' <=> RouteGoing(m, k, was)
           /\ RouteDone(m, k, was)' <=> RouteDone(m, k, was)
           /\ PrivateGoing(m, k, was)' <=> PrivateGoing(m, k, was)
           /\ PrivateDone(m, k, was)' <=> PrivateDone(m, k, was)
  <1>1. /\ layout' = layout /\ threads' = threads /\ local' = local /\ bits' = bits
        /\ counters' = counters /\ slots' = slots /\ counts' = counts /\ records' = records
        /\ selected' = selected
    BY DEF NoDevice, running, workspace
  <1>2. Block' = Block /\ BlockOf(k)' = BlockOf(k) BY <1>1, Rigid DEF BlockOf
  <1>3. FullBlocks(k)' = FullBlocks(k) BY <1>1, <1>2 DEF FullBlocks
  <1>5. RouteGoing(m, k, was)' <=> RouteGoing(m, k, was)
    BY <1>1, <1>2, <1>3
       DEF RouteGoing, Between, Deals, Books, Todo, Held, Tickets, Sunk, RoutedPut
  <1>6. RouteDone(m, k, was)' <=> RouteDone(m, k, was)
    BY <1>1, <1>2, <1>3 DEF RouteDone, Between, Kept, Sunk, RoutedPut
  <1>8. PrivateGoing(m, k, was)' <=> PrivateGoing(m, k, was)
    BY <1>1, <1>2 DEF PrivateGoing, Between, OverIn, LocalCounts, Deals, Books, Todo, Held,
                      Tickets, PrivatePut, Sunk
  <1>9. PrivateDone(m, k, was)' <=> PrivateDone(m, k, was)
    BY <1>1, <1>2 DEF PrivateDone, PrivateKept, Between, OverIn, Published, Kept, PrivatePut, Sunk
  <1> QED BY <1>5, <1>6, <1>8, <1>9

\* The same of an apply.
LEMMA AppliesStay ==
    ASSUME NoDevice, NEW m, NEW was, NEW k, k = Head(queue), Head(queue') = k,
           host'[k.f].producers = host[k.f].producers
    PROVE  ApplyGoing(m, k, was)' <=> ApplyGoing(m, k, was)
  <1>1. /\ layout' = layout /\ threads' = threads /\ local' = local /\ bits' = bits
        /\ counts' = counts /\ records' = records
    BY DEF NoDevice, running, workspace
  <1>2. Tiles' = Tiles BY <1>1 DEF Tiles, This
  <1>3. TileSize' = TileSize /\ \A tile : TileBlocks(tile)' = TileBlocks(tile)
    BY <1>2 DEF TileSize, TileBlocks
  <1>4. \A f, r : HashAt(f, r)' = HashAt(f, r) BY <1>1 DEF HashAt
  <1>5. \A r : BlockAt(r)' = BlockAt(r) /\ LowerAt(r)' = LowerAt(r)
    BY <1>4 DEF BlockAt, LowerAt, This
  <1>6. Producers(k.f)' = Producers(k.f) BY DEF Producers
  <1>7. \A b : BucketOverflow(k.f, b)' = BucketOverflow(k.f, b)
    BY <1>1, <1>6 DEF BucketOverflow, SegmentOverflow
  <1>8. \A b : BucketRecords(k.f, b)' = BucketRecords(k.f, b)
    <2>1. \A b, p : SegmentCount(k.f, b, p)' = SegmentCount(k.f, b, p) BY <1>1 DEF SegmentCount
    <2> QED BY <1>6, <2>1 DEF BucketRecords
  <1>9. \A b, tile : TileRecords(k.f, b, tile)' = TileRecords(k.f, b, tile)
    BY <1>3, <1>4, <1>8 DEF TileRecords
  <1>10. Around(m, k, was, bits)' <=> Around(m, k, was, bits)
    BY <1>1 DEF Around, PrivateKept, Kept, Published, PrivatePut, Sunk
  <1>11. TileTyped(k, local)' <=> TileTyped(k, local) BY <1>1, <1>2, <1>3, <1>9 DEF TileTyped
  <1>12. TileStart(local)' = TileStart(local) /\ TileEnd(local)' = TileEnd(local)
    BY <1>1, <1>3 DEF TileStart, TileEnd
  <1>13. Sofar(m, k, was[k.f], bits[k.f], TileStart(local), TileEnd(local))' <=>
         Sofar(m, k, was[k.f], bits[k.f], TileStart(local), TileEnd(local))
    BY <1>1, <1>7, <1>12 DEF Sofar
  <1>14. Gathered(k, local)' = Gathered(k, local) BY <1>1, <1>9 DEF Gathered
  <1>15. \A b : BlockKept(m, k, was[k.f], bits[k.f], local, b)' <=>
                BlockKept(m, k, was[k.f], bits[k.f], local, b)
    BY <1>1, <1>5, <1>7, <1>14 DEF BlockKept, Combined
  <1>16. TileBlocks(local.tile)' = TileBlocks(local.tile) BY <1>1, <1>3
  <1> QED BY <1>1, <1>10, <1>11, <1>13, <1>15, <1>16 DEF ApplyGoing, ApplyAt

\* A call that changes nothing on the device, and launches the kernels ks.
LEMMA CallLeads ==
    ASSUME NEW m, NEW s, NEW e, Here(m, s, e), NoDevice, NEW f \in Filter, NEW a, Tidy(a),
           host' = [host EXCEPT ![f] = a],
           host[f].workspace # "none" => a.slots = host[f].slots /\ a.producers = host[f].producers,
           NEW ks \in Seq(Launched), queue' = queue \o ks, NEW d, Leads(m, e, ks, d),
           d.content = expected', d.owed = {},
           \A g \in Filter : host'[g].workspace = "routed" => d.zero[g]
    PROVE  Arrays' /\ ShapeInv' /\ Course(m, s, d)'
  <1>1. HostInv /\ StreamInv /\ ShapeInv /\ Arrays /\ Course(m, s, e) BY DEF Here
  <1>2. host \in [Filter -> Object] /\ queue \in Seq(Launched) /\ Served(queue, host)
    BY <1>1 DEF HostInv, StreamInv
  <1>3. /\ layout' = layout /\ threads' = threads /\ local' = local /\ bits' = bits
        /\ counters' = counters /\ slots' = slots /\ counts' = counts /\ records' = records
        /\ selected' = selected
    BY DEF NoDevice, running, workspace
  <1>4. host'[f] = a /\ \A g \in Filter : g # f => host'[g] = host[g] BY <1>2
  <1>5. Arrays'
    <2>1. Block' = Block BY <1>3, Rigid
    <2>2. \A g \in Filter : Tidy(host[g])' = Tidy(host'[g]) BY <1>3 DEF Tidy
    <2>3. \A g \in Filter : Tidy(host'[g]) BY <1>1, <1>4 DEF Arrays
    <2> QED BY <1>1, <1>3, <2>1, <2>2, <2>3 DEF Arrays
  <1>6. /\ s \in State(m) /\ Leads(m, s, queue, e) /\ Progress(m, s.content) /\ ZerosAreTrue(s)
    BY <1>1 DEF Course
  <1>7. Leads(m, s, queue \o ks, d) BY <1>2, <1>6, LeadsBoth
  <1>8. queue \o ks \in Seq(Launched) BY <1>2
  <1>9. d \in State(m) BY <1>7, <1>8, LeadsBetween
  <1>10. Leads(m, s, queue, d)'
    <2>1. Leads(m, s, queue, d)' = Leads(m, s, queue', d) BY DEF Leads
    <2> QED BY <1>7, <2>1
  <1>11. CASE queue = <<>>
    <2>1. e = s BY <1>6, <1>11, LeadsNowhere
    <2>2. Fresh(s.content) BY <1>6, <1>11 DEF Progress
    <2>3. Fresh(s.content)' BY <1>3, <2>2 DEF Fresh
    <2>4. queue' = ks BY <1>11
    <2>5. queue' # <<>> => Head(queue').op \notin ApplyKinds
      <3>1. ASSUME ks # <<>> PROVE Ready(m, Head(ks), e) BY <3>1, LeadsFirst
      <3>2. e.owed = {} BY <1>1 DEF Course
      <3> QED BY <2>4, <3>1, <3>2 DEF Ready
    <2>6. Progress(m, s.content)' BY <2>3, <2>5 DEF Progress, ApplyKinds
    <2>7. ZerosAreTrue(s)'
      <3> SUFFICES ASSUME NEW g \in Filter, s.zero[g] PROVE Zero(g)' BY DEF ZerosAreTrue
      <3>1. Zero(g) BY <1>6, <2>2 DEF ZerosAreTrue, Fresh
      <3> QED BY <1>3, <3>1, ZerosStay
    <2>8. ShapeInv' BY <1>1, <1>3, <2>2 DEF ShapeInv, Gathering, Fresh
    <2> QED BY <1>4, <1>5, <1>6, <1>9, <1>10, <2>6, <2>7, <2>8 DEF Course
  <1>12. CASE queue # <<>>
    <2> SUFFICES ASSUME NEW k, k = Head(queue), NEW was, was = s.content
                 PROVE  Arrays' /\ ShapeInv' /\ Course(m, s, d)'
      OBVIOUS
    <2>1. queue' # <<>> /\ Head(queue') = k
      <3>1. Len(queue \o ks) = Len(queue) + Len(ks) /\ Len(queue) \in Nat \ {0} /\ Len(ks) \in Nat
        BY <1>2, <1>12
      <3>2. (queue \o ks)[1] = queue[1] BY <1>2, <3>1
      <3>3. Head(queue) = queue[1] BY <1>2, <1>12
      <3>4. queue \o ks # <<>> BY <3>1
      <3>5. Head(queue \o ks) = (queue \o ks)[1] BY <1>8, <3>4
      <3> QED BY <3>2, <3>3, <3>4, <3>5
    <2>2. k \in Launched /\ k.f \in Filter BY <1>1, <1>12, Beginning
    <2>3. k.op \in RoutedKernels \cup PrivateKernels => host[k.f].workspace # "none"
      <3>1. queue[1] = k /\ 1 \in 1..Len(queue)
        <4>1. Len(queue) \in Nat \ {0} BY <1>2, <1>12
        <4> QED BY <4>1
      <3> QED BY <1>2, <3>1 DEF Served
    <2>4. k.op \in RoutedKernels \cup PrivateKernels =>
            host'[k.f].slots = host[k.f].slots /\ host'[k.f].producers = host[k.f].producers
      BY <1>4, <2>2, <2>3
    <2>5. Progress(m, was)'
      <3>1. ASSUME Fresh(was) PROVE Fresh(was)' BY <1>3, <3>1 DEF Fresh
      <3>2. ASSUME k.op \in {"add", "add if"} PROVE (Fresh(was) \/ AddGoing(m, k, was))'
        <4>1. Fresh(was) \/ AddGoing(m, k, was) BY <1>6, <1>12, <3>2 DEF Progress
        <4>2. Block' = Block BY <1>3, Rigid
        <4>3. AddGoing(m, k, was)' <=> AddGoing(m, k, was)
          BY <1>3, <4>2 DEF AddGoing, AddTold, Between, Deals, Todo, Sunk, Word
        <4> QED BY <3>1, <4>1, <4>3
      <3>3. ASSUME k.op \in RoutedKernels \cup PrivateKernels
            PROVE  /\ RouteGoing(m, k, was)' <=> RouteGoing(m, k, was)
                   /\ RouteDone(m, k, was)' <=> RouteDone(m, k, was)
                   /\ PrivateGoing(m, k, was)' <=> PrivateGoing(m, k, was)
                   /\ PrivateDone(m, k, was)' <=> PrivateDone(m, k, was)
                   /\ ApplyGoing(m, k, was)' <=> ApplyGoing(m, k, was)
        BY <2>1, <2>4, <3>3, RoutesStay, AppliesStay
      <3>4. {"route", "apply"} \cup Routes \cup TiledApplies \cup CompactApplies
               \subseteq RoutedKernels \cup PrivateKernels
        BY DEF RoutedKernels, PrivateKernels, Routes, TiledApplies, CompactApplies
      <3>5. /\ k.op = "route" => (Fresh(was) \/ RouteGoing(m, k, was))'
            /\ k.op = "apply" => RouteDone(m, k, was)'
            /\ k.op \in Routes => (Fresh(was) \/ PrivateGoing(m, k, was))'
            /\ k.op \in TiledApplies \cup CompactApplies =>
                 (PrivateDone(m, k, was) \/ ApplyGoing(m, k, was))'
        BY <1>6, <1>12, <3>1, <3>3, <3>4 DEF Progress
      <3>6. k.op \notin Batched => Fresh(was)' BY <1>6, <1>12, <3>1 DEF Progress
      <3> QED BY <2>1, <3>2, <3>5, <3>6 DEF Progress
    <2>6. ZerosAreTrue(s)'
      <3> SUFFICES ASSUME NEW g \in Filter, s.zero[g]
                   PROVE  Zero(g)' \/ (threads' # <<>> /\ Head(queue').op = "route"
                                         /\ Head(queue').f = g)
        BY DEF ZerosAreTrue
      <3>1. Zero(g)' <=> Zero(g) BY <1>3, ZerosStay
      <3> QED BY <1>3, <1>6, <2>1, <3>1 DEF ZerosAreTrue
    <2>7. ShapeInv'
      <3>1. Gathering(Applies)' <=> Gathering(Applies)
        BY <1>3, <1>12, <2>1 DEF Gathering, Running
      <3> QED BY <1>1, <1>3, <2>1, <3>1 DEF ShapeInv
    <2> QED BY <1>4, <1>5, <1>6, <1>9, <1>10, <2>5, <2>6, <2>7 DEF Course
  <1> QED BY <1>11, <1>12

\* Two kernels, one after the other.
LEMMA OneAfterOther ==
    ASSUME NEW S, NEW k \in S, NEW j \in S
    PROVE  <<k>> \o <<j>> = <<k, j>>
  <1> DEFINE p == <<k>> \o <<j>>
             q == <<k, j>>
  <1>1. <<k>> \in Seq(S) /\ <<j>> \in Seq(S) /\ q \in Seq(S) OBVIOUS
  <1>2. /\ Len(<<k>>) = 1 /\ Len(<<j>>) = 1 /\ Len(q) = 2
        /\ <<k>>[1] = k /\ <<j>>[1] = j /\ q[1] = k /\ q[2] = j
    OBVIOUS
  <1>3. p \in Seq(S) /\ Len(p) = 2 /\ p[1] = k /\ p[2] = j BY <1>1, <1>2
  <1>4. 1..2 = {1, 2} OBVIOUS
  <1> HIDE DEF p, q
  <1>5. p = q BY <1>1, <1>2, <1>3, <1>4, SeqEqual
  <1> QED BY <1>5 DEF p, q

\* The smaller and the larger of two numbers.
LEMMA EitherNumber ==
    ASSUME NEW a \in Int, NEW b \in Int
    PROVE  /\ Min({a, b}) \in {a, b} /\ Min({a, b}) <= a /\ Min({a, b}) <= b
           /\ Max({a, b}) \in {a, b} /\ Max({a, b}) >= a /\ Max({a, b}) >= b
  <1>1. \E x \in {a, b} : \A y \in {a, b} : x <= y OBVIOUS
  <1>2. \E x \in {a, b} : \A y \in {a, b} : x >= y OBVIOUS
  <1>3. Min({a, b}) \in {a, b} /\ \A y \in {a, b} : Min({a, b}) <= y BY <1>1 DEF Min
  <1>4. Max({a, b}) \in {a, b} /\ \A y \in {a, b} : Max({a, b}) >= y BY <1>2 DEF Max
  <1> QED BY <1>3, <1>4

\* Numbers of slots and of cores.
LEMMA WorkspaceNumbers ==
    ASSUME WorkersOK, NEW n \in Nat
    PROVE  /\ LaunchCoreNum(n) \in 1..Cores
           /\ 1..Min({MaxSlots, DesiredSlots(n)}) \subseteq 1..MaxSlots
  <1>1. Cores \in Nat \ {0} /\ CoreThreads \in Nat \ {0} /\ MaxSlots \in Nat BY DEF WorkersOK
  <1>4. LaunchCoreNum(n) \in 1..Cores
    <2> DEFINE needed == (n + CoreThreads - 1) \div CoreThreads
    <2>1. needed \in Int
      <3>1. n + CoreThreads - 1 \in Int BY <1>1
      <3> QED BY ONLY <1>1, <3>1, Divided
    <2> HIDE DEF needed
    <2> DEFINE x == Min({Cores, needed})
    <2>2. x \in {Cores, needed} /\ x <= Cores
      <3>1. Cores \in Int BY <1>1
      <3> QED BY ONLY <2>1, <3>1, EitherNumber DEF x
    <2> HIDE DEF x
    <2>3. Max({1, x}) \in {1, x} /\ Max({1, x}) >= 1
      <3>1. x \in Int /\ 1 \in Int BY <1>1, <2>1, <2>2
      <3> QED BY ONLY <3>1, EitherNumber
    <2>4. Max({1, x}) \in 1..Cores BY <1>1, <2>1, <2>2, <2>3
    <2> QED BY <2>4 DEF LaunchCoreNum, x, needed
  <1>5. DesiredSlots(n) \in Int
    <2> DEFINE d == (2 * n + NumBlocks - 1) \div NumBlocks
    <2>1. d \in Int
      <3>1. NumBlocks \in Nat \ {0} BY SomeBlocks
      <3>2. 2 * n + NumBlocks - 1 \in Int BY <3>1
      <3> QED BY ONLY <3>1, <3>2, Divided
    <2> HIDE DEF d
    <2>2. Max({1, d}) \in {1, d}
      <3>1. 1 \in Int OBVIOUS
      <3> QED BY ONLY <2>1, <3>1, EitherNumber
    <2> QED BY <2>1, <2>2 DEF DesiredSlots, d
  <1>6. Min({MaxSlots, DesiredSlots(n)}) \in Int /\ Min({MaxSlots, DesiredSlots(n)}) <= MaxSlots
    <2>1. MaxSlots \in Int BY <1>1
    <2>2. Min({MaxSlots, DesiredSlots(n)}) \in {MaxSlots, DesiredSlots(n)}
      BY ONLY <1>5, <2>1, EitherNumber
    <2>3. Min({MaxSlots, DesiredSlots(n)}) <= MaxSlots BY ONLY <1>5, <2>1, EitherNumber
    <2> QED BY <1>5, <2>1, <2>2, <2>3
  <1> QED BY <1>1, <1>4, <1>6

\* A filter that EnsureAddWorkspace, or TryPrivateAdd, has seen to is as tidy as
\* before, and its workspace the same if it had one.
LEMMA EnsuredIsTidy ==
    ASSUME WorkersOK, NEW h \in Object, Tidy(h), NEW n \in Nat,
           NEW a \in Ensured(MarkDirty(h), n) \cup {MarkDirty(h)} \cup Tried(MarkDirty(h), n)
    PROVE  /\ Tidy(a)
           /\ h.workspace # "none" => a.slots = h.slots /\ a.producers = h.producers
  <1>1. PICK x \in Ensured(MarkDirty(h), n) \cup {MarkDirty(h)} :
            a = x \/ a = [x EXCEPT !.flag = TRUE]
    BY DEF Tried, FlagChoices
  <1> SUFFICES ASSUME NEW g, g = MarkDirty(h)
               PROVE  /\ x \in Object /\ Tidy(x)
                      /\ h.workspace # "none" => x.slots = h.slots /\ x.producers = h.producers
    BY <1>1 DEF Object, Tidy
  <1>2. /\ g \in Object /\ g.workspace = h.workspace /\ g.slots = h.slots
        /\ g.producers = h.producers
    BY DEF MarkDirty, Object
  <1>3. Tidy(g) BY <1>2 DEF Tidy
  <1>4. x \in Object BY MarkedGrows
  <1>5. CASE x = g \/ x = [g EXCEPT !.unavailable = TRUE]
    BY <1>2, <1>3, <1>4, <1>5 DEF Tidy, Object
  <1>6. CASE g.workspace = "none" /\ x \in RoutedChoices(g, n) \ {[g EXCEPT !.unavailable = TRUE]}
    <2>1. PICK s \in 1..Min({MaxSlots, DesiredSlots(n)}) :
              x = [g EXCEPT !.workspace = "routed", !.slots = s]
      BY <1>6 DEF RoutedChoices
    <2>2. s \in 1..MaxSlots /\ MaxSlots \in Nat BY <2>1, WorkspaceNumbers DEF WorkersOK
    <2>3. x.workspace = "routed" /\ x.slots = s /\ x.producers = g.producers
      BY <1>2, <2>1 DEF Object
    <2>4. g.producers = 0 BY <1>3, <1>6, <1>2 DEF Tidy
    <2> QED BY <1>2, <1>3, <1>4, <1>6, <2>2, <2>3, <2>4 DEF Tidy
  <1>7. CASE g.workspace = "none" /\ x \in PrivateChoices(g, n) \ {[g EXCEPT !.unavailable = TRUE]}
    <2>1. /\ layout \in Private
          /\ x = [g EXCEPT !.workspace = "private", !.producers = LaunchCoreNum(n)]
      BY <1>7 DEF PrivateChoices
    <2>2. LaunchCoreNum(n) \in 1..Cores /\ Cores \in Nat BY WorkspaceNumbers DEF WorkersOK
    <2>3. x.workspace = "private" /\ x.slots = g.slots /\ x.producers = LaunchCoreNum(n)
      BY <1>2, <2>1 DEF Object
    <2>4. g.slots = 0 BY <1>3, <1>7, <1>2 DEF Tidy
    <2> QED BY <1>2, <1>3, <1>4, <1>7, <2>1, <2>2, <2>3, <2>4 DEF Tidy
  <1> QED BY <1>5, <1>6, <1>7 DEF Ensured
--------------------------------------------------------------------------------
\* A kernel by itself, not a route.
LEMMA AloneLeads ==
    ASSUME NEW m, NEW e \in State(m), NEW k \in Launched, k.op \notin RouteKinds, Ready(m, k, e)
    PROVE  \E d \in State(m) :
              /\ Leads(m, e, <<k>>, d) /\ d.owed = {}
              /\ d.content = [e.content EXCEPT ![k.f] = Contents(m, k, e.content)]
              /\ \A g \in Filter : e.zero[g] => d.zero[g]
              /\ k.op = "clear workspace" => d.zero[k.f]
  <1> SUFFICES ASSUME NEW d, d = Executed(m, k, e)
               PROVE  /\ d \in State(m) /\ Leads(m, e, <<k>>, d) /\ d.owed = {}
                      /\ d.content = [e.content EXCEPT ![k.f] = Contents(m, k, e.content)]
                      /\ \A g \in Filter : e.zero[g] => d.zero[g]
                      /\ k.op = "clear workspace" => d.zero[k.f]
    OBVIOUS
  <1>1. Executed(m, k, e) \in State(m) BY ONLY e \in State(m), k \in Launched, ExecutedIsState
  <1>2. Leads(m, e, <<k>>, d) BY LeadsOn
  <1>3. Executed(m, k, e).zero[k.f] = Zeroed(k, e.zero)
    BY ONLY e \in State(m), k \in Launched, ExecutedIsState
  <1>4. \A g \in Filter : g # k.f => Executed(m, k, e).zero[g] = e.zero[g]
    BY ONLY e \in State(m), k \in Launched, ExecutedIsState
  <1>5. k.op # "route" BY DEF RouteKinds
  <1>6. \A g \in Filter : e.zero[g] => d.zero[g] BY <1>3, <1>4, <1>5 DEF Zeroed
  <1>7. k.op = "clear workspace" => d.zero[k.f] BY <1>3 DEF Zeroed
  <1>8. d.content = [e.content EXCEPT ![k.f] = Contents(m, k, e.content)] /\ d.owed = {}
    BY DEF Executed
  <1> QED BY <1>1, <1>2, <1>6, <1>7, <1>8

\* A route and its apply.
LEMMA PairLeads ==
    ASSUME NEW m, NEW e \in State(m), NEW k \in Launched, NEW j \in Launched, Mates(k, j),
           e.owed = {}, Len(k.sel) = Len(k.keys), ~k.preserve => e.content[k.f] = {},
           k.op = "route" => e.zero[k.f]
    PROVE  \E d \in State(m) :
              /\ Leads(m, e, <<k, j>>, d) /\ d.owed = {}
              /\ d.content = [e.content EXCEPT ![k.f] = e.content[k.f] \cup Gain(m, k)]
              /\ \A g \in Filter : e.zero[g] => d.zero[g]
  <1>1. k.op \in RouteKinds /\ j.op \in ApplyKinds
        /\ k.op \notin ApplyKinds \cup {"zeros"} \cup Queries
        /\ j.op \notin RouteKinds \cup {"zeros", "add", "add if"} \cup Queries
    BY DEF Mates, RouteKinds, ApplyKinds, Routes, TiledApplies, CompactApplies, Queries
  <1>2. j.f = k.f BY SameOperands
  <1>3. j.keys = k.keys BY SameOperands
  <1>4. j.sel = k.sel BY SameOperands
  <1>5. j.preserve = k.preserve BY SameOperands
  <1>6. Gain(m, j) = Gain(m, k) BY SameOperands, ZenonT(60)
  <1>7. k.op = "route" <=> j.op = "apply" BY SameOperands
  <1>8. Ready(m, k, e) BY <1>1 DEF Ready, Queries
  <1> SUFFICES ASSUME NEW c, c = Executed(m, k, e), NEW d, d = Executed(m, j, c)
               PROVE  /\ d \in State(m) /\ Leads(m, e, <<k, j>>, d) /\ d.owed = {}
                      /\ d.content = [e.content EXCEPT ![k.f] = e.content[k.f] \cup Gain(m, k)]
                      /\ \A g \in Filter : e.zero[g] => d.zero[g]
    OBVIOUS
  <1>9. c \in State(m)
    <2>1. Executed(m, k, e) \in State(m) BY ONLY e \in State(m), k \in Launched, ExecutedIsState
    <2> QED BY <2>1
  <1>10. c.owed = {k} /\ c.content = e.content
    <2>1. c.content = [e.content EXCEPT ![k.f] = e.content[k.f]]
      BY <1>1 DEF Executed, Contents, RouteKinds, ApplyKinds, Routes, TiledApplies, CompactApplies
    <2>2. e.content \in Content(m) BY DEF State
    <2>3. c.owed = {k} BY <1>1 DEF Executed
    <2> QED BY <2>1, <2>2, <2>3 DEF Content
  <1>11. Ready(m, j, c)
    <2>1. j.op # "route" BY <1>1 DEF RouteKinds
    <2> QED BY <1>1, <1>2, <1>3, <1>4, <1>5, <1>10, <2>1 DEF Ready, Queries
  <1>12. d \in State(m)
    <2>1. Executed(m, j, c) \in State(m) BY ONLY <1>9, j \in Launched, ExecutedIsState
    <2> QED BY <2>1
  <1>13. Leads(m, e, <<k, j>>, d)
    <2>1. Leads(m, e, <<k>>, c) BY <1>8, LeadsOn
    <2>2. Leads(m, c, <<j>>, d) BY <1>9, <1>11, LeadsOn
    <2>3. <<k>> \in Seq(Launched) /\ <<j>> \in Seq(Launched) OBVIOUS
    <2>4. <<k>> \o <<j>> = <<k, j>>
      <3>1. k \in Launched /\ j \in Launched OBVIOUS
      <3> QED BY ONLY <3>1, OneAfterOther
    <2>5. Leads(m, e, <<k>> \o <<j>>, d) BY ONLY <2>1, <2>2, <2>3, LeadsBoth
    <2> QED BY <2>4, <2>5
  <1>14. d.owed = {} BY <1>1 DEF Executed
  <1>15. d.content = [e.content EXCEPT ![k.f] = e.content[k.f] \cup Gain(m, k)]
    BY <1>1, <1>2, <1>6, <1>10, Zenon DEF Executed, Contents
  <1>16. ASSUME NEW g \in Filter, e.zero[g] PROVE d.zero[g]
    <2>1. CASE g # k.f
      <3>1. Executed(m, k, e).zero[g] = e.zero[g]
        BY ONLY <2>1, g \in Filter, e \in State(m), k \in Launched, ExecutedIsState
      <3>2. Executed(m, j, c).zero[g] = c.zero[g]
        BY ONLY <1>2, <1>9, <2>1, g \in Filter, j \in Launched, ExecutedIsState
      <3> QED BY <1>16, <3>1, <3>2
    <2>2. CASE g = k.f
      <3>1. Executed(m, k, e).zero[k.f] = Zeroed(k, e.zero)
        BY ONLY e \in State(m), k \in Launched, ExecutedIsState
      <3>2. Executed(m, j, c).zero[j.f] = Zeroed(j, c.zero)
        BY ONLY <1>9, j \in Launched, ExecutedIsState
      <3>3. j.op # "route" BY <1>1 DEF RouteKinds
      <3> QED BY <1>2, <1>7, <1>16, <2>2, <3>1, <3>2, <3>3 DEF Zeroed
    <2> QED BY <2>1, <2>2
  <1> QED BY <1>12, <1>13, <1>14, <1>15, <1>16

\* Kernels that bring a filter from what it is to hold before a call to what it is
\* to hold afterwards, with counters at zero if a routed workspace needs them so.
Fulfils(m, f, a, ks) ==
    \A c \in State(m) :
        c.content = expected /\ c.owed = {} /\ (a.workspace = "routed" => c.zero[f]) =>
            \E d : /\ Leads(m, c, ks, d) /\ d.content = expected' /\ d.owed = {}
                  /\ \A g \in Filter : c.zero[g] => d.zero[g]

\* A call that sees to the filter's workspace first.
LEMMA CallRuns ==
    ASSUME NEW m, NEW s, NEW e, Here(m, s, e), NoDevice, NEW f \in Filter, NEW h, h = host[f],
           NEW a, Tidy(a), host' = [host EXCEPT ![f] = a],
           h.workspace # "none" =>
              a.workspace = h.workspace /\ a.slots = h.slots /\ a.producers = h.producers,
           NEW adds \in Seq(Launched), queue' = queue \o (ClearedWorkspace(f, h, a) \o adds),
           Fulfils(m, f, a, adds)
    PROVE  Arrays' /\ ShapeInv' /\ \E d : Course(m, s, d)'
  <1>1. /\ e \in State(m) /\ e.content = expected /\ e.owed = {}
        /\ \A g \in Filter : host[g].workspace = "routed" => e.zero[g]
    BY DEF Here, Course
  <1>2. host \in [Filter -> Object] BY DEF Here, HostInv
  <1> SUFFICES ASSUME NEW pre, pre = ClearedWorkspace(f, h, a)
               PROVE  Arrays' /\ ShapeInv' /\ \E d : Course(m, s, d)'
    OBVIOUS
  <1>3. pre \in Seq(Launched) BY ClearedFirst
  <1>4. \E c \in State(m) :
            /\ Leads(m, e, pre, c) /\ c.content = e.content /\ c.owed = {}
            /\ \A g \in Filter : e.zero[g] => c.zero[g]
            /\ NewRouted(h, a) => c.zero[f]
    <2>1. CASE ~NewRouted(h, a)
      <3>1. pre = <<>> BY <2>1 DEF ClearedWorkspace
      <3>2. Leads(m, e, pre, e) BY <1>1, <3>1, LeadsNowhere
      <3> QED BY <1>1, <2>1, <3>2
    <2>2. CASE NewRouted(h, a)
      <3> SUFFICES ASSUME NEW k, k = Kernel("clear workspace", f)
                   PROVE  \E c \in State(m) :
                             /\ Leads(m, e, pre, c) /\ c.content = e.content /\ c.owed = {}
                             /\ \A g \in Filter : e.zero[g] => c.zero[g]
                             /\ c.zero[f]
        BY <2>2
      <3>1. pre = <<k>> BY <2>2 DEF ClearedWorkspace
      <3>2. k \in Launched /\ k.op = "clear workspace" /\ k.f = f
        <4>1. "clear workspace" \in Kinds BY DEF Kinds
        <4> QED BY <4>1, KernelIsLaunched
      <3>3. k.op \notin RouteKinds \cup ApplyKinds \cup Batched \cup Queries
        BY <3>2 DEF RouteKinds, ApplyKinds, Batched, Queries, Routes, TiledApplies, CompactApplies
      <3>4. Ready(m, k, e) BY <1>1, <3>2, <3>3 DEF Ready
      <3>5. PICK c \in State(m) :
               /\ Leads(m, e, <<k>>, c) /\ c.owed = {}
               /\ c.content = [e.content EXCEPT ![k.f] = Contents(m, k, e.content)]
               /\ \A g \in Filter : e.zero[g] => c.zero[g]
               /\ k.op = "clear workspace" => c.zero[k.f]
        <4>1. k \in Launched /\ k.op \notin RouteKinds /\ e \in State(m) BY <1>1, <3>2, <3>3
        <4> QED BY ONLY <3>4, <4>1, AloneLeads
      <3>6. Contents(m, k, e.content) = e.content[f]
        BY <3>2, <3>3 DEF Contents
      <3>7. c.content = e.content
        <4>1. e.content \in Content(m) BY <1>1 DEF State
        <4>2. c.content = [e.content EXCEPT ![f] = e.content[f]] BY <3>2, <3>5, <3>6
        <4> QED BY <4>1, <4>2 DEF Content
      <3>8. Leads(m, e, pre, c) BY <3>1, <3>5
      <3>9. c.zero[f] BY <3>2, <3>5
      <3>10. c.owed = {} /\ \A g \in Filter : e.zero[g] => c.zero[g] BY <3>5
      <3> QED BY ONLY <3>5, <3>7, <3>8, <3>9, <3>10
    <2> QED BY <2>1, <2>2
  <1>5. PICK c \in State(m) :
            /\ Leads(m, e, pre, c) /\ c.content = e.content /\ c.owed = {}
            /\ \A g \in Filter : e.zero[g] => c.zero[g]
            /\ NewRouted(h, a) => c.zero[f]
    BY <1>4
  <1>6. a.workspace = "routed" => c.zero[f] BY <1>1, <1>5 DEF NewRouted
  <1>7. PICK d : /\ Leads(m, c, adds, d) /\ d.content = expected' /\ d.owed = {}
                 /\ \A g \in Filter : c.zero[g] => d.zero[g]
    BY <1>1, <1>5, <1>6 DEF Fulfils
  <1>8. pre \o adds \in Seq(Launched) BY <1>3
  <1>9. Leads(m, e, pre \o adds, d) BY <1>3, <1>5, <1>7, LeadsBoth
  <1>10. ASSUME NEW g \in Filter, host'[g].workspace = "routed" PROVE d.zero[g]
    <2>1. CASE g = f
      <3>1. host'[g] = a BY <1>2, <2>1
      <3> QED BY <1>6, <1>7, <1>10, <2>1, <3>1
    <2>2. CASE g # f
      <3>1. host'[g] = host[g] BY <1>2, <2>2
      <3> QED BY <1>1, <1>5, <1>7, <1>10, <3>1
    <2> QED BY <2>1, <2>2
  <1> SUFFICES ASSUME NEW ks, ks = pre \o adds
               PROVE  Arrays' /\ ShapeInv' /\ Course(m, s, d)'
    OBVIOUS
  <1>11. ks \in Seq(Launched) /\ queue' = queue \o ks /\ Leads(m, e, ks, d) BY <1>8, <1>9
  <1>12. h.workspace # "none" => a.slots = h.slots /\ a.producers = h.producers OBVIOUS
  <1>13. d.content = expected' /\ d.owed = {} BY <1>7
  <1>14. host[f].workspace # "none" => a.slots = host[f].slots /\ a.producers = host[f].producers
    BY <1>12
  <1> QED BY <1>10, <1>11, <1>13, <1>14, CallLeads

\* The batch of a call.
LEMMA BatchIsCalled ==
    ASSUME Sound, NEW m, m = Marks, NEW c \in Calls, NEW h \in Object, NEW k,
           k = Adding(c.f, c, h)
    PROVE  /\ k \in Launched /\ k.f = c.f /\ k.op = "add" /\ Len(k.sel) = Len(k.keys)
           /\ k.preserve = ~h.knownEmpty
           /\ Gain(m, k) = UNION {BitsOf(x) : x \in Selected(c)}
           /\ \A op \in Kinds : LET j == [k EXCEPT !.op = op] IN
                 /\ j \in Launched /\ j.op = op /\ j.f = c.f /\ j.keys = k.keys /\ j.sel = k.sel
                 /\ j.preserve = k.preserve
  <1>1. /\ c.f \in Filter /\ c.keys \in Seq(Key) /\ c.sel \in Seq(BOOLEAN) /\ k \in Launched
        /\ k.op = "add" /\ k.f = c.f
        /\ \A op \in Kinds : [k EXCEPT !.op = op] \in Launched
    BY AddingIsLaunched DEF Sound
  <1>2. k.keys = c.keys /\ k.sel = c.sel /\ k.preserve = ~h.knownEmpty
    BY DEF Adding, Kernel, Preserve
  <1>3. Len(c.sel) = Len(c.keys) BY DEF Sound, CallsOK
  <1>4. Gain(m, k) = UNION {BitsOf(x) : x \in Selected(c)}
    <2>1. \A i \in Chosen(k) : k.keys[i] \in Key /\ m[k.keys[i]] = BitsOf(k.keys[i])
      BY <1>1, <1>2, <1>3, Elements DEF Sound
    <2>2. DOMAIN c.keys = 1..Len(c.keys) BY <1>1
    <2>3. Chosen(k) = {j \in DOMAIN c.keys : c.sel[j]} BY <1>2, <2>2 DEF Chosen
    <2> QED BY <1>2, <2>1, <2>3 DEF Gain, Selected
  <1>5. \A op \in Kinds : LET j == [k EXCEPT !.op = op] IN
                 /\ j.op = op /\ j.f = c.f /\ j.keys = k.keys /\ j.sel = k.sel
                 /\ j.preserve = k.preserve
    BY <1>1 DEF Launched
  <1> QED BY <1>1, <1>2, <1>3, <1>4, <1>5

\* A batch, as kernels of different kinds.
As(k, op) == [k EXCEPT !.op = op]
OfEachKind(k) ==
    \A op \in Kinds :
        /\ As(k, op) \in Launched /\ As(k, op).op = op /\ As(k, op).f = k.f
        /\ As(k, op).keys = k.keys /\ As(k, op).sel = k.sel /\ As(k, op).preserve = k.preserve

\* Kernels that add the batch k to a filter, leave nothing owing and no counter
\* other than zero that was.
Gains(m, x, k, q) ==
    \E d \in State(m) :
        /\ Leads(m, x, q, d) /\ d.owed = {}
        /\ d.content = [x.content EXCEPT ![k.f] = x.content[k.f] \cup Gain(m, k)]
        /\ \A g \in Filter : x.zero[g] => d.zero[g]

\* A batch, added in one kernel.
LEMMA OneGains ==
    ASSUME NEW m, NEW x \in State(m), x.owed = {}, NEW k \in Launched, OfEachKind(k),
           Len(k.sel) = Len(k.keys), ~k.preserve => x.content[k.f] = {},
           NEW op \in {"add", "add if"}
    PROVE  Gains(m, x, k, <<As(k, op)>>)
  <1> SUFFICES ASSUME NEW j, j = As(k, op) PROVE Gains(m, x, k, <<j>>) OBVIOUS
  <1>1. op \in Kinds BY DEF Kinds
  <1>2. /\ j \in Launched /\ j.op = op /\ j.f = k.f /\ j.keys = k.keys /\ j.sel = k.sel
        /\ j.preserve = k.preserve
    BY <1>1 DEF OfEachKind
  <1>3. Gain(m, j) = Gain(m, k)
    <2>1. Chosen(j) = Chosen(k) BY <1>2 DEF Chosen
    <2> QED BY <1>2, <2>1, ZenonT(60) DEF Gain
  <1>4. j.op \notin RouteKinds /\ j.op \notin ApplyKinds \cup Queries
    BY <1>2 DEF RouteKinds, ApplyKinds, Routes, TiledApplies, CompactApplies, Queries
  <1>5. Ready(m, j, x) BY <1>2, <1>4 DEF Ready, Queries
  <1>6. PICK d \in State(m) :
           /\ Leads(m, x, <<j>>, d) /\ d.owed = {}
           /\ d.content = [x.content EXCEPT ![j.f] = Contents(m, j, x.content)]
           /\ \A g \in Filter : x.zero[g] => d.zero[g]
    <2>1. j \in Launched /\ j.op \notin RouteKinds /\ x \in State(m) BY <1>2, <1>4
    <2> QED BY ONLY <1>5, <2>1, AloneLeads
  <1>7. Contents(m, j, x.content) = x.content[k.f] \cup Gain(m, k)
    BY <1>2, <1>3 DEF Contents
  <1> QED BY <1>2, <1>6, <1>7 DEF Gains

\* A batch, added in two.
LEMMA TwoGain ==
    ASSUME NEW m, NEW x \in State(m), x.owed = {}, NEW k \in Launched, OfEachKind(k),
           Len(k.sel) = Len(k.keys), ~k.preserve => x.content[k.f] = {},
           NEW o \in Kinds, NEW p \in Kinds, o = "route" => x.zero[k.f],
           <<o, p>> \in {<<"route", "apply">>, <<"private route", "private apply">>,
                         <<"private route", "compact apply">>,
                         <<"private route if", "private apply if">>,
                         <<"private route if", "compact apply if">>}
    PROVE  Gains(m, x, k, <<As(k, o), As(k, p)>>)
  <1> SUFFICES ASSUME NEW i, i = As(k, o), NEW j, j = As(k, p) PROVE Gains(m, x, k, <<i, j>>)
    OBVIOUS
  <1>1. /\ i \in Launched /\ i.op = o /\ i.f = k.f /\ i.keys = k.keys /\ i.sel = k.sel
        /\ i.preserve = k.preserve /\ j \in Launched /\ j.op = p
    BY DEF OfEachKind
  <1>2. Gain(m, i) = Gain(m, k)
    <2>1. i.keys = k.keys /\ i.sel = k.sel BY <1>1
    <2>2. Chosen(i) = Chosen(k) BY <2>1 DEF Chosen
    <2> QED BY ONLY <2>1, <2>2 DEF Gain
  <1>3. j = [i EXCEPT !.op = j.op]
    <2>1. [[k EXCEPT !.op = o] EXCEPT !.op = p] = [k EXCEPT !.op = p] BY DEF Launched
    <2> QED BY <1>1, <2>1 DEF As
  <1>4. Mates(i, j) BY <1>1, <1>3 DEF Mates
  <1>5. ~i.preserve => x.content[i.f] = {} BY <1>1
  <1>6. i.op = "route" => x.zero[i.f] BY <1>1
  <1>7. Len(i.sel) = Len(i.keys) BY <1>1
  <1>8. x \in State(m) /\ x.owed = {} OBVIOUS
  <1>9. PICK d \in State(m) :
           /\ Leads(m, x, <<i, j>>, d) /\ d.owed = {}
           /\ d.content = [x.content EXCEPT ![i.f] = x.content[i.f] \cup Gain(m, i)]
           /\ \A g \in Filter : x.zero[g] => d.zero[g]
    BY ONLY <1>1, <1>4, <1>5, <1>6, <1>7, <1>8, PairLeads
  <1> QED BY <1>1, <1>2, <1>9 DEF Gains

\* A batch whose kernels add it is added as the call says.
LEMMA GainsFulfil ==
    ASSUME NEW m, NEW f, NEW a, NEW k, k.f = f, NEW ks,
           expected' = [expected EXCEPT ![f] = expected[f] \cup Gain(m, k)],
           \A x \in State(m) :
              x.content = expected /\ x.owed = {} /\ (a.workspace = "routed" => x.zero[f]) =>
                 Gains(m, x, k, ks)
    PROVE  Fulfils(m, f, a, ks)
  BY DEF Fulfils, Gains

\* The batch of a call, and the kernels that may be launched for it.
BatchOf(m, c, h, k) ==
    /\ k \in Launched /\ k.f = c.f /\ k.op = "add" /\ Len(k.sel) = Len(k.keys)
    /\ k.preserve = ~h.knownEmpty
    /\ Gain(m, k) = UNION {BitsOf(x) : x \in Selected(c)}
    /\ OfEachKind(k)

\* A call has such a batch.
LEMMA CallHasBatch ==
    ASSUME Sound, NEW m, m = Marks, NEW c \in Calls, NEW h \in Object, NEW k,
           k = Adding(c.f, c, h)
    PROVE  BatchOf(m, c, h, k)
  <1>1. m = Marks /\ Sound /\ c \in Calls /\ h \in Object /\ k = Adding(c.f, c, h)
    OBVIOUS
  <1>2. k \in Launched /\ k.f = c.f /\ k.op = "add" /\ Len(k.sel) = Len(k.keys)
    BY ONLY <1>1, BatchIsCalled
  <1>3. k.preserve = ~h.knownEmpty BY ONLY <1>1, BatchIsCalled
  <1>4. Gain(m, k) = UNION {BitsOf(x) : x \in Selected(c)} BY ONLY <1>1, BatchIsCalled
  <1>5. \A op \in Kinds : LET j == [k EXCEPT !.op = op] IN
          /\ j \in Launched /\ j.op = op /\ j.f = c.f /\ j.keys = k.keys /\ j.sel = k.sel
          /\ j.preserve = k.preserve
    BY ONLY <1>1, BatchIsCalled
  <1>6. OfEachKind(k) BY <1>2, <1>5 DEF OfEachKind, As
  <1> QED BY <1>2, <1>3, <1>4, <1>6 DEF BatchOf

\* The kernels of AddAsync do what the call is to do.
LEMMA AddLeads ==
    ASSUME Sound, NEW m, NEW s, NEW e, Here(m, s, e), NEW c \in Calls, AddAsync(c.f, c)
    PROVE  Arrays' /\ ShapeInv' /\ \E d : Course(m, s, d)'
  <1> SUFFICES ASSUME NEW f, f = c.f, NEW h, h = host[f], NEW n, n = Len(c.keys),
                      NEW k, k = Adding(f, c, h)
               PROVE  Arrays' /\ ShapeInv' /\ \E d : Course(m, s, d)'
    OBVIOUS
  <1>1. /\ host \in [Filter -> Object] /\ f \in Filter /\ h \in Object /\ Sized(h) /\ Tidy(h)
        /\ n \in Nat /\ CallsOK /\ WorkersOK
        /\ h.knownEmpty => expected[f] = {}
    <2>1. CallsOK /\ WorkersOK /\ HostInv /\ Arrays BY DEF Sound, Here
    <2>2. f \in Filter /\ n \in Nat
      <3>1. c.f \in Filter /\ c.keys \in Seq(Key) BY <2>1 DEF CallsOK
      <3> QED BY <3>1
    <2> QED BY <2>1, <2>2 DEF HostInv, Arrays, KnownEmptyIsEmpty
  <1>2. PICK a \in Ensured(MarkDirty(h), n) \cup {MarkDirty(h)} :
           /\ host' = [host EXCEPT ![f] = a]
           /\ queue' = queue \o (ClearedWorkspace(f, h, a) \o
                                   IF ~Aggregates(a, n) THEN <<k>>
                                   ELSE IF a.workspace = "routed" THEN RoutedAdd(k)
                                   ELSE PrivateAdd(k))
    BY Zenon DEF AddAsync, Launch
  <1>3. /\ a \in Object
        /\ h.workspace # "none" => a.workspace = h.workspace
    BY <1>1, MarkedGrows
  <1>4. Tidy(a) /\ (h.workspace # "none" => a.slots = h.slots /\ a.producers = h.producers)
    BY <1>1, EnsuredIsTidy
  <1>5. /\ k \in Launched /\ k.f = f /\ k.op = "add" /\ Len(k.sel) = Len(k.keys)
        /\ k.preserve = ~h.knownEmpty
        /\ Gain(m, k) = UNION {BitsOf(x) : x \in Selected(c)}
        /\ OfEachKind(k)
    <2>1. m = Marks /\ Sound /\ c \in Calls /\ h \in Object /\ k = Adding(c.f, c, h)
      BY <1>1 DEF Here
    <2>2. BatchOf(m, c, h, k) BY ONLY <2>1, CallHasBatch
    <2> QED BY <2>2 DEF BatchOf
  <1>6. expected' = [expected EXCEPT ![f] = expected[f] \cup Gain(m, k)] /\ NoDevice
    BY <1>5 DEF AddAsync, Expect
  <1> SUFFICES ASSUME NEW adds, adds = IF ~Aggregates(a, n) THEN <<k>>
                                       ELSE IF a.workspace = "routed" THEN RoutedAdd(k)
                                       ELSE PrivateAdd(k)
               PROVE  Arrays' /\ ShapeInv' /\ \E d : Course(m, s, d)'
    OBVIOUS
  <1>7. adds \in Seq(Launched)
    <2>1. \A op \in Kinds : [k EXCEPT !.op = op] \in Launched BY <1>5 DEF OfEachKind, As
    <2>2. RoutedAdd(k) \in Seq(Launched) /\ PrivateAdd(k) \in Seq(Launched)
      BY <1>5, <2>1, BatchesPair
    <2>3. <<k>> \in Seq(Launched) BY <1>5
    <2> QED BY <2>2, <2>3
  <1>8. ASSUME NEW x \in State(m), x.content = expected, x.owed = {},
               a.workspace = "routed" => x.zero[f]
        PROVE  Gains(m, x, k, adds)
    <2>1. ~k.preserve => x.content[k.f] = {} BY <1>1, <1>5, <1>8
    <2>2. CASE ~Aggregates(a, n)
      <3>1. As(k, "add") = k BY <1>5 DEF Launched, As
      <3>2. Gains(m, x, k, <<As(k, "add")>>) BY <1>5, <1>8, <2>1, OneGains
      <3> QED BY <2>2, <3>1, <3>2
    <2>3. CASE Aggregates(a, n)
      <3>1. a.workspace \in {"routed", "private"} BY <1>3, <2>3 DEF Aggregates, Object
      <3> DEFINE one == IF a.workspace = "routed" THEN "route" ELSE "private route"
                 two == IF a.workspace = "routed" THEN "apply"
                        ELSE IF layout = "compact" THEN "compact apply" ELSE "private apply"
      <3>2. adds = <<As(k, one), As(k, two)>>
        BY <2>3, <3>1 DEF RoutedAdd, PrivateAdd, LaunchRoutedAddRoute, LaunchRoutedAddApply, As,
              LaunchPrivateAddRoute, LaunchPrivateAddApply, LaunchPrivateCompactSparseAddApply
      <3>3. /\ one \in Kinds /\ two \in Kinds
            /\ <<one, two>> \in {<<"route", "apply">>, <<"private route", "private apply">>,
                                 <<"private route", "compact apply">>,
                                 <<"private route if", "private apply if">>,
                                 <<"private route if", "compact apply if">>}
            /\ one = "route" => x.zero[k.f]
        BY <1>5, <1>8 DEF Kinds, RoutedKernels, PrivateKernels
      <3> HIDE DEF one, two
      <3>4. Gains(m, x, k, <<As(k, one), As(k, two)>>) BY <1>5, <1>8, <2>1, <3>3, TwoGain
      <3> QED BY <3>2, <3>4
    <2> QED BY <2>2, <2>3
  <1>9. queue' = queue \o (ClearedWorkspace(f, h, a) \o adds) BY <1>2
  <1>10. h.workspace # "none" =>
            a.workspace = h.workspace /\ a.slots = h.slots /\ a.producers = h.producers
    BY <1>3, <1>4
  <1>11. Fulfils(m, f, a, adds) BY <1>5, <1>6, <1>8, GainsFulfil
  <1>12. host' = [host EXCEPT ![f] = a] /\ Tidy(a) /\ NoDevice /\ f \in Filter
    BY <1>1, <1>2, <1>4, <1>6
  <1> QED BY <1>7, <1>9, <1>10, <1>11, <1>12, CallRuns, Zenon

\* One kernel, and two more.
LEMMA TwoAfterOne ==
    ASSUME NEW S, NEW r \in S, NEW i \in S, NEW j \in S
    PROVE  <<r>> \o <<i, j>> = <<r, i, j>>
  <1> DEFINE p == <<r>> \o <<i, j>>
             q == <<r, i, j>>
  <1>1. <<r>> \in Seq(S) /\ <<i, j>> \in Seq(S) /\ q \in Seq(S) OBVIOUS
  <1>2. /\ Len(<<r>>) = 1 /\ <<r>>[1] = r
        /\ Len(<<i, j>>) = 2 /\ <<i, j>>[1] = i /\ <<i, j>>[2] = j
        /\ Len(q) = 3 /\ q[1] = r /\ q[2] = i /\ q[3] = j
    OBVIOUS
  <1>3. p \in Seq(S) /\ Len(p) = 3 /\ p[1] = r /\ p[2] = i /\ p[3] = j BY <1>1, <1>2
  <1>4. 1..3 = {1, 2, 3} OBVIOUS
  <1> HIDE DEF p, q
  <1>5. p = q BY <1>1, <1>2, <1>3, <1>4, SeqEqual
  <1> QED BY <1>5 DEF p, q

\* A flag reset, and then a batch, conditionally, in two kernels.
LEMMA ConditionalGains ==
    ASSUME NEW m, NEW x \in State(m), x.owed = {}, NEW k \in Launched, OfEachKind(k),
           Len(k.sel) = Len(k.keys), ~k.preserve => x.content[k.f] = {}
    PROVE  Gains(m, x, k, PrivateAddIf(k))
  <1> DEFINE p == IF layout = "compact" THEN "compact apply if" ELSE "private apply if"
  <1> SUFFICES ASSUME NEW r, r = Kernel("reset flag", k.f),
                      NEW i, i = As(k, "private route if"), NEW j, j = As(k, p)
               PROVE  Gains(m, x, k, PrivateAddIf(k))
    OBVIOUS
  <1>1. PrivateAddIf(k) = <<r, i, j>>
    BY DEF PrivateAddIf, LaunchPrivateRouteForLayout, LaunchPrivateApplyForLayout, As
  <1>2. "private route if" \in Kinds /\ p \in Kinds /\ "reset flag" \in Kinds
    BY DEF Kinds, PrivateKernels
  <1>3. k.f \in Filter BY DEF Launched
  <1>4. r \in Launched /\ r.op = "reset flag" /\ r.f = k.f BY <1>2, <1>3, KernelIsLaunched
  <1>5. i \in Launched /\ j \in Launched BY <1>2 DEF OfEachKind
  <1>6. r.op \notin RouteKinds /\ r.op \notin ApplyKinds \cup Batched \cup Queries
    BY <1>4 DEF RouteKinds, ApplyKinds, Batched, Queries, Routes, TiledApplies, CompactApplies
  <1>7. Ready(m, r, x) BY <1>4, <1>6 DEF Ready
  <1>8. PICK y \in State(m) :
           /\ Leads(m, x, <<r>>, y) /\ y.owed = {}
           /\ y.content = [x.content EXCEPT ![r.f] = Contents(m, r, x.content)]
           /\ \A g \in Filter : x.zero[g] => y.zero[g]
    <2>1. r \in Launched /\ r.op \notin RouteKinds /\ x \in State(m) BY <1>4, <1>6
    <2> QED BY ONLY <1>7, <2>1, AloneLeads
  <1>9. y.content = x.content
    <2>1. Contents(m, r, x.content) = x.content[k.f] BY <1>4, <1>6 DEF Contents
    <2>2. x.content \in Content(m) BY DEF State
    <2>3. y.content = [x.content EXCEPT ![k.f] = x.content[k.f]] BY <1>4, <1>8, <2>1
    <2> QED BY <2>2, <2>3 DEF Content
  <1>10. Gains(m, y, k, <<i, j>>)
    <2>1. <<"private route if", p>> \in
              {<<"route", "apply">>, <<"private route", "private apply">>,
               <<"private route", "compact apply">>, <<"private route if", "private apply if">>,
               <<"private route if", "compact apply if">>}
      OBVIOUS
    <2>2. ~k.preserve => y.content[k.f] = {} BY <1>9
    <2> HIDE DEF p
    <2>3. Gains(m, y, k, <<As(k, "private route if"), As(k, p)>>)
      BY <1>2, <1>8, <2>1, <2>2, TwoGain
    <2> QED BY <2>3
  <1>11. PICK d \in State(m) :
            /\ Leads(m, y, <<i, j>>, d) /\ d.owed = {}
            /\ d.content = [y.content EXCEPT ![k.f] = y.content[k.f] \cup Gain(m, k)]
            /\ \A g \in Filter : y.zero[g] => d.zero[g]
    BY <1>10 DEF Gains
  <1>12. Leads(m, x, <<r, i, j>>, d)
    <2>1. <<r>> \in Seq(Launched) /\ <<i, j>> \in Seq(Launched)
      <3>1. r \in Launched /\ i \in Launched /\ j \in Launched BY <1>4, <1>5
      <3> QED BY ONLY <3>1
    <2>2. Leads(m, x, <<r>> \o <<i, j>>, d) BY ONLY <1>8, <1>11, <2>1, LeadsBoth
    <2>3. <<r>> \o <<i, j>> = <<r, i, j>>
      <3>1. r \in Launched /\ i \in Launched /\ j \in Launched BY <1>4, <1>5
      <3> QED BY ONLY <3>1, TwoAfterOne
    <2> QED BY <2>2, <2>3
  <1>13. d.content = [x.content EXCEPT ![k.f] = x.content[k.f] \cup Gain(m, k)]
    BY <1>9, <1>11
  <1>14. \A g \in Filter : x.zero[g] => d.zero[g] BY <1>8, <1>11
  <1> QED BY <1>1, <1>11, <1>12, <1>13, <1>14 DEF Gains

\* The kernels of AddIfAsync do what the call is to do.
LEMMA AddIfLeads ==
    ASSUME Sound, NEW m, NEW s, NEW e, Here(m, s, e), NEW c \in Calls, AddIfAsync(c.f, c)
    PROVE  Arrays' /\ ShapeInv' /\ \E d : Course(m, s, d)'
  <1> SUFFICES ASSUME NEW f, f = c.f, NEW h, h = host[f], NEW n, n = Len(c.keys),
                      NEW k, k = Adding(f, c, h)
               PROVE  Arrays' /\ ShapeInv' /\ \E d : Course(m, s, d)'
    OBVIOUS
  <1>1. /\ host \in [Filter -> Object] /\ f \in Filter /\ h \in Object /\ Sized(h) /\ Tidy(h)
        /\ n \in Nat /\ CallsOK /\ WorkersOK
        /\ h.knownEmpty => expected[f] = {}
    <2>1. CallsOK /\ WorkersOK /\ HostInv /\ Arrays BY DEF Sound, Here
    <2>2. f \in Filter /\ n \in Nat
      <3>1. c.f \in Filter /\ c.keys \in Seq(Key) BY <2>1 DEF CallsOK
      <3> QED BY <3>1
    <2> QED BY <2>1, <2>2 DEF HostInv, Arrays, KnownEmptyIsEmpty
  <1>2. PICK a \in Tried(MarkDirty(h), n) :
           /\ host' = [host EXCEPT ![f] = a]
           /\ queue' = queue \o (ClearedWorkspace(f, h, a) \o
                                   IF TriedWell(a, n) THEN PrivateAddIf(k)
                                   ELSE <<As(k, "add if")>>)
    BY DEF AddIfAsync, Launch, As
  <1>3. h.workspace # "none" => a.workspace = h.workspace
    BY <1>1, TriedGrows
  <1>4. Tidy(a) /\ (h.workspace # "none" => a.slots = h.slots /\ a.producers = h.producers)
    BY <1>1, EnsuredIsTidy
  <1>5. /\ k \in Launched /\ k.f = f /\ Len(k.sel) = Len(k.keys)
        /\ k.preserve = ~h.knownEmpty
        /\ Gain(m, k) = UNION {BitsOf(x) : x \in Selected(c)}
        /\ OfEachKind(k)
    <2>1. m = Marks /\ Sound /\ c \in Calls /\ h \in Object /\ k = Adding(c.f, c, h)
      BY <1>1 DEF Here
    <2>2. BatchOf(m, c, h, k) BY ONLY <2>1, CallHasBatch
    <2> QED BY <2>2 DEF BatchOf
  <1>6. expected' = [expected EXCEPT ![f] = expected[f] \cup Gain(m, k)] /\ NoDevice
    BY <1>5 DEF AddIfAsync, Expect
  <1> SUFFICES ASSUME NEW adds, adds = IF TriedWell(a, n) THEN PrivateAddIf(k)
                                       ELSE <<As(k, "add if")>>
               PROVE  Arrays' /\ ShapeInv' /\ \E d : Course(m, s, d)'
    OBVIOUS
  <1>7. adds \in Seq(Launched)
    <2>1. \A op \in Kinds : [k EXCEPT !.op = op] \in Launched BY <1>5 DEF OfEachKind, As
    <2>2. PrivateAddIf(k) \in Seq(Launched) BY <1>5, <2>1, ConditionalBatch
    <2>3. As(k, "add if") \in Launched BY <2>1 DEF As, Kinds
    <2>4. <<As(k, "add if")>> \in Seq(Launched) BY ONLY <2>3, Alone
    <2> QED BY ONLY <2>2, <2>4, adds = IF TriedWell(a, n) THEN PrivateAddIf(k)
                                       ELSE <<As(k, "add if")>>
  <1>8. ASSUME NEW x \in State(m), x.content = expected, x.owed = {},
               a.workspace = "routed" => x.zero[f]
        PROVE  Gains(m, x, k, adds)
    <2>1. ~k.preserve => x.content[k.f] = {} BY <1>1, <1>5, <1>8
    <2>2. CASE TriedWell(a, n)
      <3>1. Gains(m, x, k, PrivateAddIf(k)) BY <1>5, <1>8, <2>1, ConditionalGains
      <3> QED BY <2>2, <3>1
    <2>3. CASE ~TriedWell(a, n)
      <3>1. Gains(m, x, k, <<As(k, "add if")>>) BY <1>5, <1>8, <2>1, OneGains
      <3> QED BY <2>3, <3>1
    <2> QED BY <2>2, <2>3
  <1>9. queue' = queue \o (ClearedWorkspace(f, h, a) \o adds) BY <1>2
  <1>10. h.workspace # "none" =>
            a.workspace = h.workspace /\ a.slots = h.slots /\ a.producers = h.producers
    BY <1>3, <1>4
  <1>11. Fulfils(m, f, a, adds) BY <1>5, <1>6, <1>8, GainsFulfil
  <1>12. host' = [host EXCEPT ![f] = a] /\ Tidy(a) /\ NoDevice /\ f \in Filter
    BY <1>1, <1>2, <1>4, <1>6
  <1> QED BY <1>7, <1>9, <1>10, <1>11, <1>12, CallRuns, ZenonT(60)

\* A call that launches nothing, and after which the filters are to hold what they
\* were to hold before.
LEMMA NothingRuns ==
    ASSUME NEW m, NEW s, NEW e, Here(m, s, e), NoDevice, NEW f \in Filter, NEW a,
           a.workspace = host[f].workspace, a.slots = host[f].slots,
           a.producers = host[f].producers,
           host' = [host EXCEPT ![f] = a], queue' = queue, expected' = expected
    PROVE  Arrays' /\ ShapeInv' /\ Course(m, s, e)'
  <1>1. /\ queue \in Seq(Launched) /\ host \in [Filter -> Object] /\ Tidy(host[f])
        /\ e \in State(m) /\ e.content = expected /\ e.owed = {}
        /\ \A g \in Filter : host[g].workspace = "routed" => e.zero[g]
    BY DEF Here, HostInv, StreamInv, Arrays, Course
  <1>2. Tidy(a) BY <1>1 DEF Tidy
  <1>3. Leads(m, e, <<>>, e) BY <1>1, LeadsNowhere
  <1>4. queue' = queue \o <<>> BY <1>1
  <1>5. <<>> \in Seq(Launched) OBVIOUS
  <1>6. e.content = expected' BY <1>1
  <1>7. \A g \in Filter : host'[g].workspace = "routed" => e.zero[g] BY <1>1
  <1>8. host[f].workspace # "none" => a.slots = host[f].slots /\ a.producers = host[f].producers
    OBVIOUS
  <1> QED BY <1>1, <1>2, <1>3, <1>4, <1>5, <1>6, <1>7, <1>8, CallLeads

\* A kernel that may run once the filters hold what they are to hold, and that does
\* then what the call is to do.
Serves(m, f, k) ==
    \A x \in State(m) : x.content = expected /\ x.owed = {} =>
        Ready(m, k, x) /\ expected' = [expected EXCEPT ![f] = Contents(m, k, expected)]

\* A call of one kernel, without a workspace.
LEMMA AloneRuns ==
    ASSUME NEW m, NEW s, NEW e, Here(m, s, e), NoDevice, NEW f \in Filter, NEW a,
           a.workspace = host[f].workspace, a.slots = host[f].slots,
           a.producers = host[f].producers, host' = [host EXCEPT ![f] = a],
           NEW k \in Launched, k.f = f, k.op \notin RouteKinds, Launch(<<k>>), Serves(m, f, k)
    PROVE  Arrays' /\ ShapeInv' /\ \E d : Course(m, s, d)'
  <1>1. queue \in Seq(Launched) /\ Tidy(host[f]) BY DEF Here, StreamInv, Arrays
  <1>2. Tidy(a) BY <1>1 DEF Tidy
  <1>3. ASSUME NEW x \in State(m), x.content = expected, x.owed = {}
        PROVE  \E d : /\ Leads(m, x, <<k>>, d) /\ d.content = expected' /\ d.owed = {}
                      /\ \A g \in Filter : x.zero[g] => d.zero[g]
    <2>1. Ready(m, k, x) /\ expected' = [expected EXCEPT ![f] = Contents(m, k, expected)]
      BY <1>3 DEF Serves
    <2>2. PICK d \in State(m) :
             /\ Leads(m, x, <<k>>, d) /\ d.owed = {}
             /\ d.content = [x.content EXCEPT ![k.f] = Contents(m, k, x.content)]
             /\ \A g \in Filter : x.zero[g] => d.zero[g]
      <3>1. k \in Launched /\ k.op \notin RouteKinds /\ x \in State(m) OBVIOUS
      <3> QED BY ONLY <2>1, <3>1, AloneLeads
    <2>3. d.content = expected' BY <1>3, <2>1, <2>2
    <2> QED BY <2>2, <2>3
  <1>4. Fulfils(m, f, a, <<k>>) BY <1>3 DEF Fulfils
  <1> SUFFICES ASSUME NEW ks, ks = <<k>>, NEW h, h = host[f]
               PROVE  Arrays' /\ ShapeInv' /\ \E d : Course(m, s, d)'
    OBVIOUS
  <1>5. ks \in Seq(Launched) /\ Fulfils(m, f, a, ks) BY <1>4
  <1>6. queue' = queue \o (ClearedWorkspace(f, h, a) \o ks)
    <2>1. ClearedWorkspace(f, h, a) = <<>> BY DEF ClearedWorkspace, NewRouted
    <2>2. <<>> \o ks = ks BY <1>5
    <2> QED BY <2>1, <2>2 DEF Launch
  <1>7. h.workspace # "none" =>
           a.workspace = h.workspace /\ a.slots = h.slots /\ a.producers = h.producers
    OBVIOUS
  <1>8. host' = [host EXCEPT ![f] = a] OBVIOUS
  <1> QED BY <1>2, <1>5, <1>6, <1>7, <1>8, CallRuns

\* ClearAsync, and the part of IntersectAsync that is one.
LEMMA ClearLeads ==
    ASSUME NEW m, NEW s, NEW e, Here(m, s, e), NoDevice, NEW f \in Filter,
           ClearLaunches(f), Expect(f, {})
    PROVE  Arrays' /\ ShapeInv' /\ \E d : Course(m, s, d)'
  <1>1. /\ host \in [Filter -> Object] /\ e \in State(m) /\ e.content = expected
        /\ host[f].knownEmpty => expected[f] = {}
    BY DEF Here, HostInv, Course, KnownEmptyIsEmpty
  <1>2. expected \in Content(m) BY <1>1 DEF State
  <1>3. CASE host[f].knownEmpty /\ ~host[f].exposed
    <2>1. host' = host /\ queue' = queue BY <1>3 DEF ClearLaunches
    <2>2. expected' = expected BY <1>1, <1>2, <1>3 DEF Expect, Content
    <2>3. host' = [host EXCEPT ![f] = host[f]] BY <1>1, <2>1
    <2> QED BY <2>1, <2>2, <2>3, NothingRuns
  <1>4. CASE ~(host[f].knownEmpty /\ ~host[f].exposed)
    <2> SUFFICES ASSUME NEW a, NEW k, a = ResetKnownEmpty(host[f]), k = Kernel("clear", f)
                 PROVE  Arrays' /\ ShapeInv' /\ \E d : Course(m, s, d)'
      OBVIOUS
    <2>1. Launch(<<k>>) /\ host' = [host EXCEPT ![f] = a] BY <1>4 DEF ClearLaunches
    <2>2. /\ a.workspace = host[f].workspace /\ a.slots = host[f].slots
          /\ a.producers = host[f].producers
      BY <1>1 DEF ResetKnownEmpty, Object
    <2>3. k \in Launched /\ k.op = "clear" /\ k.f = f
      <3>1. "clear" \in Kinds BY DEF Kinds
      <3> QED BY <3>1, KernelIsLaunched
    <2>4. k.op \notin RouteKinds /\ k.op \notin ApplyKinds \cup Batched \cup Queries
      BY <2>3 DEF RouteKinds, ApplyKinds, Batched, Queries, Routes, TiledApplies, CompactApplies
    <2>5. Contents(m, k, expected) = {} BY <2>3, <2>4 DEF Contents, Batched
    <2>6. Serves(m, f, k)
      <3>1. \A x \in State(m) : x.owed = {} => Ready(m, k, x) BY <2>3, <2>4 DEF Ready
      <3> QED BY <2>5, <3>1 DEF Serves, Expect
    <2> QED BY <2>1, <2>2, <2>3, <2>4, <2>6, AloneRuns
  <1> QED BY <1>3, <1>4

\* MergeAsync and IntersectAsync.
LEMMA CombineLeads ==
    ASSUME NEW m, NEW s, NEW e, Here(m, s, e), NEW f \in Filter, NEW g \in Filter,
           MergeAsync(f, g) \/ IntersectAsync(f, g)
    PROVE  Arrays' /\ ShapeInv' /\ \E d : Course(m, s, d)'
  <1>1. /\ host \in [Filter -> Object] /\ e \in State(m) /\ e.content = expected /\ NoDevice
        /\ host[f].knownEmpty => expected[f] = {}
        /\ host[g].knownEmpty => expected[g] = {}
    BY DEF Here, HostInv, Course, KnownEmptyIsEmpty, MergeAsync, IntersectAsync
  <1>2. expected \in Content(m) BY <1>1 DEF State
  <1>3. ASSUME NEW op \in {"merge", "intersect"},
               host' = [host EXCEPT ![f] = MarkDirty(host[f])],
               Launch(<<[Kernel(op, f) EXCEPT !.from = g]>>),
               Expect(f, IF op = "merge" THEN expected[f] \cup expected[g]
                         ELSE expected[f] \cap expected[g])
        PROVE  Arrays' /\ ShapeInv' /\ \E d : Course(m, s, d)'
    <2> SUFFICES ASSUME NEW a, NEW k, a = MarkDirty(host[f]), k = [Kernel(op, f) EXCEPT !.from = g]
                 PROVE  Arrays' /\ ShapeInv' /\ \E d : Course(m, s, d)'
      OBVIOUS
    <2>1. Launch(<<k>>) /\ host' = [host EXCEPT ![f] = a] BY <1>3
    <2>2. /\ a.workspace = host[f].workspace /\ a.slots = host[f].slots
          /\ a.producers = host[f].producers
      BY <1>1 DEF MarkDirty, Object
    <2>3. k \in Launched /\ k.op = op /\ k.f = f /\ k.from = g
      <3>1. op \in Kinds BY DEF Kinds
      <3>2. Kernel(op, f) \in Launched /\ Kernel(op, f).op = op /\ Kernel(op, f).f = f
        BY <3>1, KernelIsLaunched
      <3> QED BY <3>2 DEF Launched
    <2>4. k.op \notin RouteKinds /\ k.op \notin ApplyKinds \cup Batched \cup Queries
          /\ k.op \notin {"add", "add if"} \cup ApplyKinds
      BY <2>3 DEF RouteKinds, ApplyKinds, Batched, Queries, Routes, TiledApplies, CompactApplies
    <2>5. Contents(m, k, expected) = IF op = "merge" THEN expected[f] \cup expected[g]
                                     ELSE expected[f] \cap expected[g]
      BY <2>3, <2>4 DEF Contents
    <2>6. Serves(m, f, k)
      <3>1. \A x \in State(m) : x.owed = {} => Ready(m, k, x) BY <2>3, <2>4 DEF Ready
      <3> QED BY <1>3, <2>5, <3>1 DEF Serves, Expect
    <2> QED BY <1>1, <2>1, <2>2, <2>3, <2>4, <2>6, AloneRuns
  <1>4. ASSUME host' = host, queue' = queue, NEW content, Expect(f, content), content = expected[f]
        PROVE  Arrays' /\ ShapeInv' /\ \E d : Course(m, s, d)'
    <2>1. expected' = expected BY <1>2, <1>4 DEF Expect, Content
    <2>2. host' = [host EXCEPT ![f] = host[f]] BY <1>1, <1>4
    <2> QED BY <1>1, <1>4, <2>1, <2>2, NothingRuns
  <1>5. CASE MergeAsync(f, g)
    <2>1. Expect(f, expected[f] \cup expected[g]) BY <1>5 DEF MergeAsync
    <2>2. CASE f = g \/ host[g].knownEmpty
      <3>1. host' = host /\ queue' = queue BY <1>5, <2>2 DEF MergeAsync
      <3>2. expected[f] \cup expected[g] = expected[f] BY <1>1, <2>2
      <3> QED BY <1>4, <2>1, <3>1, <3>2
    <2>3. CASE ~(f = g \/ host[g].knownEmpty)
      <3>1. /\ host' = [host EXCEPT ![f] = MarkDirty(host[f])]
            /\ Launch(<<[Kernel("merge", f) EXCEPT !.from = g]>>)
        BY <1>5, <2>3 DEF MergeAsync
      <3> QED BY <1>3, <2>1, <3>1
    <2> QED BY <2>2, <2>3
  <1>6. CASE IntersectAsync(f, g)
    <2>1. Expect(f, expected[f] \cap expected[g]) BY <1>6 DEF IntersectAsync
    <2>2. CASE f = g
      <3>1. host' = host /\ queue' = queue BY <1>6, <2>2 DEF IntersectAsync
      <3>2. expected[f] \cap expected[g] = expected[f] BY <2>2
      <3> QED BY <1>4, <2>1, <3>1, <3>2
    <2>3. CASE f # g /\ (host[f].knownEmpty \/ host[g].knownEmpty)
      <3>1. ClearLaunches(f) BY <1>6, <2>3 DEF IntersectAsync
      <3>2. expected[f] \cap expected[g] = {} BY <1>1, <2>3
      <3>3. Expect(f, {}) BY <2>1, <3>2
      <3> QED BY <1>1, <3>1, <3>3, ClearLeads
    <2>4. CASE f # g /\ ~(host[f].knownEmpty \/ host[g].knownEmpty)
      <3>1. /\ host' = [host EXCEPT ![f] = MarkDirty(host[f])]
            /\ Launch(<<[Kernel("intersect", f) EXCEPT !.from = g]>>)
        BY <1>6, <2>4 DEF IntersectAsync
      <3> QED BY <1>3, <2>1, <3>1
    <2> QED BY <2>2, <2>3, <2>4
  <1> QED BY <1>5, <1>6

\* An element of a sequence.
LEMMA Member == ASSUME NEW S, NEW q \in Seq(S), NEW i \in 1..Len(q) PROVE q[i] \in S
  OBVIOUS

\* ContainsAsync and ContainsIfAsync: what is promised is what the kernel will see.
LEMMA QueryLeads ==
    ASSUME Sound, NEW m, NEW s, NEW e, Here(m, s, e), NEW c \in Calls,
           NEW op \in {"contains", "contains if"}, op = c.op, Query(op, c.f, c)
    PROVE  Arrays' /\ ShapeInv' /\ \E d : Course(m, s, d)'
  <1> SUFFICES ASSUME NEW f, f = c.f, NEW kind, kind = IF host[f].knownEmpty THEN "zeros" ELSE op
               PROVE  Arrays' /\ ShapeInv' /\ \E d : Course(m, s, d)'
    OBVIOUS
  <1>1. /\ CallsOK /\ f \in Filter /\ c.keys \in Seq(Key) /\ c.sel \in Seq(BOOLEAN)
        /\ Len(c.keys) \in Nat /\ DOMAIN c.keys = 1..Len(c.keys) /\ Len(c.sel) = Len(c.keys)
        /\ op = "contains" => \A i \in 1..Len(c.keys) : c.sel[i]
    <2>1. CallsOK BY DEF Sound
    <2>2. f \in Filter /\ c.keys \in Seq(Key) /\ c.sel \in Seq(BOOLEAN)
          /\ Len(c.sel) = Len(c.keys)
      BY <2>1 DEF CallsOK
    <2>3. op = "contains" => c.op \notin {"add if", "contains if"} OBVIOUS
    <2>4. op = "contains" => \A i \in 1..Len(c.keys) : c.sel[i] BY <2>1, <2>3 DEF CallsOK
    <2> QED BY <2>1, <2>2, <2>4, LenProperties
  <1>2. /\ host \in [Filter -> Object] /\ e \in State(m) /\ e.content = expected /\ m = Marks
        /\ host[f].knownEmpty => expected[f] = {}
    BY <1>1 DEF Here, HostInv, Course, KnownEmptyIsEmpty
  <1>3. expected \in Content(m) BY <1>2 DEF State
  <1> SUFFICES ASSUME NEW k, k = [Kernel(kind, f) EXCEPT !.keys = c.keys, !.sel = c.sel,
                                                         !.want = Wanted(f, c)]
               PROVE  Arrays' /\ ShapeInv' /\ \E d : Course(m, s, d)'
    OBVIOUS
  <1>4. /\ Launch(<<k>>) /\ host' = host /\ expected' = expected /\ NoDevice
    BY DEF Query
  <1>5. Wanted(f, c) = [i \in DOMAIN c.keys |-> c.sel[i] /\ m[c.keys[i]] \subseteq expected[f]]
    <2> DEFINE L(i) == c.sel[i] /\ BitsOf(c.keys[i]) \subseteq expected[f]
               R(i) == c.sel[i] /\ m[c.keys[i]] \subseteq expected[f]
    <2>1. \A i \in DOMAIN c.keys : L(i) = R(i)
      <3> SUFFICES ASSUME NEW i \in DOMAIN c.keys PROVE L(i) = R(i) OBVIOUS
      <3>1. c.keys[i] \in Key
        <4>1. c.keys \in Seq(Key) /\ i \in 1..Len(c.keys) BY <1>1
        <4> QED BY ONLY <4>1, Member
      <3>2. m[c.keys[i]] = BitsOf(c.keys[i]) BY <1>2, <3>1 DEF Marks
      <3> QED BY <3>2
    <2> HIDE DEF L, R
    <2>2. [i \in DOMAIN c.keys |-> L(i)] = [i \in DOMAIN c.keys |-> R(i)] BY ONLY <2>1
    <2> QED BY <2>2 DEF L, R, Wanted
  <1>6. Wanted(f, c) \in Seq(BOOLEAN)
    <2>1. \A i \in 1..Len(c.keys) : (c.sel[i] /\ m[c.keys[i]] \subseteq expected[f]) \in BOOLEAN
      OBVIOUS
    <2>2. Wanted(f, c) \in [1..Len(c.keys) -> BOOLEAN] BY <1>1, <1>5, <2>1
    <2>3. \E n \in Nat : Wanted(f, c) \in [1..n -> BOOLEAN] BY <1>1, <2>2
    <2>4. \A x : (\E n \in Nat : x \in [1..n -> BOOLEAN]) => x \in Seq(BOOLEAN) BY SeqDef
    <2> QED BY ONLY <2>3, <2>4
  <1>7. /\ k \in Launched /\ k.op = kind /\ k.f = f /\ k.keys = c.keys /\ k.sel = c.sel
        /\ k.want = Wanted(f, c) /\ kind \in Queries
    <2>1. kind \in Kinds BY DEF Kinds
    <2>2. Kernel(kind, f) \in Launched /\ Kernel(kind, f).op = kind /\ Kernel(kind, f).f = f
      BY <1>1, <2>1, KernelIsLaunched, ZenonT(60)
    <2>3. kind \in Queries BY DEF Queries
    <2>4. k = [Kernel(kind, f) EXCEPT !.keys = c.keys, !.sel = c.sel, !.want = Wanted(f, c)]
      OBVIOUS
    <2> QED BY ONLY <1>1, <1>6, <2>2, <2>3, <2>4 DEF Launched
  <1>8. k.op \notin RouteKinds /\ k.op \notin ApplyKinds \cup Batched
        /\ k.op \notin {"add", "add if"} \cup ApplyKinds /\ k.op # "route"
        /\ k.op \notin {"clear", "merge", "intersect"}
    BY <1>7 DEF RouteKinds, ApplyKinds, Batched, Queries, Routes, TiledApplies, CompactApplies
  <1>9. Contents(m, k, expected) = expected[f] BY <1>7, <1>8, Zenon DEF Contents
  <1>10. ASSUME NEW x \in State(m), x.content = expected, x.owed = {} PROVE Ready(m, k, x)
    <2>1. k.want = Answers(m, k, x.content[k.f])
      <3>1. k.keys = c.keys /\ k.sel = c.sel /\ k.want = Wanted(f, c) BY <1>7
      <3>2. x.content[k.f] = expected[f] BY <1>7, <1>10
      <3> QED BY ONLY <1>5, <3>1, <3>2 DEF Answers
    <2>2. k.op = "zeros" => x.content[k.f] = {} BY <1>2, <1>7, <1>10
    <2>3. k.op = "contains" => \A i \in 1..Len(k.keys) : k.sel[i]
      <3>1. k.op = "contains" => op = "contains"
        <4>1. k.op = kind BY <1>7
        <4>2. kind \in {"zeros", op} OBVIOUS
        <4> QED BY ONLY <4>1, <4>2
      <3> QED BY <1>1, <1>7, <3>1
    <2> QED BY <1>1, <1>7, <1>8, <1>10, <2>1, <2>2, <2>3, Zenon DEF Ready
  <1>11. Serves(m, f, k)
    <2>1. expected' = [expected EXCEPT ![f] = expected[f]] BY <1>3, <1>4 DEF Content
    <2> QED BY <1>9, <1>10, <2>1 DEF Serves
  <1>12. host' = [host EXCEPT ![f] = host[f]] BY <1>2, <1>4
  <1> QED BY <1>1, <1>4, <1>7, <1>8, <1>11, <1>12, AloneRuns

\* Data: the pointer alone changes nothing.
LEMMA DataLeads ==
    ASSUME NEW m, NEW s, NEW e, Here(m, s, e), NEW f \in Filter, Data(f)
    PROVE  Arrays' /\ ShapeInv' /\ \E d : Course(m, s, d)'
  <1> SUFFICES ASSUME NEW a, a = [MarkDirty(host[f]) EXCEPT !.exposed = TRUE]
               PROVE  Arrays' /\ ShapeInv' /\ Course(m, s, e)'
    OBVIOUS
  <1>1. host[f] \in Object BY DEF Here, HostInv
  <1>2. /\ a.workspace = host[f].workspace /\ a.slots = host[f].slots
        /\ a.producers = host[f].producers
    BY <1>1 DEF MarkDirty, Object
  <1>3. host' = [host EXCEPT ![f] = a] /\ queue' = queue /\ expected' = expected /\ NoDevice
    BY DEF Data
  <1> QED BY <1>2, <1>3, NothingRuns

\* When nothing is under way, the filters hold what they are to hold.
LEMMA NothingUnderWay ==
    ASSUME NEW m, NEW s, NEW e, Here(m, s, e), queue = <<>>
    PROVE  /\ s \in State(m) /\ bits = expected /\ s.content = bits /\ s.owed = {}
           /\ threads = <<>> /\ local = <<>> /\ bits \in Content(m)
           /\ \A g \in Filter : host[g].workspace = "routed" => s.zero[g] /\ Zero(g)
           /\ \A g \in Filter : s.zero[g] => Zero(g)
  <1>1. /\ s \in State(m) /\ Leads(m, s, queue, e) /\ e.content = expected /\ e.owed = {}
        /\ \A g \in Filter : host[g].workspace = "routed" => e.zero[g]
        /\ Progress(m, s.content) /\ ZerosAreTrue(s)
    BY DEF Here, Course
  <1>2. e = s BY <1>1, LeadsNowhere
  <1>3. threads = <<>> /\ local = <<>> /\ bits = s.content BY <1>1 DEF Progress, Fresh
  <1>4. \A g \in Filter : s.zero[g] => Zero(g) BY <1>1, <1>3 DEF ZerosAreTrue
  <1>5. s.content \in Content(m) BY <1>1 DEF State
  <1> QED BY <1>1, <1>2, <1>3, <1>4, <1>5

\* What the stream, with nothing under way, needs to be in order.
LEMMA Resting ==
    ASSUME NEW m, queue' = <<>>, threads' = <<>>, local' = <<>>, bits' \in Content(m),
           expected' = bits',
           NEW zero \in [Filter -> BOOLEAN],
           \A g \in Filter : host'[g].workspace = "routed" => zero[g],
           \A g \in Filter : zero[g] => Zero(g)'
    PROVE  ShapeInv' /\ \E d : Course(m, d, d)'
  <1> SUFFICES ASSUME NEW d, d = [content |-> bits', owed |-> {}, zero |-> zero]
               PROVE  ShapeInv' /\ Course(m, d, d)'
    OBVIOUS
  <1>1. d \in State(m) /\ d.content = bits' /\ d.owed = {} /\ d.zero = zero BY DEF State
  <1>2. Leads(m, d, queue, d)'
    <2>1. Leads(m, d, queue, d)' = Leads(m, d, queue', d) BY DEF Leads
    <2> QED BY <1>1, <2>1, LeadsNowhere
  <1>3. Progress(m, d.content)' BY <1>1 DEF Progress, Fresh
  <1>4. ZerosAreTrue(d)' BY <1>1 DEF ZerosAreTrue
  <1>5. ShapeInv'
    <2>1. DOMAIN <<>> = {} OBVIOUS
    <2> QED BY <2>1 DEF ShapeInv, Gathering
  <1> QED BY <1>1, <1>2, <1>3, <1>4, <1>5 DEF Course

\* A write of the caller's own, between kernels.
LEMMA WriteLeads ==
    ASSUME NEW m, NEW s, NEW e, Here(m, s, e), NEW f \in Filter, NEW k \in Key, WriteThrough(f, k)
    PROVE  Arrays' /\ ShapeInv' /\ \E d : Course(m, d, d)'
  <1>1. /\ queue = <<>> /\ queue' = queue /\ layout' = layout /\ host' = host
        /\ threads' = threads /\ local' = local /\ counters' = counters /\ slots' = slots
        /\ counts' = counts /\ records' = records /\ selected' = selected
        /\ bits' = [bits EXCEPT ![f] = bits[f] \cup BitsOf(k)]
        /\ expected' = [expected EXCEPT ![f] = expected[f] \cup BitsOf(k)]
    BY DEF WriteThrough, Expect, running, workspace
  <1>2. /\ s \in State(m) /\ bits = expected /\ threads = <<>> /\ local = <<>>
        /\ bits \in Content(m)
        /\ \A g \in Filter : host[g].workspace = "routed" => s.zero[g]
        /\ \A g \in Filter : s.zero[g] => Zero(g)
    BY <1>1, NothingUnderWay
  <1>3. Arrays /\ m = Marks BY DEF Here
  <1>4. Arrays' BY <1>1, <1>3, ArraysStay DEF Arrays
  <1>5. bits' \in Content(m)
    <2>1. BitsOf(k) = m[k] BY <1>3 DEF Marks
    <2>2. BitsOf(k) \subseteq UNION {m[x] : x \in Key} BY <2>1
    <2> QED BY <1>1, <1>2, <2>2 DEF Content
  <1>6. expected' = bits' BY <1>1, <1>2
  <1>7. s.zero \in [Filter -> BOOLEAN] BY <1>2 DEF State
  <1>8. \A g \in Filter : s.zero[g] => Zero(g)' BY <1>1, <1>2, ZerosStay
  <1>9. \A g \in Filter : host'[g].workspace = "routed" => s.zero[g] BY <1>1, <1>2
  <1>10. queue' = <<>> /\ threads' = <<>> /\ local' = <<>> BY <1>1, <1>2
  <1>11. ShapeInv' /\ \E d : Course(m, d, d)'
    BY <1>5, <1>6, <1>7, <1>8, <1>9, <1>10, Resting
  <1> QED BY <1>4, <1>11

\* Two entries of an array exchanged, or one replaced.
LEMMA TakenOver ==
    ASSUME NEW S, NEW x \in [Filter -> S], NEW f \in Filter, NEW g \in Filter, f # g,
           NEW fresh \in S
    PROVE  Taken(x, f, g, fresh) \in [Filter -> S]
  BY DEF Taken

\* A move, with nothing under way.
LEMMA MoveLeads ==
    ASSUME Sound, NEW m, NEW s, NEW e, Here(m, s, e), NEW f \in Filter, NEW g \in Filter,
           Move(f, g)
    PROVE  Arrays' /\ ShapeInv' /\ \E d : Course(m, d, d)'
  <1>1. /\ f # g /\ queue = <<>> /\ queue' = queue /\ layout' = layout
        /\ host' = Taken(host, f, g, Released) /\ bits' = Taken(bits, f, g, {})
        /\ expected' = Taken(expected, f, g, {})
        /\ counters' = Taken(counters, f, g, counters[f])
        /\ counts' = Taken(counts, f, g, counts[f])
        /\ threads' = threads /\ local' = local /\ slots' = slots /\ records' = records
        /\ selected' = selected
    BY DEF Move, running
  <1>2. /\ bits = expected /\ threads = <<>> /\ local = <<>> /\ bits \in Content(m)
        /\ \A x \in Filter : host[x].workspace = "routed" => Zero(x)
    BY <1>1, NothingUnderWay
  <1>3. /\ Arrays /\ m = Marks /\ host \in [Filter -> Object]
        /\ counters \in [Filter -> [Block -> Nat]] /\ Block' = Block
    BY <1>1, Rigid DEF Here, HostInv, StreamInv
  <1>4. Released \in Object /\ Released.workspace = "none" /\ Released.slots = 0
        /\ Released.producers = 0
    BY DEF Released, Constructed, Object
  <1>5. /\ host'[f] = host[g] /\ host'[g] = Released
        /\ \A x \in Filter : x # f /\ x # g => host'[x] = host[x]
    <2>1. host' = [host EXCEPT ![f] = host[g], ![g] = Released] BY <1>1 DEF Taken
    <2> QED BY <1>1, <1>3, <2>1
  <1>6. /\ counters'[f] = counters[g]
        /\ \A x \in Filter : x # f /\ x # g => counters'[x] = counters[x]
    <2>1. counters' = [counters EXCEPT ![f] = counters[g], ![g] = counters[f]] BY <1>1 DEF Taken
    <2> QED BY <1>1, <1>3, <2>1
  <1>7. Arrays'
    <2>1. \A x \in Filter : Tidy(host'[x])
      <3>1. Tidy(Released)
        <4>1. MaxSlots \in Nat /\ Cores \in Nat BY DEF Sound, WorkersOK
        <4> QED BY <1>4, <4>1 DEF Tidy
      <3>2. \A x \in Filter : Tidy(host[x]) BY <1>3 DEF Arrays
      <3> QED BY <1>5, <3>1, <3>2
    <2>2. \A x \in Filter : Tidy(host[x])' = Tidy(host'[x]) BY <1>1 DEF Tidy
    <2>3. counts' \in [Filter -> [Bucket -> [0..(Cores - 1) -> Nat]]]
      <3>1. counts \in [Filter -> [Bucket -> [0..(Cores - 1) -> Nat]]] BY <1>3 DEF Arrays
      <3>2. counts[f] \in [Bucket -> [0..(Cores - 1) -> Nat]] BY <3>1
      <3>3. f \in Filter /\ g \in Filter /\ f # g BY <1>1
      <3>4. Taken(counts, f, g, counts[f]) \in [Filter -> [Bucket -> [0..(Cores - 1) -> Nat]]]
        BY ONLY <3>1, <3>2, <3>3, TakenOver
      <3> QED BY <1>1, <3>4
    <2> QED BY <1>1, <1>3, <2>1, <2>2, <2>3 DEF Arrays
  <1>8. bits' \in Content(m)
    <2> DEFINE C == SUBSET UNION {m[x] : x \in Key}
    <2>1. bits \in [Filter -> C] /\ {} \in C BY <1>2 DEF Content
    <2> HIDE DEF C
    <2>2. f \in Filter /\ g \in Filter /\ f # g BY <1>1
    <2>3. Taken(bits, f, g, {}) \in [Filter -> C] BY ONLY <2>1, <2>2, TakenOver
    <2> QED BY <1>1, <2>3 DEF Content, C
  <1>9. expected' = bits' BY <1>1, <1>2
  <1> SUFFICES ASSUME NEW zero, zero = [x \in Filter |-> host'[x].workspace = "routed"]
               PROVE  Arrays' /\ ShapeInv' /\ \E d : Course(m, d, d)'
    OBVIOUS
  <1>10. zero \in [Filter -> BOOLEAN] /\ \A x \in Filter : zero[x] <=> host'[x].workspace = "routed"
    OBVIOUS
  <1>11. ASSUME NEW x \in Filter, zero[x] PROVE Zero(x)'
    <2>1. host'[x].workspace = "routed" BY <1>10, <1>11
    <2>2. CASE x = f
      <3>1. Zero(g) BY <1>2, <1>5, <2>1, <2>2
      <3> QED BY <1>3, <1>6, <2>2, <3>1 DEF Zero
    <2>3. CASE x # f
      <3>1. x # g BY <1>4, <1>5, <2>1
      <3>2. Zero(x) BY <1>2, <1>5, <2>1, <2>3, <3>1
      <3> QED BY <1>3, <1>6, <2>3, <3>1, <3>2 DEF Zero
    <2> QED BY <2>2, <2>3
  <1>12. queue' = <<>> /\ threads' = <<>> /\ local' = <<>> BY <1>1, <1>2
  <1>13. ShapeInv' /\ \E d : Course(m, d, d)'
    BY <1>8, <1>9, <1>10, <1>11, <1>12, Resting
  <1> QED BY <1>7, <1>13

\* Every call leads the filters to what they are to hold after it.
LEMMA HostLeads ==
    ASSUME Sound, NEW m, NEW s, NEW e, Here(m, s, e), NEW c \in Calls, Host(c)
    PROVE  Arrays' /\ ShapeInv' /\ \E x, d : Course(m, x, d)'
  <1> DEFINE Goes == Arrays' /\ ShapeInv' /\ \E x, d : Course(m, x, d)'
  <1>1. CallsOK BY DEF Sound
  <1>2. c.f \in Filter /\ c.from \in Filter /\ c.keys \in Seq(Key) BY <1>1 DEF CallsOK
  <1>3. ASSUME AddAsync(c.f, c) PROVE Goes BY <1>3, AddLeads
  <1>4. ASSUME AddIfAsync(c.f, c) PROVE Goes BY <1>4, AddIfLeads
  <1>5. ASSUME ClearAsync(c.f) PROVE Goes
    <2>1. ClearLaunches(c.f) /\ Expect(c.f, {}) /\ NoDevice BY <1>5 DEF ClearAsync
    <2> QED BY <1>2, <2>1, ClearLeads
  <1>6. ASSUME MergeAsync(c.f, c.from) \/ IntersectAsync(c.f, c.from) PROVE Goes
    BY <1>2, <1>6, CombineLeads
  <1>7. ASSUME c.op \in {"contains", "contains if"}, Query(c.op, c.f, c) PROVE Goes
    BY <1>7, QueryLeads
  <1>8. ASSUME Data(c.f) PROVE Goes BY <1>2, <1>8, DataLeads
  <1>9. ASSUME NEW k \in Range(c.keys), WriteThrough(c.f, k) PROVE Goes
    <2>1. k \in Key
      <3>1. PICK i \in DOMAIN c.keys : k = c.keys[i] BY DEF Range
      <3>2. DOMAIN c.keys = 1..Len(c.keys) BY <1>2
      <3>3. c.keys \in Seq(Key) /\ i \in 1..Len(c.keys) BY <1>2, <3>2
      <3>4. c.keys[i] \in Key BY ONLY <3>3, Member
      <3> QED BY <3>1, <3>4
    <2> QED BY <1>2, <1>9, <2>1, WriteLeads
  <1>10. ASSUME Move(c.f, c.from) PROVE Goes BY <1>2, <1>10, MoveLeads
  <1> HIDE DEF Goes
  <1>11. Goes
    BY <1>3, <1>4, <1>5, <1>6, <1>7, <1>8, <1>9, <1>10 DEF Host, ContainsAsync, ContainsIfAsync
  <1> QED BY <1>11 DEF Goes

--------------------------------------------------------------------------------
(* Every step. *)

\* Every step of a kernel keeps the filters on course.
LEMMA DeviceLeads ==
    ASSUME Sound, NEW m, NEW s, NEW e, Here(m, s, e), Device
    PROVE  Arrays' /\ ShapeInv' /\ \E d : Course(m, d, e)'
  <1> DEFINE Goes == Arrays' /\ \E d : Course(m, d, e)'
  <1>1. ASSUME ClearSimt \/ ResetFlag \/ CombineSimt \/ ContainsSimt PROVE Goes
    BY <1>1, OneStepKernels
  <1>2. ASSUME ClearWorkspace PROVE Goes BY <1>2, WorkspaceCleared
  <1>3. ASSUME AddSimt PROVE Goes BY <1>3, AddBegins
  <1>4. ASSUME EndAdd PROVE Goes BY <1>4, AddEnds
  <1>5. ASSUME RoutePackedH8V1 PROVE Goes BY <1>5, RouteBegins
  <1>6. ASSUME EndRoute PROVE Goes BY <1>6, RouteIsDone
  <1>7. ASSUME ApplyPackedH8V1 PROVE Goes BY <1>7, RouteIsApplied
  <1>8. ASSUME RoutePrivateH8V1 \/ RoutePrivateH8V1If PROVE Goes BY <1>8, PrivateBegins
  <1>9. ASSUME EndPrivateRoute PROVE Goes BY <1>9, PrivateIsDone
  <1>10. ASSUME SkipApply PROVE Goes BY <1>10, ApplySkipped
  <1>11. ASSUME BeginApply PROVE Goes BY <1>11, ApplyBegins
  <1>12. ASSUME CombineTiled \/ CombineCompact PROVE Goes BY <1>12, TileCombined
  <1>13. ASSUME NEW t, Simt(t) PROVE Goes
    <2>1. ASSUME AddPackedPairs(t) PROVE Goes BY <2>1, PairsAdded
    <2>2. ASSUME AddWord(t) PROVE Goes BY <2>2, WordsAdded
    <2>3. ASSUME RouteTicket(t) PROVE Goes BY <2>3, RouteTakes
    <2>4. ASSUME CommitRouted(t) PROVE Goes BY <2>4, RouteCommits
    <2>5. ASSUME AddTicket(t) \/ Observe(t) \/ OverflowIsSet(t) \/ CasTicket(t) PROVE Goes
      BY <2>5, PrivateTickets
    <2>6. ASSUME CommitPrivate(t) PROVE Goes BY <2>6, PrivateCommits
    <2> HIDE DEF Goes
    <2> QED BY <1>13, <2>1, <2>2, <2>3, <2>4, <2>5, <2>6 DEF Simt
  <1>14. ASSUME Gathering(TiledApplies \cup CompactApplies), NEW r \in local.left,
                GatherTiled(r) \/ GatherCompact(r)
         PROVE  Goes
    <2>1. Gathering(Applies) BY <1>14 DEF Applies
    <2> QED BY <1>14, <2>1, RecordGathered
  <1> HIDE DEF Goes
  <1>15. Goes
    BY <1>1, <1>2, <1>3, <1>4, <1>5, <1>6, <1>7, <1>8, <1>9, <1>10, <1>11, <1>12, <1>13, <1>14
       DEF Device
  <1>16. ShapeInv' BY DeviceKeepsShape DEF Here
  <1> QED BY <1>15, <1>16 DEF Goes

\* A step of nobody.
LEMMA NobodyLeads ==
    ASSUME NEW m, NEW s, NEW e, Here(m, s, e), UNCHANGED vars
    PROVE  Arrays' /\ ShapeInv' /\ \E x, d : Course(m, x, d)'
  <1>1. /\ layout' = layout /\ host' = host /\ queue' = queue /\ threads' = threads
        /\ local' = local /\ bits' = bits /\ counters' = counters /\ slots' = slots
        /\ counts' = counts /\ records' = records /\ selected' = selected
        /\ expected' = expected
    BY DEF vars, running, workspace
  <1>2. CASE queue # <<>>
    <2> SUFFICES ASSUME NEW f, f = Head(queue).f, NEW a, a = host[f]
                 PROVE  Arrays' /\ ShapeInv' /\ Course(m, s, e)'
      OBVIOUS
    <2>1. f \in Filter /\ host \in [Filter -> Object]
      BY <1>2, Beginning DEF Here, HostInv
    <2>2. /\ a.workspace = host[f].workspace /\ a.slots = host[f].slots
          /\ a.producers = host[f].producers
          /\ host' = [host EXCEPT ![f] = a] /\ NoDevice
      BY <1>1, <2>1 DEF NoDevice, running, workspace
    <2> QED BY <1>1, <2>1, <2>2, NothingRuns
  <1>3. CASE queue = <<>>
    <2>1. /\ s \in State(m) /\ bits = expected /\ threads = <<>> /\ local = <<>>
          /\ bits \in Content(m)
          /\ \A g \in Filter : host[g].workspace = "routed" => s.zero[g]
          /\ \A g \in Filter : s.zero[g] => Zero(g)
      BY <1>3, NothingUnderWay
    <2>2. Arrays' BY <1>1, ArraysStay DEF Here, Arrays
    <2>3. s.zero \in [Filter -> BOOLEAN] BY <2>1 DEF State
    <2>4. \A g \in Filter : s.zero[g] => Zero(g)' BY <1>1, <2>1, ZerosStay
    <2>5. /\ queue' = <<>> /\ threads' = <<>> /\ local' = <<>> /\ bits' \in Content(m)
          /\ expected' = bits'
          /\ \A g \in Filter : host'[g].workspace = "routed" => s.zero[g]
      BY <1>1, <1>3, <2>1
    <2>6. ShapeInv' /\ \E d : Course(m, d, d)' BY <2>3, <2>4, <2>5, Resting
    <2> QED BY <2>2, <2>6
  <1> QED BY <1>2, <1>3

\* The layout is chosen once.
LEMMA LayoutStays == ASSUME [Next]_vars PROVE layout' = layout
  <1>1. ASSUME NEW c, Host(c) PROVE layout' = layout
    BY <1>1 DEF Host, AddAsync, AddIfAsync, ClearAsync, MergeAsync, IntersectAsync, ContainsAsync,
                ContainsIfAsync, Query, Data, WriteThrough, Move, NoDevice
  <1>2. KeepQueue \/ Finish => layout' = layout BY DEF KeepQueue, Finish, KeepHost
  <1>3. CASE Device
    <2>1. Device => KeepQueue \/ Finish
      <3>1. ASSUME NEW t, Simt(t) PROVE KeepQueue
        BY <3>1 DEF Simt, AddPackedPairs, AddWord, RouteTicket, CommitRouted, AddTicket, Observe,
                    OverflowIsSet, CasTicket, CommitPrivate
      <3>2. ASSUME NEW r, GatherTiled(r) \/ GatherCompact(r) PROVE KeepQueue
        BY <3>2 DEF GatherTiled, GatherCompact
      <3> QED
        BY <3>1, <3>2
           DEF Device, ClearSimt, ClearWorkspace, ResetFlag, CombineSimt, ContainsSimt, AddSimt,
               EndAdd, RoutePackedH8V1, EndRoute, ApplyPackedH8V1, RoutePrivateH8V1,
               RoutePrivateH8V1If, EndPrivateRoute, SkipApply, BeginApply, CombineTiled,
               CombineCompact, Onwards
    <2> QED BY <1>2, <1>3, <2>1
  <1>4. CASE UNCHANGED vars BY <1>4 DEF vars
  <1> QED BY <1>1, <1>3, <1>4 DEF Next

\* The filters begin empty, and are to.
LEMMA InitLeads ==
    ASSUME Sound, Init
    PROVE  Arrays /\ ShapeInv /\ \E d : Course(Marks, d, d)
  <1>1. /\ layout \in Layouts /\ host = [f \in Filter |-> Constructed]
        /\ queue = <<>> /\ threads = <<>> /\ local = <<>>
        /\ bits = [f \in Filter |-> {}] /\ expected = bits
        /\ slots = [f \in Filter |-> [b \in Block |-> [x \in 0..(MaxSlots - 1) |-> Stale]]]
        /\ counts = [f \in Filter |-> [b \in Bucket |-> [p \in 0..(Cores - 1) |-> 1]]]
        /\ records = [f \in Filter |-> <<>>]
        /\ selected = [f \in Filter |-> FALSE]
    BY DEF Init
  <1>2. Constructed.workspace = "none" /\ Constructed.slots = 0 /\ Constructed.producers = 0
    BY DEF Constructed
  <1>3. Arrays
    <2>1. Tidy(Constructed)
      <3>1. MaxSlots \in Nat /\ Cores \in Nat BY DEF Sound, WorkersOK
      <3> QED BY <1>2, <3>1 DEF Tidy
    <2>2. \A f \in Filter : Tidy(host[f]) BY <1>1, <2>1
    <2>3. Stale \in Int BY DEF Stale
    <2>4. slots \in [Filter -> [Block -> [0..(MaxSlots - 1) -> Int]]] BY <1>1, <2>3
    <2>5. counts \in [Filter -> [Bucket -> [0..(Cores - 1) -> Nat]]] BY <1>1
    <2> QED BY <1>1, <2>2, <2>4, <2>5 DEF Arrays
  <1>4. ShapeInv
    <2>1. DOMAIN <<>> = {} OBVIOUS
    <2> QED BY <1>1, <2>1 DEF ShapeInv, Gathering, Running
  <1> SUFFICES ASSUME NEW m, m = Marks, NEW d,
                      d = [content |-> bits, owed |-> {}, zero |-> [f \in Filter |-> FALSE]]
               PROVE  Course(m, d, d)
    BY <1>3, <1>4
  <1>5. bits \in Content(m) BY <1>1 DEF Content
  <1>6. d \in State(m) /\ d.content = bits /\ d.owed = {} /\ \A f \in Filter : ~d.zero[f]
    BY <1>5 DEF State
  <1>7. Leads(m, d, queue, d) BY <1>1, <1>6, LeadsNowhere
  <1>8. Progress(m, d.content) BY <1>1, <1>6 DEF Progress, Fresh
  <1>9. ZerosAreTrue(d) BY <1>6 DEF ZerosAreTrue
  <1>10. \A f \in Filter : host[f].workspace # "routed" BY <1>1, <1>2
  <1> QED BY <1>1, <1>6, <1>7, <1>8, <1>9, <1>10 DEF Course

\* The inductive invariant.
FilterInv == HostInv /\ StreamInv /\ ShapeInv /\ Arrays /\ \E s, e : Course(Marks, s, e)

\* The filters are on course in every behaviour.
LEMMA FiltersStayOnCourse == ASSUME Sound PROVE Spec => []FilterInv
  <1>1. Init => FilterInv
    <2> SUFFICES ASSUME Init PROVE FilterInv OBVIOUS
    <2>1. HostInv /\ StreamInv BY InitKeeps DEF Sound
    <2> QED BY <2>1, InitLeads DEF FilterInv
  <1>2. FilterInv /\ [Next]_vars => FilterInv'
    <2> SUFFICES ASSUME FilterInv, [Next]_vars PROVE FilterInv' OBVIOUS
    <2>1. HostInv' /\ StreamInv' BY NextKeeps DEF Sound, FilterInv
    <2> SUFFICES ASSUME NEW m, m = Marks, NEW s, NEW e, Course(m, s, e) PROVE FilterInv'
      BY DEF FilterInv
    <2>2. Here(m, s, e) BY DEF FilterInv, Here
    <2>3. Arrays' /\ ShapeInv' /\ \E x, d : Course(m, x, d)'
      <3>1. ASSUME NEW c \in Calls, Host(c)
            PROVE  Arrays' /\ ShapeInv' /\ \E x, d : Course(m, x, d)'
        BY <2>2, <3>1, HostLeads
      <3>2. CASE Device BY <2>2, <3>2, DeviceLeads
      <3>3. CASE UNCHANGED vars BY <2>2, <3>3, NobodyLeads
      <3> QED BY <3>1, <3>2, <3>3 DEF Next
    <2>4. m = Marks' BY LayoutStays, Rigid
    <2>5. (\E s1, e1 : Course(Marks, s1, e1))'
      <3>1. PICK x, d : Course(m, x, d)' BY <2>3
      <3>2. Course(Marks, x, d)' BY <2>4, <3>1 DEF Course
      <3> QED BY <3>2
    <2> QED BY <2>1, <2>3, <2>5 DEF FilterInv
  <1> QED BY <1>1, <1>2, PTL DEF Spec

\* What the marks of the keys may be.
LEMMA MarksAreBits ==
    ASSUME HashesOK, PolicyOK
    PROVE  Content(Marks) \subseteq [Filter -> SUBSET Bit]
  <1>1. \A k \in Key : BitsOf(k) \subseteq Bit BY Marked
  <1> QED BY <1>1 DEF Content, Marks

\* However far a kernel is, the filters hold bits of keys.
LEMMA BitsOfKeys ==
    ASSUME NEW m, NEW s, NEW e, StreamInv, Course(m, s, e)
    PROVE  /\ bits \in Content(m) /\ expected \in Content(m)
           /\ queue = <<>> => threads = <<>>
  <1>1. s \in State(m) /\ e \in State(m) /\ e.content = expected /\ Progress(m, s.content)
    BY DEF Course
  <1>2. s.content \in Content(m) /\ expected \in Content(m) BY <1>1 DEF State
  <1>3. Fresh(s.content) => bits \in Content(m) /\ threads = <<>> BY <1>2 DEF Fresh
  <1>4. CASE queue = <<>> BY <1>1, <1>2, <1>3, <1>4 DEF Progress
  <1>5. CASE queue # <<>>
    <2> DEFINE k == Head(queue)
    <2>1. \A over : Between(m, k, s.content, bits, over) => bits \in Content(m) BY DEF Between
    <2>2. Around(m, k, s.content, bits) => bits \in Content(m) BY DEF Around
    <2>3. AddGoing(m, k, s.content) => bits \in Content(m) BY <2>1 DEF AddGoing
    <2>4. RouteGoing(m, k, s.content) => bits \in Content(m) BY <2>1 DEF RouteGoing
    <2>5. RouteDone(m, k, s.content) => bits \in Content(m) BY <2>1 DEF RouteDone
    <2>6. PrivateGoing(m, k, s.content) => bits \in Content(m) BY <2>1 DEF PrivateGoing
    <2>7. PrivateDone(m, k, s.content) => bits \in Content(m) BY <2>1 DEF PrivateDone
    <2>8. ApplyGoing(m, k, s.content) => bits \in Content(m) BY <2>2 DEF ApplyGoing, ApplyAt
    <2> HIDE DEF k
    <2>9. /\ k.op \in {"add", "add if"} => Fresh(s.content) \/ AddGoing(m, k, s.content)
          /\ k.op = "route" => Fresh(s.content) \/ RouteGoing(m, k, s.content)
          /\ k.op = "apply" => RouteDone(m, k, s.content)
          /\ k.op \in Routes => Fresh(s.content) \/ PrivateGoing(m, k, s.content)
          /\ k.op \in TiledApplies \cup CompactApplies =>
              PrivateDone(m, k, s.content) \/ ApplyGoing(m, k, s.content)
          /\ k.op \notin Batched => Fresh(s.content)
      BY <1>1, <1>5 DEF Progress, k
    <2>10. \/ k.op \in {"add", "add if"} \/ k.op = "route" \/ k.op = "apply" \/ k.op \in Routes
           \/ k.op \in TiledApplies \cup CompactApplies \/ k.op \notin Batched
      BY DEF Batched, RouteKinds, ApplyKinds
    <2> QED BY <1>2, <1>3, <1>5, <2>3, <2>4, <2>5, <2>6, <2>7, <2>8, <2>9, <2>10
  <1> QED BY <1>4, <1>5

\* Every state is one of the types that the code's variables have: a workspace of
\* its kind no larger than its memory, and bits of the filter's blocks only.
THEOREM FiltersAreTyped == ASSUME Sound PROVE Spec => []TypeOK
  <1>1. ASSUME FilterInv PROVE TypeOK
    <2> SUFFICES ASSUME NEW m, m = Marks, NEW s, NEW e, Course(m, s, e) PROVE TypeOK
      BY <1>1 DEF FilterInv
    <2>1. HostInv /\ StreamInv /\ Arrays BY <1>1 DEF FilterInv
    <2>2. bits \in Content(m) /\ expected \in Content(m) /\ (queue = <<>> => threads = <<>>)
      BY <2>1, BitsOfKeys
    <2>3. Content(m) \subseteq [Filter -> SUBSET Bit] BY MarksAreBits DEF Sound
    <2>4. \A f \in Filter : bits[f] \cup expected[f] \subseteq Bit BY <2>2, <2>3
    <2>5. layout \in Layouts /\ selected \in [Filter -> BOOLEAN] /\ \A f \in Filter : Tidy(host[f])
      BY <2>1 DEF Arrays
    <2> DEFINE T == [data : BOOLEAN, workspace : {"none", "routed", "private"},
                     slots : 0..MaxSlots, producers : 0..Cores, flag : BOOLEAN,
                     unavailable : BOOLEAN, knownEmpty : BOOLEAN, exposed : BOOLEAN]
    <2>6. host \in [Filter -> T]
      <3>1. host \in [Filter -> Object] BY <2>1 DEF HostInv
      <3>2. ASSUME NEW f \in Filter PROVE host[f] \in T
        <4>1. host[f] \in Object BY <3>1
        <4>2. host[f].slots \in 0..MaxSlots /\ host[f].producers \in 0..Cores
          BY <2>5 DEF Tidy
        <4> QED BY <4>1, <4>2 DEF Object
      <3> HIDE DEF T
      <3> QED BY <3>1, <3>2
    <2>7. \A f \in Filter :
            /\ host[f].workspace = "routed" <=> host[f].slots # 0
            /\ host[f].workspace = "private" <=> host[f].producers # 0
      BY <2>5 DEF Tidy
    <2> HIDE DEF T
    <2> QED BY <2>2, <2>4, <2>5, <2>6, <2>7 DEF TypeOK, T, Bit, Place
  <1> QED BY <1>1, FiltersStayOnCourse, PTL

\* Whatever the path of each batch, the order of the threads and the memory there
\* was: when the stream has drained, the filters hold what was promised.
THEOREM DrainedFiltersAreExact == ASSUME Sound PROVE Spec => []DrainedIsExact
  <1>1. ASSUME FilterInv PROVE DrainedIsExact
    <2> SUFFICES ASSUME queue = <<>> PROVE bits = expected BY DEF DrainedIsExact
    <2> SUFFICES ASSUME NEW m, m = Marks, NEW s, NEW e, Course(m, s, e) PROVE bits = expected
      BY <1>1 DEF FilterInv
    <2>1. Here(m, s, e) BY <1>1 DEF FilterInv, Here
    <2> QED BY <2>1, NothingUnderWay
  <1> QED BY <1>1, FiltersStayOnCourse, PTL

--------------------------------------------------------------------------------
(* What the host believes, and the workspace. *)

\* What the host knows to be empty is, and nobody else can write to it, however
\* many kernels are still to run.
THEOREM KnownEmptyIsRight == ASSUME CallsOK, WorkersOK PROVE Spec => []KnownEmptyIsEmpty
  <1>1. HostInv => KnownEmptyIsEmpty BY DEF HostInv
  <1> QED BY <1>1, FiltersAreKept, PTL

\* Every kernel in the stream finds the workspace that it was launched for, and
\* the last one of a routed batch leaves all its counters zero.
THEOREM WorkspaceStaysReady == ASSUME CallsOK, WorkersOK PROVE Spec => []WorkspaceIsReady
  <1>1. ASSUME HostInv, StreamInv PROVE WorkspaceIsReady
    <2>1. ASSUME NEW i \in 1..Len(queue)
          PROVE  /\ queue[i].op \in RoutedKernels =>
                      host[queue[i].f].workspace = "routed" /\ host[queue[i].f].slots > 0
                 /\ queue[i].op \in PrivateKernels =>
                      host[queue[i].f].workspace = "private" /\ host[queue[i].f].producers > 0
      <3>1. queue[i] \in Launched BY <1>1 DEF StreamInv
      <3>2. queue[i].f \in Filter BY <3>1 DEF Launched
      <3>3. Sized(host[queue[i].f]) BY <1>1, <3>2 DEF HostInv
      <3> QED BY <1>1, <3>3 DEF StreamInv, Served, Sized
    <2>2. ASSUME queue = <<>>, NEW f \in Filter, host[f].workspace = "routed" PROVE Zero(f)
      <3>1. ~\E i \in 1..Len(queue) : TRUE BY <2>2
      <3> QED BY <1>1, <2>2, <3>1 DEF StreamInv, Zeroes
    <2> QED BY <2>1, <2>2 DEF WorkspaceIsReady, Zero
  <1> QED BY <1>1, FiltersAreKept, PTL

\* All of it: a drained filter is exact, what the host knows of it is so, and what a
\* batch leaves behind serves the next.
THEOREM FiltersAreExact == ASSUME Sound PROVE Spec => []FilterIsExact
  <1>1. Spec => []DrainedIsExact BY DrainedFiltersAreExact
  <1>2. Spec => []KnownEmptyIsEmpty BY KnownEmptyIsRight DEF Sound
  <1>3. Spec => []WorkspaceIsReady BY WorkspaceStaysReady DEF Sound
  <1>4. DrainedIsExact /\ KnownEmptyIsEmpty /\ WorkspaceIsReady => FilterIsExact
    BY DEF FilterIsExact
  <1> QED BY <1>1, <1>2, <1>3, <1>4, PTL

--------------------------------------------------------------------------------
(* What a query answers.                                                      *)

\* A filter contains a key if it holds the key's bits.
LEMMA ContainsBits ==
    ASSUME HashesOK, PolicyOK, NEW k \in Key, NEW f
    PROVE  Contains(f, k) <=> BitsOf(k) \subseteq bits[f]
  <1>1. BitsOf(k) = UNION {InBlock(BlockIndex(UpperHash(k)), WordPattern(w, LowerHash(k))) :
                               w \in Word}
    BY Marked
  <1> QED BY <1>1 DEF Contains, ContainsWord

\* A lane finds the pattern of its own word.
LEMMA LanePattern ==
    ASSUME HashesOK, PolicyOK, NEW lane \in Word, NEW lower
    PROVE  WordPatternForLane(lane, lower) = WordPattern(lane, lower)
  <1> DEFINE P(w) == WordPattern(w, lower)
             Impl(g) == [r \in Nat \X Nat |->
                 IF r[2] <= 1 THEN P(r[1])
                 ELSE IF lane < r[1] + (r[2] \div 2) THEN g[<<r[1], r[2] \div 2>>]
                 ELSE g[<<r[1] + (r[2] \div 2), r[2] - (r[2] \div 2)>>]]
             out == CHOOSE g : g = Impl(g)
             Nearest(a, n) == IF lane < a \/ n = 0 THEN a
                              ELSE IF lane >= a + n THEN a + n - 1 ELSE lane
  <1>1. Words \in Nat \ {0} /\ lane \in Nat /\ lane < Words BY PolicyNumbers DEF Word
  <1>2. \A n \in Nat : n \div 2 \in Nat /\ n - (n \div 2) \in Nat
                       /\ (n > 1 => 0 < n \div 2 /\ n \div 2 < n)
    OBVIOUS
  <1>3. \E h : h = Impl(h)
    <2> DEFINE h == [r \in Nat \X Nat |-> P(Nearest(r[1], r[2]))]
               Q(r) == IF r[2] <= 1 THEN P(r[1])
                       ELSE IF lane < r[1] + (r[2] \div 2) THEN h[<<r[1], r[2] \div 2>>]
                       ELSE h[<<r[1] + (r[2] \div 2), r[2] - (r[2] \div 2)>>]
    <2>1. ASSUME NEW a \in Nat, NEW n \in Nat PROVE h[<<a, n>>] = P(Nearest(a, n)) OBVIOUS
    <2>2. ASSUME NEW a \in Nat, NEW n \in Nat PROVE P(Nearest(a, n)) = Q(<<a, n>>)
      <3>1. CASE n <= 1
        <4>1. Nearest(a, n) = a BY <1>1, <3>1
        <4> QED BY <3>1, <4>1
      <3>2. CASE n > 1 /\ lane < a + (n \div 2)
        <4>1. Nearest(a, n) = Nearest(a, n \div 2) BY <1>1, <1>2, <3>2
        <4>2. h[<<a, n \div 2>>] = P(Nearest(a, n \div 2)) BY <1>2, <2>1
        <4>3. Q(<<a, n>>) = h[<<a, n \div 2>>] BY <3>2
        <4> QED BY <4>1, <4>2, <4>3
      <3>3. CASE n > 1 /\ ~(lane < a + (n \div 2))
        <4> DEFINE c == a + (n \div 2)
                   o == n - (n \div 2)
        <4>1. Nearest(a, n) = Nearest(c, o) BY <1>1, <1>2, <3>3
        <4>2. c \in Nat /\ o \in Nat BY <1>2
        <4>3. h[<<c, o>>] = P(Nearest(c, o)) BY <2>1, <4>2
        <4>4. Q(<<a, n>>) = h[<<c, o>>] BY <3>3
        <4> QED BY <4>1, <4>3, <4>4
      <3> QED BY <3>1, <3>2, <3>3
    <2>3. ASSUME NEW r \in Nat \X Nat PROVE h[r] = Q(r)
      <3>1. r[1] \in Nat /\ r[2] \in Nat /\ r = <<r[1], r[2]>> OBVIOUS
      <3> HIDE DEF h, Q
      <3>2. h[<<r[1], r[2]>>] = Q(<<r[1], r[2]>>) BY <2>1, <2>2, <3>1
      <3> QED BY <3>1, <3>2
    <2>4. h = [r \in Nat \X Nat |-> h[r]] OBVIOUS
    <2>5. Impl(h) = [r \in Nat \X Nat |-> Q(r)] OBVIOUS
    <2> HIDE DEF h, Q, Impl
    <2> QED BY <2>3, <2>4, <2>5
  <1>4. out = Impl(out) BY <1>3, Zenon
  <1>5. WordPatternForLane(lane, lower) = out[<<0, Words>>] BY DEF WordPatternForLane
  <1>6. \A a, n \in Nat : out[<<a, n>>] =
            IF n <= 1 THEN P(a)
            ELSE IF lane < a + (n \div 2) THEN out[<<a, n \div 2>>]
            ELSE out[<<a + (n \div 2), n - (n \div 2)>>]
    <2> TAKE a, n \in Nat
    <2>1. <<a, n>> \in Nat \X Nat OBVIOUS
    <2> HIDE DEF out
    <2> QED BY <1>4, <2>1
  <1> HIDE DEF out, P
  <1> DEFINE Finds(a, n) == a <= lane /\ lane < a + n => out[<<a, n>>] = P(lane)
             S == {i \in Nat : \A n \in 0..i : \A a \in Nat : Finds(a, n)}
  <1>7. 0 \in S BY <1>1
  <1>8. ASSUME NEW i \in Nat, i \in S PROVE i + 1 \in S
    <2>1. ASSUME NEW a \in Nat, a <= lane, lane < a + (i + 1)
          PROVE  out[<<a, i + 1>>] = P(lane)
      <3> DEFINE n == i + 1
                 c == n \div 2
      <3>1. n \in Nat /\ c \in Nat /\ n - c \in Nat /\ (n > 1 => 0 < c /\ c < n) BY <1>2
      <3>2. \A x \in 0..i : \A b \in Nat : Finds(b, x) BY <1>8
      <3>3. out[<<a, n>>] = IF n <= 1 THEN P(a)
                            ELSE IF lane < a + c THEN out[<<a, c>>] ELSE out[<<a + c, n - c>>]
        BY <1>6, <3>1
      <3>4. CASE n <= 1
        <4>1. a = lane BY <1>1, <2>1, <3>4
        <4> QED BY <3>3, <3>4, <4>1
      <3>5. CASE n > 1 /\ lane < a + c
        <4>1. c \in 0..i BY <3>1, <3>5
        <4>2. Finds(a, c) BY <3>2, <4>1
        <4>3. out[<<a, c>>] = P(lane) BY <2>1, <3>5, <4>2
        <4> QED BY <3>3, <3>5, <4>3
      <3>6. CASE n > 1 /\ ~(lane < a + c)
        <4>1. n - c \in 0..i /\ a + c \in Nat BY <3>1, <3>6
        <4>2. Finds(a + c, n - c) BY <3>2, <4>1
        <4>3. a + c <= lane /\ lane < (a + c) + (n - c) BY <1>1, <2>1, <3>1, <3>6
        <4>4. out[<<a + c, n - c>>] = P(lane) BY <4>2, <4>3
        <4> QED BY <3>3, <3>6, <4>4
      <3> QED BY <3>4, <3>5, <3>6
    <2>2. \A a \in Nat : Finds(a, i + 1) BY <2>1
    <2>3. \A n \in 0..i : \A a \in Nat : Finds(a, n) BY <1>8
    <2>4. \A n \in 0..(i + 1) : n \in 0..i \/ n = i + 1 OBVIOUS
    <2> HIDE DEF Finds
    <2> QED BY <2>2, <2>3, <2>4
  <1>9. Words \in S
    <2> HIDE DEF S
    <2> QED BY <1>1, <1>7, <1>8, Induction
  <1>10. Finds(0, Words) BY <1>1, <1>9
  <1> QED BY <1>1, <1>5, <1>10 DEF P

\* Division by twice a number, in two steps.
LEMMA Twice ==
    ASSUME NEW d \in Nat \ {0}, NEW x \in Nat
    PROVE  /\ x \div d \in Nat /\ x % d \in 0..(d - 1) /\ x = (x \div d) * d + (x % d)
           /\ x \div (2 * d) = (x \div d) \div 2
  <1> DEFINE q == x \div d
             a == x % d
             p == q \div 2
             b == q % 2
  <1>1. q \in Nat /\ a \in 0..(d - 1) /\ x = q * d + a
    <2>1. x \in Int OBVIOUS
    <2> QED BY ONLY d \in Nat \ {0}, x \in Nat, <2>1, Divided
  <1> HIDE DEF q, a
  <1>2. p \in Nat /\ b \in {0, 1} /\ q = 2 * p + b BY <1>1
  <1> HIDE DEF p, b
  <1> DEFINE D == 2 * d
             r == b * d + a
  <1>3. D \in Nat \ {0} OBVIOUS
  <1>4. r \in 0..(D - 1) /\ x = p * D + r
    <2>1. CASE b = 0 BY <1>1, <1>2, <2>1
    <2>2. CASE b = 1 BY <1>1, <1>2, <2>2
    <2> QED BY <1>2, <2>1, <2>2
  <1> HIDE DEF D, r
  <1>5. (p * D + r) \div D = p BY <1>2, <1>3, <1>4, Division
  <1> QED BY <1>1, <1>4, <1>5 DEF q, a, p, D

\* A lane and the one it exchanges with: together they are one group of twice the
\* size.
Regroups(x, l, d) ==
    x \div (2 * d) = l \div (2 * d) <=>
        x \div d = l \div d \/ x \div d = Partner(l, d) \div d

\* Lanes whose numbers differ in one bit meet in a group of twice the size.
LEMMA Exchanged ==
    ASSUME NEW d \in Nat \ {0}, NEW c \in Nat \ {0}, NEW W, W = c * (2 * d),
           NEW l \in 0..(W - 1)
    PROVE  /\ Partner(l, d) \in 0..(W - 1)
           /\ \A x \in 0..(W - 1) : Regroups(x, l, d)
  <1> DEFINE q == l \div d
             a == l % d
             p == q \div 2
             y == Partner(l, d)
             z == IF q % 2 = 0 THEN q + 1 ELSE q - 1
  <1>1. W \in Nat /\ l \in Nat /\ W = (2 * c) * d
    <2>1. c * (2 * d) \in Nat OBVIOUS
    <2>2. c * (2 * d) = (2 * c) * d OBVIOUS
    <2> QED BY <2>1, <2>2
  <1>2. q \in Nat /\ a \in 0..(d - 1) /\ l = q * d + a BY <1>1, Twice
  <1>3. y = IF q % 2 = 0 THEN l + d ELSE l - d BY DEF Partner
  <1> HIDE DEF q, a, y
  <1>4. q < 2 * c
    <2> SUFFICES ASSUME 2 * c <= q PROVE FALSE BY <1>2
    <2>1. (2 * c) * d <= q * d
      <3>1. 2 * c \in Int /\ q \in Int /\ d \in Nat BY <1>2
      <3> QED BY ONLY <3>1, 2 * c <= q, Times
    <2>2. q * d \in Nat BY <1>2
    <2> QED BY <1>1, <1>2, <2>1, <2>2
  <1>5. /\ z \in Nat /\ z < 2 * c /\ \A i \in Nat : i \div 2 = q \div 2 <=> i = q \/ i = z
    BY <1>2, <1>4
  <1>6. y = z * d + a
    <2>1. CASE q % 2 = 0
      <3>1. (q + 1) * d = q * d + d BY <1>2
      <3> QED BY <1>2, <1>3, <2>1, <3>1
    <2>2. CASE q % 2 # 0
      <3>1. (q - 1) * d = q * d - d BY <1>2
      <3> QED BY <1>2, <1>3, <2>2, <3>1
    <2> QED BY <2>1, <2>2
  <1> HIDE DEF z
  <1>7. y \div d = z
    <2>1. z \in Int BY <1>5
    <2>2. (z * d + a) \div d = z BY <1>2, <2>1, Division
    <2> QED BY <1>6, <2>2
  <1>8. y \in 0..(W - 1)
    <2>1. (z + 1) * d <= (2 * c) * d
      <3>1. z + 1 \in Int /\ 2 * c \in Int /\ z + 1 <= 2 * c /\ d \in Nat BY <1>5
      <3> QED BY ONLY <3>1, Times
    <2>2. (z + 1) * d = z * d + d /\ z * d \in Nat BY <1>5
    <2> QED BY <1>1, <1>2, <1>6, <2>1, <2>2
  <1>9. ASSUME NEW x \in 0..(W - 1)
        PROVE  x \div (2 * d) = l \div (2 * d) <=> x \div d = q \/ x \div d = z
    <2>1. x \in Nat BY <1>1
    <2>2. x \div d \in Nat /\ x \div (2 * d) = (x \div d) \div 2 BY <2>1, Twice
    <2>3. l \div (2 * d) = q \div 2 BY <1>1, Twice DEF q
    <2>4. (x \div d) \div 2 = q \div 2 <=> x \div d = q \/ x \div d = z BY <1>5, <2>2
    <2> QED BY <2>2, <2>3, <2>4
  <1> QED BY <1>7, <1>8, <1>9 DEF q, y, Regroups

\* The number of rounds in which the lanes exchange what they have found.
LEMMA RoundsOfWords ==
    ASSUME HashesOK, PolicyOK
    PROVE  /\ Rounds \in 0..5 /\ 2^Rounds = Words
           /\ \A r \in 1..Rounds :
                /\ 2^(r - 1) \in Nat \ {0} /\ 2^r = 2 * 2^(r - 1)
                /\ \E c \in Nat \ {0} : Words = c * 2^r
  <1>1. \E r \in 0..5 : 2^r = Words BY DEF PolicyOK
  <1>2. Rounds \in 0..5 /\ 2^Rounds = Words BY <1>1 DEF Rounds
  <1>3. /\ HashBits \in Nat /\ HashBits >= 2 /\ 2^1 = 2
        /\ \A i, j \in 0..(HashBits + 5) : 2^i \in Nat \ {0} /\ 2^(i + j) = 2^i * 2^j
    BY DEF HashesOK
  <1> SUFFICES ASSUME NEW R, R = Rounds, NEW r \in 1..R
               PROVE  /\ 2^(r - 1) \in Nat \ {0} /\ 2^r = 2 * 2^(r - 1)
                      /\ \E c \in Nat \ {0} : 2^R = c * 2^r
    BY <1>2, ZenonT(60)
  <1>4. /\ R \in 0..5 /\ {1, r, r - 1, R - r} \subseteq 0..(HashBits + 5)
        /\ 1 + (r - 1) = r /\ (R - r) + r = R
    BY <1>2, <1>3
  <1>5. 2^(r - 1) \in Nat \ {0} /\ 2^(1 + (r - 1)) = 2^1 * 2^(r - 1) BY <1>3, <1>4
  <1>6. 2^(R - r) \in Nat \ {0} /\ 2^((R - r) + r) = 2^(R - r) * 2^r BY <1>3, <1>4
  <1> QED BY <1>3, <1>4, <1>5, <1>6

\* When the lanes have exchanged their matches, each knows whether the filter
\* contains the key.
LEMMA LanesAgree ==
    ASSUME HashesOK, PolicyOK, NEW k \in Key, NEW f, NEW lane \in Word
    PROVE  ExchangedMatch(f, k, lane) = Contains(f, k)
  <1> DEFINE R == Rounds
             O(l) == OwnMatch(f, k, l)
             Of(g) == [r \in 0..R |->
                 IF r = 0 THEN [l \in Word |-> O(l)]
                 ELSE [l \in Word |-> g[r - 1][l] /\ g[r - 1][Partner(l, 2^(r - 1))]]]
             out == CHOOSE g : g = Of(g)
             Group(r, l) == \A x \in Word : x \div 2^r = l \div 2^r => O(x)
  <1>1. /\ R \in 0..5 /\ 2^R = Words /\ Words \in Nat \ {0}
        /\ \A r \in 1..R : /\ 2^(r - 1) \in Nat \ {0} /\ 2^r = 2 * 2^(r - 1)
                           /\ \E c \in Nat \ {0} : Words = c * 2^r
    BY RoundsOfWords, PolicyNumbers
  <1>2. 2^0 = 1 /\ Word = 0..(Words - 1) BY DEF HashesOK, Word
  <1>3. ASSUME NEW r \in 1..R, NEW l \in Word
        PROVE  /\ Partner(l, 2^(r - 1)) \in Word
               /\ Group(r, l) <=> Group(r - 1, l) /\ Group(r - 1, Partner(l, 2^(r - 1)))
    <2> DEFINE d == 2^(r - 1)
    <2>1. PICK c \in Nat \ {0} : Words = c * 2^r BY <1>1
    <2>2. d \in Nat \ {0} /\ 2^r = 2 * d BY <1>1
    <2> HIDE DEF d
    <2>3. /\ Words = c * (2 * d) /\ l \in 0..(Words - 1) BY <1>2, <2>1, <2>2
    <2>4. Partner(l, d) \in 0..(Words - 1) BY ONLY <2>1, <2>2, <2>3, Exchanged
    <2>5. \A x \in 0..(Words - 1) : Regroups(x, l, d) BY ONLY <2>1, <2>2, <2>3, Exchanged
    <2>6. \A x \in Word : x \div 2^r = l \div 2^r <=>
            x \div d = l \div d \/ x \div d = Partner(l, d) \div d
      BY <1>2, <2>2, <2>5 DEF Regroups
    <2>7. Partner(l, d) \in Word BY <1>2, <2>4
    <2> HIDE DEF O
    <2> QED BY <2>6, <2>7 DEF d
  <1>4. ASSUME NEW l \in Word PROVE Group(0, l) = O(l)
    <2>1. \A x \in Word : x \div 2^0 = x BY <1>2
    <2>2. O(l) \in BOOLEAN BY DEF OwnMatch
    <2>3. Group(0, l) \in BOOLEAN OBVIOUS
    <2> HIDE DEF O
    <2>4. Group(0, l) <=> O(l) BY <2>1
    <2> HIDE DEF Group
    <2> QED BY <2>2, <2>3, <2>4
  <1>5. \E h : h = Of(h)
    <2> DEFINE h == [r \in 0..R |-> [l \in Word |-> Group(r, l)]]
               Q(r) == IF r = 0 THEN [l \in Word |-> O(l)]
                       ELSE [l \in Word |-> h[r - 1][l] /\ h[r - 1][Partner(l, 2^(r - 1))]]
    <2>1. ASSUME NEW r \in 0..R PROVE h[r] = Q(r)
      <3>1. h[r] = [l \in Word |-> Group(r, l)] OBVIOUS
      <3>2. CASE r = 0
        <4>1. \A l \in Word : Group(r, l) = O(l) BY <1>4, <3>2
        <4> HIDE DEF Group, O, h
        <4> QED BY <3>1, <3>2, <4>1
      <3>3. CASE r # 0
        <4> DEFINE p(l) == Partner(l, 2^(r - 1))
        <4>1. r \in 1..R /\ r - 1 \in 0..R BY <1>1, <3>3
        <4>2. h[r - 1] = [l \in Word |-> Group(r - 1, l)] BY <4>1
        <4>3. \A l \in Word : Group(r, l) = (Group(r - 1, l) /\ Group(r - 1, p(l)))
                              /\ p(l) \in Word
          BY <1>3, <4>1
        <4> HIDE DEF Group, h, p
        <4>4. \A l \in Word : Group(r, l) = (h[r - 1][l] /\ h[r - 1][p(l)]) BY <4>2, <4>3
        <4>5. Q(r) = [l \in Word |-> h[r - 1][l] /\ h[r - 1][p(l)]] BY <3>3 DEF p
        <4> HIDE DEF Q
        <4> QED BY <3>1, <4>4, <4>5
      <3> QED BY <3>2, <3>3
    <2>2. h = [r \in 0..R |-> h[r]] OBVIOUS
    <2>3. Of(h) = [r \in 0..R |-> Q(r)] OBVIOUS
    <2> HIDE DEF h, Q, Of
    <2> QED BY <2>1, <2>2, <2>3
  <1>6. out = Of(out) BY <1>5, Zenon
  <1>7. ExchangedMatch(f, k, lane) = out[R][lane] BY DEF ExchangedMatch
  <1>8. \A r \in 0..R : out[r] =
            IF r = 0 THEN [l \in Word |-> O(l)]
            ELSE [l \in Word |-> out[r - 1][l] /\ out[r - 1][Partner(l, 2^(r - 1))]]
    <2> TAKE r \in 0..R
    <2> HIDE DEF out
    <2> QED BY <1>6
  <1> HIDE DEF out, O, Group, R
  <1> DEFINE S == {r \in Nat : r <= R => \A l \in Word : out[r][l] = Group(r, l)}
  <1>9. 0 \in S
    <2>1. 0 \in 0..R BY <1>1
    <2>2. out[0] = [l \in Word |-> O(l)] BY <1>8, <2>1
    <2>3. \A l \in Word : Group(0, l) = O(l) BY <1>4 DEF Group
    <2> QED BY <2>2, <2>3
  <1>10. ASSUME NEW r \in Nat, r \in S PROVE r + 1 \in S
    <2>1. ASSUME r + 1 <= R, NEW l \in Word PROVE out[r + 1][l] = Group(r + 1, l)
      <3>1. r + 1 \in 1..R /\ r + 1 \in 0..R /\ (r + 1) - 1 = r /\ r + 1 # 0 /\ r <= R
        BY <1>1, <2>1
      <3> DEFINE p == Partner(l, 2^((r + 1) - 1))
      <3>2. p \in Word /\ (Group(r + 1, l) <=> Group((r + 1) - 1, l) /\ Group((r + 1) - 1, p))
        BY <1>3, <3>1 DEF R
      <3>3. out[r + 1] = [x \in Word |-> out[(r + 1) - 1][x]
                                         /\ out[(r + 1) - 1][Partner(x, 2^((r + 1) - 1))]]
        BY <1>8, <3>1
      <3>4. out[r + 1][l] = (out[(r + 1) - 1][l] /\ out[(r + 1) - 1][p]) BY <3>3
      <3>5. out[r][l] = Group(r, l) /\ out[r][p] = Group(r, p) BY <1>10, <3>1, <3>2
      <3>6. Group(r + 1, l) = (Group((r + 1) - 1, l) /\ Group((r + 1) - 1, p))
        BY <3>2 DEF Group
      <3> HIDE DEF p
      <3> QED BY <3>1, <3>4, <3>5, <3>6
    <2> QED BY <2>1
  <1>11. R \in S
    <2> HIDE DEF S
    <2>1. R \in Nat BY <1>1
    <2> QED BY <1>9, <1>10, <2>1, Induction
  <1>12. out[R][lane] = Group(R, lane) BY <1>1, <1>11
  <1>13. Group(R, lane) <=> \A x \in Word : O(x)
    <2>1. \A x \in Word : x \div 2^R = 0
      <3> TAKE x \in Word
      <3>1. x \in 0..(Words - 1) BY <1>2
      <3>2. 0 \in Int /\ (0 * Words + x) \div Words = 0 BY <1>1, <3>1, Division
      <3>3. 0 * Words + x = x BY <1>1, <3>1
      <3> QED BY <1>1, <3>2, <3>3
    <2> QED BY <2>1 DEF Group
  <1>14. \A x \in Word : O(x) <=> ContainsWord(f, k, x)
    BY LanePattern DEF O, OwnMatch, ContainsWord
  <1>15. Group(R, lane) = Contains(f, k)
    <2>1. Group(R, lane) <=> Contains(f, k) BY <1>13, <1>14 DEF Contains
    <2>2. Group(R, lane) \in BOOLEAN BY DEF Group
    <2>3. Contains(f, k) \in BOOLEAN BY DEF Contains
    <2> QED BY <2>1, <2>2, <2>3
  <1> QED BY <1>7, <1>12, <1>15 DEF R

\* So does every query, whichever way it takes.
LEMMA LaneContains ==
    ASSUME HashesOK, PolicyOK, NEW f, NEW keys \in Seq(Key), NEW i \in 1..Len(keys)
    PROVE  ContainsH8V1(f, keys, i) = Contains(f, keys[i])
  <1> DEFINE lane == (i - 1) % Words
  <1>1. Words \in Nat \ {0} BY PolicyNumbers
  <1>2. lane \in Word
    <2>1. i - 1 \in Int OBVIOUS
    <2>2. lane \in 0..(Words - 1) BY ONLY <1>1, <2>1, Divided
    <2> QED BY <2>2 DEF Word
  <1>3. keys[i] \in Key OBVIOUS
  <1> HIDE DEF lane
  <1>4. ExchangedMatch(f, keys[i], lane) = Contains(f, keys[i]) BY <1>2, <1>3, LanesAgree
  <1> QED BY <1>4 DEF ContainsH8V1, lane

\* What a query puts out.
LEMMA QueryIsExact ==
    ASSUME HashesOK, PolicyOK, NEW k \in Launched, k.op \in Queries, NEW m, m = Marks,
           NEW s, s.content = bits, Ready(m, k, s)
    PROVE  Output(k) = k.want
  <1>1. k.keys \in Seq(Key) /\ k.sel \in Seq(BOOLEAN) BY DEF Launched
  <1>2. Len(k.sel) = Len(k.keys) /\ k.want = Answers(m, k, bits[k.f])
        /\ (k.op = "zeros" => bits[k.f] = {})
        /\ (k.op = "contains" => \A i \in 1..Len(k.keys) : k.sel[i])
    BY DEF Ready
  <1> DEFINE A(i) == k.sel[i] /\ m[k.keys[i]] \subseteq bits[k.f]
             O(i) == CASE k.op = "zeros" -> FALSE
                       [] k.op = "contains if" -> k.sel[i] /\ Contains(k.f, k.keys[i])
                       [] OTHER -> IF layout = "conditional" THEN Contains(k.f, k.keys[i])
                                   ELSE ContainsH8V1(k.f, k.keys, i)
             D == DOMAIN k.keys
  <1>3. ASSUME NEW i \in D PROVE O(i) = A(i)
    <2> DEFINE x == k.keys[i]
    <2>1. i \in 1..Len(k.keys) /\ x \in Key /\ k.sel[i] \in BOOLEAN BY <1>1, <1>2
    <2>2. m[x] = BitsOf(x) BY <2>1 DEF Marks
    <2>3. Contains(k.f, x) <=> m[x] \subseteq bits[k.f] BY <2>1, <2>2, ContainsBits
    <2>4. ContainsH8V1(k.f, k.keys, i) = Contains(k.f, x) BY <1>1, <2>1, LaneContains
    <2>5. BitsOf(x) # {} BY <2>1, Marked
    <2>6. Contains(k.f, x) \in BOOLEAN BY DEF Contains
    <2>7. ContainsH8V1(k.f, k.keys, i) \in BOOLEAN BY <2>4, <2>6
    <2>8. A(i) \in BOOLEAN BY <2>1
    <2> HIDE DEF x
    <2>9. CASE k.op = "zeros"
      <3>1. ~A(i) BY <1>2, <2>2, <2>5, <2>9 DEF x
      <3>2. O(i) = FALSE BY <2>9
      <3> HIDE DEF O, A
      <3> QED BY <2>8, <3>1, <3>2
    <2>10. CASE k.op = "contains if"
      <3>1. O(i) = (k.sel[i] /\ Contains(k.f, x)) BY <2>10 DEF x
      <3>2. A(i) <=> (k.sel[i] /\ Contains(k.f, x)) BY <2>3 DEF x
      <3> HIDE DEF O, A
      <3> QED BY <2>1, <2>6, <2>8, <3>1, <3>2
    <2>11. CASE k.op = "contains"
      <3>1. O(i) = IF layout = "conditional" THEN Contains(k.f, x)
                   ELSE ContainsH8V1(k.f, k.keys, i)
        BY <2>11 DEF x
      <3>2. A(i) <=> Contains(k.f, x) BY <1>2, <2>1, <2>3, <2>11 DEF x
      <3> HIDE DEF O, A
      <3> QED BY <2>4, <2>6, <2>7, <2>8, <3>1, <3>2
    <2> QED BY <2>9, <2>10, <2>11 DEF Queries
  <1>4. Output(k) = [i \in D |-> O(i)] BY DEF Output
  <1>5. k.want = [i \in D |-> A(i)] BY <1>2 DEF Answers
  <1> HIDE DEF A, O, D
  <1> QED BY <1>3, <1>4, <1>5

\* A query answers for the filter as it was promised at its place in the stream,
\* alone or lane by lane, and also when the host knows the filter to be empty.
THEOREM QueriesAreExact == ASSUME Sound PROVE Spec => []AnswersAreExact
  <1>1. ASSUME FilterInv PROVE AnswersAreExact
    <2> SUFFICES ASSUME Running(Queries) PROVE Output(This) = This.want
      BY DEF AnswersAreExact, Queries
    <2> SUFFICES ASSUME NEW m, m = Marks, NEW s, NEW e, Course(m, s, e)
                 PROVE  Output(This) = This.want
      BY <1>1 DEF FilterInv
    <2> SUFFICES ASSUME NEW k, k = Head(queue) PROVE Output(k) = k.want BY DEF This
    <2>1. StreamInv /\ queue # <<>> /\ k.op \in Queries BY <1>1 DEF FilterInv, Running
    <2>2. k \in Launched /\ Ready(m, k, s) BY <2>1, Beginning
    <2>3. k.op \notin Batched
      BY <2>1 DEF Queries, Batched, RouteKinds, ApplyKinds, Routes, TiledApplies, CompactApplies
    <2>4. s.content = bits BY <2>1, <2>3 DEF Course, Progress, Fresh
    <2> QED BY <2>1, <2>2, <2>4, QueryIsExact DEF Sound
  <1> QED BY <1>1, FiltersStayOnCourse, PTL
================================================================================
