--------------------------- MODULE SeatManagerProofs ---------------------------
(***************************************************************************)
(* What holds of the daemon's seats for any number of them, of the objects *)
(* made for them and of changes in logind: first what holds as long as the *)
(* daemon keeps up, then what holds whatever logind does meanwhile.        *)
(***************************************************************************)
EXTENDS SeatManager, FiniteSetTheorems, SequenceTheorems, Induction

(* DisplayManager::RemoveSeat() walks past the end of the list it shortens *)
(* and stays in the memory the list has.                                   *)
Partly(l)     == [list : [1 .. Len(l) -> SeatIds], size : 0 .. Len(l)]
Whole(l)      == [list |-> l, size |-> Len(l)]
Walks(w, l, n) ==
  /\ w[0] = Whole(l)
  /\ \A i \in 1 .. Len(l) : w[i] = IF nameOf[w[i - 1].list[i]] = n
                                  THEN Drop(w[i - 1], w[i - 1].list[i]) ELSE w[i - 1]

LEMMA RemoveNamedWalks ==
  ASSUME NEW l \in Seq(SeatIds), NEW n
  PROVE  \E w : /\ Walks(w, l, n) /\ RemoveNamed(l, n) = SubSeq(w[Len(l)].list, 1, w[Len(l)].size)
               /\ \A i \in 0 .. Len(l) : w[i] \in Partly(l)
<1> DEFINE N == Len(l)
           X == Partly(l)
           start == Whole(l)
           step == [p \in (1 .. N) \X X |->
                      IF nameOf[p[2].list[p[1]]] = n THEN Drop(p[2], p[2].list[p[1]]) ELSE p[2]]
           Is(k) == k = [i \in 0 .. Len(l) |->
                           IF i = 0 THEN [list |-> l, size |-> Len(l)]
                           ELSE LET a == k[i - 1] IN
                                IF nameOf[a.list[i]] = n THEN Drop(a, a.list[i]) ELSE a]
           walk == CHOOSE k : Is(k)
<1>1. N \in Nat /\ l \in [1 .. N -> SeatIds] /\ start \in X
  BY DEF Partly, Whole
<1>2. ASSUME NEW a \in X, NEW x
      PROVE  Drop(a, x) \in X
  <2> DEFINE at == {i \in 1 .. a.size : a.list[i] = x}
             shorter == [list |-> [i \in DOMAIN a.list |->
                    IF i < a.size /\ \E p \in at : i >= p THEN a.list[i + 1] ELSE a.list[i]],
                         size |-> a.size - 1]
  <2>1. CASE at = {}
    BY <2>1 DEF Drop
  <2>2. CASE at # {}
    <3>1. a.size \in 1 .. N /\ DOMAIN a.list = 1 .. N
      BY <2>2, <1>1 DEF Partly
    <3>2. shorter \in X
      <4>1. PICK k \in Nat : k = N /\ a.list \in [1 .. k -> SeatIds] /\ a.size \in 1 .. k
        BY <1>1, <3>1 DEF Partly
      <4> DEFINE moved == [i \in 1 .. k |->
                    IF i < a.size /\ \E p \in at : i >= p THEN a.list[i + 1] ELSE a.list[i]]
      <4>2. moved \in [1 .. k -> SeatIds] /\ a.size - 1 \in 0 .. k
        BY <4>1
      <4>3. shorter = [list |-> moved, size |-> a.size - 1]
        BY <3>1, <4>1
      <4> HIDE DEF moved
      <4> QED
        BY <4>1, <4>2, <4>3 DEF Partly
    <3>3. Drop(a, x) = shorter
      BY <2>2, Zenon DEF Drop
    <3> QED
      BY <3>2, <3>3
  <2> QED
    BY <2>1, <2>2
<1>3. \E k : Is(k)
  <2>1. step \in [(1 .. N) \X X -> X]
    BY <1>2
  <2>2. \A i \in 1 .. N, a \in X :
          step[<<i, a>>] = IF nameOf[a.list[i]] = n THEN Drop(a, a.list[i]) ELSE a
    OBVIOUS
  <2> HIDE DEF step
  <2>3. PICK k \in [0 .. N -> X] : Steps(k, N, start, step)
    <3> HIDE DEF N, X, start
    <3> QED
      BY <1>1, <2>1, Recursion
  <2> HIDE DEF X, start
  <2>4. k[0] = start /\ \A i \in 1 .. N : k[i] = step[<<i, k[i - 1]>>]
    BY <2>3 DEF Steps
  <2>5. ASSUME NEW i \in 1 .. N
        PROVE  k[i] = LET a == k[i - 1] IN IF nameOf[a.list[i]] = n THEN Drop(a, a.list[i]) ELSE a
    <3>1. k[i - 1] \in X
      BY <1>1
    <3> QED
      BY <2>2, <2>4, <3>1
  <2>6. ASSUME NEW i \in 0 .. N
        PROVE  k[i] = IF i = 0 THEN [list |-> l, size |-> Len(l)]
                      ELSE LET a == k[i - 1] IN
                           IF nameOf[a.list[i]] = n THEN Drop(a, a.list[i]) ELSE a
    <3>1. i = 0 \/ i \in 1 .. N
      BY <1>1
    <3> QED
      BY <2>4, <2>5, <3>1, Zenon DEF start, Whole
  <2>7. Is(k)
    BY <2>3, <2>6, Zenon
  <2> QED
    BY <2>7
<1>4. Is(walk)
  <2> HIDE DEF Is
  <2> QED
    BY <1>3
<1>5. RemoveNamed(l, n) = SubSeq(walk[N].list, 1, walk[N].size)
  BY Zenon DEF RemoveNamed
<1>6. /\ walk[0] = start
      /\ \A i \in 1 .. N : walk[i] = IF nameOf[walk[i - 1].list[i]] = n
                                     THEN Drop(walk[i - 1], walk[i - 1].list[i]) ELSE walk[i - 1]
  <2> HIDE DEF walk
  <2>1. \A i \in 0 .. N : walk[i] = IF i = 0 THEN [list |-> l, size |-> Len(l)]
                                    ELSE LET a == walk[i - 1] IN
                                         IF nameOf[a.list[i]] = n THEN Drop(a, a.list[i]) ELSE a
    BY <1>4, Zenon
  <2> QED
    BY <1>1, <2>1 DEF Whole
<1> HIDE DEF walk
<1> DEFINE G == {i \in 0 .. N : walk[i] \in X}
<1>7. 0 \in G /\ \A i \in 1 .. N : i - 1 \in G => i \in G
  BY <1>1, <1>2, <1>6
<1>8. \A i \in 0 .. N : i \in G
  <2> HIDE DEF G, N
  <2> QED
    BY <1>1, <1>7, BoundedInduction
<1>9. \A i \in 0 .. Len(l) : walk[i] \in Partly(l)
  BY <1>8
<1> QED
  BY <1>5, <1>6, <1>9 DEF Walks

(* It takes out the seat of that name, and only that one.                  *)
LEMMA RemoveNamedRemoves ==
  ASSUME NEW l \in Seq(SeatIds), NEW n,
         \A i, j \in 1 .. Len(l) : nameOf[l[i]] = nameOf[l[j]] => i = j
  PROVE  /\ RemoveNamed(l, n) \in Seq(SeatIds) /\ Distinct(RemoveNamed(l, n))
         /\ \A s \in SeatIds : Holds(RemoveNamed(l, n), s) <=> nameOf[s] # n /\ Holds(l, s)
<1> DEFINE N == Len(l)
           start == [list |-> l, size |-> N]
<1>1. N \in Nat /\ l \in [1 .. N -> SeatIds]
  OBVIOUS
<1>2. PICK walk : Walks(walk, l, n) /\ RemoveNamed(l, n) = SubSeq(walk[N].list, 1, walk[N].size)
  BY RemoveNamedWalks
<1>3. RemoveNamed(l, n) = SubSeq(walk[N].list, 1, walk[N].size)
  BY <1>2
<1>4. /\ walk[0] = start
      /\ \A i \in 1 .. N : walk[i] = IF nameOf[walk[i - 1].list[i]] = n
                                     THEN Drop(walk[i - 1], walk[i - 1].list[i]) ELSE walk[i - 1]
  BY <1>2 DEF Walks, Whole
<1> DEFINE Without(p) == [j \in 1 .. N |-> IF j < N /\ j >= p THEN l[j + 1] ELSE l[j]]
           Untouched(i) == (\A j \in 1 .. i : nameOf[l[j]] # n) /\ walk[i] = start
           At(i, p) == nameOf[l[p]] = n /\ walk[i] = [list |-> Without(p), size |-> N - 1]
           Short(i) == \E p \in 1 .. i : At(i, p)
           G == {i \in 0 .. N : Untouched(i) \/ Short(i)}
<1>5. 0 \in G
  BY <1>1, <1>4
<1>6. ASSUME NEW i \in 1 .. N, i - 1 \in G PROVE i \in G
  <2>1. CASE Untouched(i - 1) /\ nameOf[l[i]] # n
    <3>1. \A j \in 1 .. i : nameOf[l[j]] # n
      BY <1>1, <2>1
    <3>2. walk[i - 1].list = l /\ walk[i] = start
      BY <1>1, <1>4, <2>1
    <3> QED
      BY <1>1, <3>1, <3>2
  <2>2. CASE Untouched(i - 1) /\ nameOf[l[i]] = n
    <3>1. walk[i] = Drop(start, l[i])
      BY <1>4, <2>2
    <3>2. {j \in 1 .. N : l[j] = l[i]} = {i}
      OBVIOUS
    <3>3. Drop(start, l[i]) = [list |-> Without(i), size |-> N - 1]
      <4>1. /\ start.list = l /\ start.size = N /\ DOMAIN l = 1 .. N
            /\ {j \in 1 .. start.size : start.list[j] = l[i]} = {i}
        BY <1>1, <3>2
      <4> HIDE DEF start
      <4>2. Drop(start, l[i]) =
              [list |-> [j \in DOMAIN start.list |->
                           IF j < start.size /\ \E p \in {i} : j >= p
                           THEN start.list[j + 1] ELSE start.list[j]],
               size |-> start.size - 1]
        BY <4>1 DEF Drop
      <4> QED
        BY <4>1, <4>2
    <3>4. Short(i)
      <4>1. At(i, i) /\ i \in 1 .. i
        BY <1>1, <2>2, <3>1, <3>3
      <4> HIDE DEF At
      <4> QED
        BY <4>1
    <3> HIDE DEF Short
    <3> QED
      BY <1>1, <3>4
  <2>3. CASE Short(i - 1)
    <3>1. PICK p \in 1 .. i - 1 :
             nameOf[l[p]] = n /\ walk[i - 1] = [list |-> Without(p), size |-> N - 1]
      BY <2>3
    <3>2. Without(p)[i] = IF i < N THEN l[i + 1] ELSE l[i]
      BY <1>1
    <3>3. nameOf[Without(p)[i]] # n
      BY <1>1, <3>1, <3>2
    <3>4. walk[i] = walk[i - 1]
      BY <1>4, <3>1, <3>3
    <3> QED
      <4>1. At(i, p) /\ p \in 1 .. i
        BY <1>1, <3>1, <3>4
      <4>2. Short(i)
        <5> HIDE DEF At
        <5> QED
          BY <4>1
      <4> HIDE DEF Short
      <4> QED
        BY <1>1, <4>2
  <2> QED
    BY <1>6, <2>1, <2>2, <2>3
<1>7. N \in G
  <2>1. \A i \in 0 .. N : i \in G
    <3> HIDE DEF G, N
    <3> QED
      BY <1>1, <1>5, <1>6, BoundedInduction
  <2>2. N \in 0 .. N
    BY <1>1
  <2> HIDE DEF G
  <2> QED
    BY <2>1, <2>2
<1>8. CASE Untouched(N)
  <2>1. RemoveNamed(l, n) = l
    <3>1. walk[N].list = l /\ walk[N].size = N
      BY <1>8
    <3> QED
      BY <1>1, <1>3, <3>1
  <2> QED
    BY <1>8, <2>1 DEF Holds, Distinct
<1>9. CASE Short(N)
  <2>1. PICK p \in 1 .. N :
          nameOf[l[p]] = n /\ walk[N] = [list |-> Without(p), size |-> N - 1]
    BY <1>9
  <2> DEFINE r == SubSeq(Without(p), 1, N - 1)
  <2>2. RemoveNamed(l, n) = r
    BY <1>3, <2>1
  <2>3. /\ r \in Seq(SeatIds) /\ Len(r) = N - 1
        /\ \A j \in 1 .. N - 1 : r[j] = IF j >= p THEN l[j + 1] ELSE l[j]
    BY <1>1
  <2> HIDE DEF r
  <2>4. Distinct(r)
    BY <1>1, <2>3 DEF Distinct
  <2>5. ASSUME NEW s \in SeatIds PROVE Holds(r, s) <=> nameOf[s] # n /\ Holds(l, s)
    <3>1. ASSUME NEW j \in 1 .. Len(r), r[j] = s PROVE nameOf[s] # n /\ Holds(l, s)
      <4>1. CASE j >= p
        BY <1>1, <2>1, <2>3, <3>1, <4>1, j + 1 \in 1 .. N, j + 1 # p DEF Holds
      <4>2. CASE j < p
        BY <1>1, <2>1, <2>3, <3>1, <4>2, j \in 1 .. N DEF Holds
      <4> QED
        BY <2>3, <4>1, <4>2
    <3>2. ASSUME nameOf[s] # n, NEW j \in 1 .. N, l[j] = s PROVE Holds(r, s)
      <4>1. CASE j > p
        <5>1. j - 1 \in 1 .. N - 1 /\ j - 1 >= p /\ (j - 1) + 1 = j
          BY <1>1, <2>1, <4>1
        <5>2. r[j - 1] = s
          BY <2>3, <3>2, <5>1
        <5> QED
          BY <2>3, <5>1, <5>2 DEF Holds
      <4>2. CASE j < p
        BY <1>1, <2>1, <2>3, <3>2, <4>2, j \in 1 .. N - 1 DEF Holds
      <4> QED
        BY <2>1, <3>2, <4>1, <4>2
    <3> QED
      BY <3>1, <3>2 DEF Holds
  <2> QED
    BY <2>2, <2>4, <2>5, <2>3
<1> QED
  BY <1>7, <1>8, <1>9

-----------------------------------------------------------------------------
(* The inductive invariant.  A name has one LogindSeat at most.            *)
Watchings ==
  /\ systemSeats \in [Names -> Nat]
  /\ watched \in Seq([name : Names, value : BOOLEAN]) /\ Len(watched) <= MaxWatchers
  /\ watchers \subseteq 1 .. Len(watched) /\ asking \subseteq 1 .. Len(watched)
  /\ \A w \in watchers : systemSeats[watched[w].name] = w
  /\ \A n \in Names : systemSeats[n] # 0 =>
       systemSeats[n] \in watchers /\ watched[systemSeats[n]].name = n

(* The Seats are those in m_seats, and published once.                     *)
SeatObjects ==
  /\ seats \in [Names -> Nat] /\ nameOf \in Seq(Names) /\ Len(nameOf) <= MaxSeats
  /\ published \in Seq(SeatIds) /\ alive \subseteq 1 .. Len(nameOf)
  /\ alive = {seats[n] : n \in Names} \ {0}
  /\ \A n \in Names : seats[n] # 0 => nameOf[seats[n]] = n
  /\ Distinct(published) /\ \A s \in SeatIds : Holds(published, s) <=> s \in alive

(* A seat is none to the daemon, or it has a LogindSeat that takes it for  *)
(* graphical or not; it has a Seat when it does.                           *)
States == {"none", "dark", "lit"}
Says(value) == IF value THEN "lit" ELSE "dark"
Now(n) == IF systemSeats[n] = 0 THEN "none" ELSE Says(watched[systemSeats[n]].value)
Agreement == \A n \in Names : seats[n] # 0 <=> Now(n) = "lit"

(* The bus: the list comes first, and nothing before it is asked for.      *)
Channel ==
  /\ graphical \subseteq known /\ known \subseteq Names
  /\ bus \in Seq(Msg) /\ listing \in {"asked", "answered", "done"} /\ subscribed \in BOOLEAN
  /\ listing = "asked" => bus = <<>> /\ watchers = {} /\ asking = {}
  /\ listing = "answered" => bus # <<>> /\ bus[1].type = "list" /\ bus[1].names \subseteq known
  /\ \A i \in 1 .. Len(bus) : bus[i].type = "list" => i = 1 /\ listing = "answered"
  /\ \A i \in 1 .. Len(bus) : bus[i].type = "got" => bus[i].watcher \in 1 .. Len(watched)

(* What a message is for the seat n, whose LogindSeat is s.                *)
Creates(n, m)    == \/ m.type = "new" /\ m.name = n
                    \/ m.type = "list" /\ n \in m.names
Removes(n, m)    == m.type = "removed" /\ m.name = n
Tells(n, m)      == m.type = "changed" /\ m.name = n
Answers(s, m)    == m.type = "got" /\ m.valid /\ m.watcher = s
Coming(n)        == \E i \in 1 .. Len(bus) : Creates(n, bus[i])
Kept(n, k)       == \A i \in 1 .. k : ~Removes(n, bus[i])

(* A message leads from a to b, and it comes when it has something to say. *)
Effect(n, s, m, a, b) ==
  IF Creates(n, m) THEN a = "none" /\ b = "dark"
  ELSE IF Removes(n, m) THEN a # "none" /\ b = "none"
  ELSE IF Tells(n, m) THEN a # "none" /\ (m.value => a = "dark") /\ b = Says(m.value)
  ELSE IF Answers(s, m) THEN b = Says(m.value)
  ELSE b = a

Chain(n, s, l, t) == \A i \in 1 .. Len(l) : Effect(n, s, l[i], t[i - 1], t[i])

Rest(n, s, l, t, u) == Chain(n, s, Tail(l), u) /\ \A i \in 0 .. Len(l) - 1 : u[i] = t[i + 1]

(* t[i] is what the seat n is to the daemon when it has handled i of the   *)
(* messages.  At the end it is what logind knows, unless there is a Get to *)
(* come.                                                                   *)
Timeline(n, t) ==
  /\ Chain(n, systemSeats[n], bus, t)
  /\ t[0] = Now(n)
  /\ listing # "asked" => (t[Len(bus)] # "none" <=> n \in known)
  /\ t[Len(bus)] = "lit" => n \in graphical
  /\ t[Len(bus)] = "dark" /\ n \in graphical => systemSeats[n] \in asking \/ Coming(n)
  /\ \A i \in 0 .. Len(bus) : t[i] = "lit" => systemSeats[n] # 0 /\ Kept(n, i)

Follows(n) ==
  /\ \E t \in [0 .. Len(bus) -> States] : Timeline(n, t)
  /\ n \in known => Kept(n, Len(bus))
  /\ n \in known /\ listing # "asked" => systemSeats[n] # 0 \/ Coming(n)
  /\ \A i \in 1 .. Len(bus) : Answers(systemSeats[n], bus[i]) => Kept(n, i)

IInv == Watchings /\ SeatObjects /\ Agreement /\ Channel /\ \A n \in Names : Follows(n)

-----------------------------------------------------------------------------
(* Timelines.                                                              *)
LEMMA Extend ==
  ASSUME NEW n, NEW s, NEW l \in Seq(Msg), NEW m \in Msg, NEW t \in [0 .. Len(l) -> States],
         Chain(n, s, l, t), NEW b \in States, Effect(n, s, m, t[Len(l)], b)
  PROVE  \E u \in [0 .. Len(l) + 1 -> States] :
           /\ Chain(n, s, Append(l, m), u) /\ u[Len(l) + 1] = b
           /\ \A i \in 0 .. Len(l) : u[i] = t[i]
<1> DEFINE k == Len(l)
           u == [i \in 0 .. k + 1 |-> IF i <= k THEN t[i] ELSE b]
<1>1. k \in Nat
  OBVIOUS
<1> HIDE DEF k
<1>2. /\ u \in [0 .. k + 1 -> States] /\ u[k + 1] = b
      /\ \A i \in 0 .. k : u[i] = t[i]
  BY <1>1 DEF k
<1> HIDE DEF u
<1>3. /\ Len(Append(l, m)) = k + 1 /\ Append(l, m)[k + 1] = m
      /\ \A i \in 1 .. k : Append(l, m)[i] = l[i]
  BY DEF k
<1>4. ASSUME NEW i \in 1 .. k + 1 PROVE Effect(n, s, Append(l, m)[i], u[i - 1], u[i])
  <2>1. CASE i = k + 1
    <3>1. u[i - 1] = t[k]
      BY <1>1, <1>2, <2>1
    <3> QED
      BY <1>2, <1>3, <2>1, <3>1 DEF k
  <2>2. CASE i <= k
    <3>1. u[i - 1] = t[i - 1] /\ u[i] = t[i] /\ i \in 1 .. k
      BY <1>1, <1>2, <2>2
    <3>2. Effect(n, s, l[i], t[i - 1], t[i])
      BY <3>1 DEF Chain, k
    <3> QED
      BY <1>3, <3>1, <3>2
  <2> QED
    BY <1>1, <2>1, <2>2
<1>5. Chain(n, s, Append(l, m), u)
  BY <1>3, <1>4 DEF Chain
<1> QED
  BY <1>2, <1>5 DEF k

LEMMA Shift ==
  ASSUME NEW n, NEW s, NEW l \in Seq(Msg), l # <<>>, NEW t \in [0 .. Len(l) -> States],
         Chain(n, s, l, t)
  PROVE  \E u \in [0 .. Len(l) - 1 -> States] : Rest(n, s, l, t, u)
<1> DEFINE k == Len(l)
           u == [i \in 0 .. k - 1 |-> t[i + 1]]
<1>1. k \in Nat \ {0}
  OBVIOUS
<1>2. Len(Tail(l)) = k - 1 /\ \A i \in 1 .. k - 1 : Tail(l)[i] = l[i + 1]
  OBVIOUS
<1> HIDE DEF k
<1>3. u \in [0 .. k - 1 -> States] /\ \A i \in 0 .. k - 1 : u[i] = t[i + 1]
  BY <1>1 DEF k
<1> HIDE DEF u
<1>4. ASSUME NEW i \in 1 .. k - 1 PROVE Effect(n, s, Tail(l)[i], u[i - 1], u[i])
  <2>1. u[i - 1] = t[(i + 1) - 1] /\ u[i] = t[i + 1] /\ i + 1 \in 1 .. k
    BY <1>1, <1>3
  <2>2. Effect(n, s, l[i + 1], t[(i + 1) - 1], t[i + 1])
    BY <2>1 DEF Chain, k
  <2> QED
    BY <1>2, <2>1, <2>2
<1>5. Chain(n, s, Tail(l), u)
  BY <1>2, <1>4 DEF Chain
<1> QED
  BY <1>3, <1>5 DEF k, Rest

LEMMA SameAnswers ==
  ASSUME NEW n, NEW s, NEW s2, NEW l \in Seq(Msg), NEW t, Chain(n, s, l, t),
         \A i \in 1 .. Len(l) : Answers(s2, l[i]) <=> Answers(s, l[i])
  PROVE  Chain(n, s2, l, t)
<1> SUFFICES ASSUME NEW i \in 1 .. Len(l) PROVE Effect(n, s2, l[i], t[i - 1], t[i])
  BY DEF Chain
<1>1. Effect(n, s, l[i], t[i - 1], t[i])
  BY DEF Chain
<1> QED
  BY <1>1, Zenon DEF Effect

(* A message that is sent extends the timeline of a seat.                  *)
LEMMA Sent ==
  ASSUME NEW n \in Names, bus \in Seq(Msg), NEW m \in Msg, bus' = Append(bus, m),
         UNCHANGED <<systemSeats, watched>>,
         NEW t \in [0 .. Len(bus) -> States], Timeline(n, t),
         \A i \in 1 .. Len(bus) : Answers(systemSeats[n], bus[i]) => Kept(n, i),
         NEW b \in States, Effect(n, systemSeats[n], m, t[Len(bus)], b),
         listing' # "asked" => (b # "none" <=> n \in known'),
         b = "lit" => n \in graphical' /\ systemSeats[n] # 0 /\ Kept(n, Len(bus)) /\ ~Removes(n, m),
         b = "dark" /\ n \in graphical' => systemSeats[n] \in asking' \/ Coming(n) \/ Creates(n, m),
         n \in known' => Kept(n, Len(bus)) /\ ~Removes(n, m),
         n \in known' /\ listing' # "asked" => systemSeats[n] # 0 \/ Coming(n) \/ Creates(n, m),
         Answers(systemSeats[n], m) => Kept(n, Len(bus)) /\ ~Removes(n, m)
  PROVE  Follows(n)'
<1>1. PICK k \in Nat : k = Len(bus)
  OBVIOUS
<1>2. /\ Len(bus') = k + 1 /\ bus'[k + 1] = m
      /\ \A i \in 1 .. k : bus'[i] = bus[i]
  BY <1>1
<1>3. PICK u \in [0 .. k + 1 -> States] :
         /\ Chain(n, systemSeats[n], Append(bus, m), u) /\ u[k + 1] = b
         /\ \A i \in 0 .. k : u[i] = t[i]
  <2>1. Chain(n, systemSeats[n], bus, t)
    BY <1>1 DEF Timeline
  <2> QED
    BY <1>1, <2>1, Extend
<1>4. \A i \in 0 .. k : Kept(n, i)' <=> Kept(n, i)
  <2> SUFFICES ASSUME NEW i \in 0 .. k PROVE Kept(n, i)' <=> Kept(n, i)
    BY <1>1
  <2>1. \A j \in 1 .. i : bus'[j] = bus[j]
    BY <1>1, <1>2
  <2> QED
    BY <1>1, <2>1 DEF Kept
<1>5. Kept(n, k + 1)' <=> Kept(n, k) /\ ~Removes(n, m)
  <2>1. \A j \in 1 .. k + 1 : j \in 1 .. k \/ j = k + 1
    BY <1>1
  <2>2. k + 1 \in 1 .. k + 1 /\ \A j \in 1 .. k : j \in 1 .. k + 1
    BY <1>1
  <2>3. (\A j \in 1 .. k + 1 : ~Removes(n, bus'[j])) <=> (\A j \in 1 .. k : ~Removes(n, bus[j])) /\ ~Removes(n, m)
    BY <1>2, <2>1, <2>2, Zenon
  <2> QED
    BY <1>1, <2>3 DEF Kept
<1>6. Coming(n)' <=> Coming(n) \/ Creates(n, m)
  <2>1. Coming(n) <=> \E i \in 1 .. k : Creates(n, bus'[i])
    BY <1>1, <1>2 DEF Coming
  <2>2. Coming(n)' <=> \E i \in 1 .. k + 1 : Creates(n, bus'[i])
    BY <1>1, <1>2 DEF Coming
  <2> HIDE DEF Creates
  <2> QED
    BY <1>1, <1>2, <2>1, <2>2
<1>7. Timeline(n, u)'
  <2>1. Chain(n, systemSeats'[n], bus', u)
    BY <1>1, <1>3
  <2>2. u[0] = Now(n)'
    BY <1>1, <1>3 DEF Timeline, Now
  <2>3. ASSUME NEW i \in 0 .. k + 1, u[i] = "lit" PROVE systemSeats[n] # 0 /\ Kept(n, i)'
    <3>1. CASE i = k + 1
      BY <1>1, <1>3, <1>5, <2>3, <3>1
    <3>2. CASE i \in 0 .. k
      BY <1>1, <1>3, <1>4, <2>3, <3>2 DEF Timeline
    <3> QED
      BY <1>1, <3>1, <3>2
  <2> QED
    BY <1>1, <1>2, <1>3, <1>6, <2>1, <2>2, <2>3 DEF Timeline
<1>8. \A i \in 1 .. k + 1 : Answers(systemSeats[n], bus'[i]) => Kept(n, i)'
  <2> SUFFICES ASSUME NEW i \in 1 .. k + 1, Answers(systemSeats[n], bus'[i]) PROVE Kept(n, i)'
    BY <1>1
  <2>1. CASE i = k + 1
    <3>1. Answers(systemSeats[n], m)
      BY <1>1, <1>2, <2>1
    <3> QED
      BY <1>1, <1>5, <2>1, <3>1
  <2>2. CASE i \in 1 .. k
    BY <1>1, <1>2, <1>4, <2>2
  <2> QED
    BY <1>1, <2>1, <2>2
<1> QED
  BY <1>1, <1>2, <1>3, <1>5, <1>6, <1>7, <1>8 DEF Follows

(* What happens without a message must leave the daemon right.             *)
LEMMA Unsent ==
  ASSUME NEW n \in Names, Follows(n), UNCHANGED <<bus, systemSeats, watched>>,
         NEW t \in [0 .. Len(bus) -> States], Timeline(n, t),
         listing' # "asked" => (t[Len(bus)] # "none" <=> n \in known'),
         t[Len(bus)] = "lit" => n \in graphical',
         t[Len(bus)] = "dark" /\ n \in graphical' => systemSeats[n] \in asking' \/ Coming(n),
         n \in known' => Kept(n, Len(bus)),
         n \in known' /\ listing' # "asked" => systemSeats[n] # 0 \/ Coming(n)
  PROVE  Follows(n)'
<1>1. (Coming(n)' <=> Coming(n)) /\ \A i : Kept(n, i)' <=> Kept(n, i)
  BY DEF Coming, Kept
<1>2. Timeline(n, t)'
  BY <1>1 DEF Timeline, Now
<1> QED
  BY <1>1, <1>2 DEF Follows

(* A message that is handled makes the daemon what the timeline says.      *)
LEMMA Handled ==
  ASSUME NEW n \in Names, Follows(n), bus \in Seq(Msg), bus # <<>>, bus' = Tail(bus),
         UNCHANGED <<known, graphical>>, listing # "asked",
         NEW t \in [0 .. Len(bus) -> States], Timeline(n, t),
         Now(n)' = t[1],
         \A i \in 2 .. Len(bus) : Answers(systemSeats'[n], bus[i]) <=> Answers(systemSeats[n], bus[i]),
         n \in known /\ (systemSeats[n] \in asking \/ Creates(n, bus[1])) =>
           systemSeats'[n] \in asking' \/ t[Len(bus)] # "dark" \/ n \notin graphical,
         systemSeats[n] # 0 /\ ~Removes(n, bus[1]) => systemSeats'[n] # 0,
         Creates(n, bus[1]) => systemSeats'[n] # 0
  PROVE  Follows(n)'
<1>1. PICK k \in Nat \ {0} : k = Len(bus)
  OBVIOUS
<1>2. Len(bus') = k - 1 /\ \A i \in 1 .. k - 1 : bus'[i] = bus[i + 1]
  BY <1>1
<1>3. PICK u \in [0 .. k - 1 -> States] :
         Chain(n, systemSeats[n], Tail(bus), u) /\ \A i \in 0 .. k - 1 : u[i] = t[i + 1]
  <2>1. Chain(n, systemSeats[n], bus, t)
    BY <1>1 DEF Timeline
  <2> QED
    <3>1. \E u \in [0 .. Len(bus) - 1 -> States] : Rest(n, systemSeats[n], bus, t, u)
      BY <2>1, Shift
    <3> QED
      BY <1>1, <3>1 DEF Rest
<1>4. \A i \in 0 .. k - 1 : Kept(n, i + 1) => Kept(n, i)' /\ ~Removes(n, bus[1])
  <2> SUFFICES ASSUME NEW i \in 0 .. k - 1, Kept(n, i + 1) PROVE Kept(n, i)' /\ ~Removes(n, bus[1])
    BY <1>1
  <2>1. ASSUME NEW j \in 1 .. i PROVE ~Removes(n, bus'[j])
    <3>1. j + 1 \in 1 .. i + 1 /\ bus'[j] = bus[j + 1]
      BY <1>1, <1>2
    <3> QED
      BY <1>1, <3>1 DEF Kept
  <2>2. 1 \in 1 .. i + 1
    BY <1>1
  <2>3. ~Removes(n, bus[1])
    BY <1>1, <2>2 DEF Kept
  <2> QED
    BY <1>1, <2>1, <2>3 DEF Kept
<1>5. Coming(n) => Coming(n)' \/ Creates(n, bus[1])
  <2> SUFFICES ASSUME NEW i \in 1 .. k, Creates(n, bus[i]), i # 1 PROVE Coming(n)'
    BY <1>1 DEF Coming
  <2>1. i - 1 \in 1 .. k - 1 /\ bus'[i - 1] = bus[i]
    BY <1>1, <1>2
  <2> QED
    BY <1>1, <1>2, <2>1 DEF Coming
<1>6. \A i \in 1 .. k - 1 : Answers(systemSeats'[n], bus'[i]) <=> Answers(systemSeats[n], bus'[i])
  <2> SUFFICES ASSUME NEW i \in 1 .. k - 1
               PROVE Answers(systemSeats'[n], bus'[i]) <=> Answers(systemSeats[n], bus'[i])
    BY <1>1
  <2>1. i + 1 \in 2 .. k /\ bus'[i] = bus[i + 1]
    BY <1>1, <1>2
  <2> QED
    BY <1>1, <2>1
<1>7. Chain(n, systemSeats'[n], bus', u)
  <2>1. bus' \in Seq(Msg) /\ Chain(n, systemSeats[n], bus', u)
    BY <1>1, <1>3
  <2> QED
    BY <1>1, <1>2, <1>6, <2>1, SameAnswers
<1>8. Timeline(n, u)'
  <2>1. u[0] = Now(n)' /\ u[k - 1] = t[k]
    BY <1>1, <1>3
  <2>2. listing' # "asked" => (u[k - 1] # "none" <=> n \in known')
    BY <1>1, <2>1 DEF Timeline
  <2>3. u[k - 1] = "lit" => n \in graphical'
    BY <1>1, <2>1 DEF Timeline
  <2>4. u[k - 1] = "dark" /\ n \in graphical' => systemSeats'[n] \in asking' \/ Coming(n)'
    <3>1. u[k - 1] = "dark" => n \in known
      BY <1>1, <2>1 DEF Timeline
    <3> QED
      BY <1>1, <1>5, <2>1, <3>1 DEF Timeline
  <2>5. ASSUME NEW i \in 0 .. k - 1, u[i] = "lit" PROVE systemSeats'[n] # 0 /\ Kept(n, i)'
    <3>1. t[i + 1] = "lit" /\ i + 1 \in 0 .. k
      BY <1>1, <1>3, <2>5
    <3>2. systemSeats[n] # 0 /\ Kept(n, i + 1)
      BY <1>1, <3>1 DEF Timeline
    <3> QED
      BY <1>1, <1>4, <3>2
  <2> QED
    BY <1>1, <1>2, <1>7, <2>1, <2>2, <2>3, <2>4, <2>5 DEF Timeline
<1>9. n \in known' => Kept(n, k - 1)' /\ ~Removes(n, bus[1])
  <2>1. k - 1 \in 0 .. k - 1 /\ (k - 1) + 1 = k
    BY <1>1
  <2>2. n \in known => Kept(n, (k - 1) + 1)
    BY <1>1, <2>1, Zenon DEF Follows
  <2> QED
    BY <1>1, <1>4, <2>1, <2>2
<1>10. n \in known' /\ listing' # "asked" => systemSeats'[n] # 0 \/ Coming(n)'
  BY <1>1, <1>5, <1>9 DEF Follows
<1>11. \A i \in 1 .. k - 1 : Answers(systemSeats'[n], bus'[i]) => Kept(n, i)'
  <2> SUFFICES ASSUME NEW i \in 1 .. k - 1, Answers(systemSeats'[n], bus'[i]) PROVE Kept(n, i)'
    BY <1>1
  <2>1. i + 1 \in 1 .. k /\ Answers(systemSeats[n], bus[i + 1])
    BY <1>1, <1>2, <1>6
  <2> QED
    BY <1>1, <1>4, <2>1 DEF Follows
<1> QED
  BY <1>2, <1>3, <1>8, <1>9, <1>10, <1>11 DEF Follows

-----------------------------------------------------------------------------
(* The Seats.                                                              *)
LEMMA RemoveSeatKeeps ==
  ASSUME SeatObjects, NEW n \in Names, RemoveSeat(n)
  PROVE  SeatObjects' /\ \A x \in Names : seats'[x] = IF x = n THEN 0 ELSE seats[x]
<1>1. CASE seats[n] = 0
  <2>1. UNCHANGED <<alive, nameOf, seats, published>>
    BY <1>1 DEF RemoveSeat, seatVars
  <2>2. Distinct(published)' /\ \A s \in SeatIds : Holds(published, s)' <=> s \in alive'
    BY <2>1 DEF SeatObjects, Distinct, Holds
  <2> QED
    BY <1>1, <2>1, <2>2 DEF SeatObjects
<1>2. CASE seats[n] # 0
  <2>1. /\ seats' = [seats EXCEPT ![n] = 0] /\ alive' = alive \ {seats[n]}
        /\ published' = RemoveNamed(published, n) /\ nameOf' = nameOf
    BY <1>2 DEF RemoveSeat
  <2>2. /\ seats' \in [Names -> Nat]
        /\ \A x \in Names : seats'[x] = IF x = n THEN 0 ELSE seats[x]
    BY <2>1 DEF SeatObjects
  <2>3. \A s \in alive : s \in SeatIds /\ seats[nameOf[s]] = s /\ nameOf[s] \in Names
    BY SeatManagerAssumption DEF SeatObjects, SeatIds
  <2>4. \A i \in 1 .. Len(published) : published[i] \in alive
    BY DEF SeatObjects, Holds
  <2>5. \A i, j \in 1 .. Len(published) : nameOf[published[i]] = nameOf[published[j]] => i = j
    <3>1. \A i, j \in 1 .. Len(published) :
             nameOf[published[i]] = nameOf[published[j]] => published[i] = published[j]
      BY <2>3, <2>4
    <3> QED
      BY <3>1 DEF SeatObjects, Distinct
  <2>6. /\ published' \in Seq(SeatIds) /\ Distinct(published')
        /\ \A s \in SeatIds : Holds(published', s) <=> nameOf[s] # n /\ Holds(published, s)
    BY <2>1, <2>5, RemoveNamedRemoves DEF SeatObjects
  <2>7. \A s \in SeatIds : Holds(published', s) <=> s \in alive'
    BY <1>2, <2>1, <2>3, <2>6 DEF SeatObjects
  <2>8. alive' = {seats'[x] : x \in Names} \ {0}
    BY <1>2, <2>1, <2>2 DEF SeatObjects
  <2>9. Distinct(published)' /\ \A s \in SeatIds : Holds(published, s)' <=> s \in alive'
    BY <2>6, <2>7 DEF Distinct, Holds
  <2> QED
    BY <2>1, <2>2, <2>6, <2>8, <2>9 DEF SeatObjects
<1> QED
  BY <1>1, <1>2

LEMMA CreateSeatKeeps ==
  ASSUME SeatObjects, NEW n \in Names, seats[n] = 0, CreateSeats(n, 1)
  PROVE  /\ SeatObjects' /\ seats'[n] # 0
         /\ \A x \in Names : x # n => seats'[x] = seats[x]
<1>1. PICK f \in Nat \ {0} : f = Len(nameOf) + 1
  BY DEF SeatObjects
<1> DEFINE one == [i \in 1 .. 1 |-> n]
           pub == [i \in 1 .. 1 |-> f + i - 1]
<1>2. /\ f + 1 - 1 <= MaxSeats /\ nameOf' = nameOf \o one
      /\ alive' = alive \cup (f .. f + 1 - 1)
      /\ seats' = [seats EXCEPT ![n] = IF 1 = 0 THEN @ ELSE f + 1 - 1]
      /\ published' = published \o pub
  BY <1>1, Zenon DEF CreateSeats
<1>3. one \in Seq(Names) /\ Len(one) = 1 /\ one[1] = n
  <2>1. one \in [1 .. 1 -> Names] /\ one[1] = n
    OBVIOUS
  <2> HIDE DEF one
  <2>2. one \in Seq(Names)
    <3>1. PICK k \in Nat : k = 1
      OBVIOUS
    <3>2. one \in [1 .. k -> Names]
      BY <2>1, <3>1
    <3> QED
      BY <3>2, SeqDef
  <2>3. DOMAIN one = 1 .. Len(one) /\ Len(one) \in Nat
    BY <2>2, LenProperties
  <2> QED
    BY <2>1, <2>2, <2>3
<1>4. f \in SeatIds
  BY <1>1, <1>2, SeatManagerAssumption DEF SeatIds
<1>5. pub \in Seq(SeatIds) /\ Len(pub) = 1 /\ pub[1] = f
  <2>1. pub \in [1 .. 1 -> SeatIds] /\ pub[1] = f
    BY <1>4
  <2> HIDE DEF pub
  <2> QED
    BY <2>1, SeqDef
<1> HIDE DEF one, pub
<1>6. /\ nameOf' \in Seq(Names) /\ Len(nameOf') = f /\ nameOf'[f] = n
      /\ \A i \in 1 .. f - 1 : nameOf'[i] = nameOf[i]
  <2>1. nameOf \in Seq(Names) /\ Len(nameOf) = f - 1
    BY <1>1 DEF SeatObjects
  <2> QED
    <3>1. /\ nameOf \o one \in Seq(Names) /\ Len(nameOf \o one) = Len(nameOf) + Len(one)
          /\ \A i \in 1 .. Len(nameOf) + Len(one) :
               (nameOf \o one)[i] = IF i <= Len(nameOf) THEN nameOf[i] ELSE one[i - Len(nameOf)]
      BY <1>3, <2>1, ConcatProperties
    <3> QED
      BY <1>1, <1>2, <1>3, <2>1, <3>1
<1>7. /\ published' \in Seq(SeatIds) /\ Len(published') = Len(published) + 1
      /\ published'[Len(published) + 1] = f
      /\ \A i \in 1 .. Len(published) : published'[i] = published[i]
  <2>1. published \in Seq(SeatIds)
    BY DEF SeatObjects
  <2> QED
    <3>1. /\ published \o pub \in Seq(SeatIds) /\ Len(published \o pub) = Len(published) + Len(pub)
          /\ \A i \in 1 .. Len(published) + Len(pub) :
               (published \o pub)[i] =
                 IF i <= Len(published) THEN published[i] ELSE pub[i - Len(published)]
      BY <1>5, <2>1, ConcatProperties
    <3>2. Len(published) \in Nat
      BY <2>1
    <3> QED
      BY <1>2, <1>5, <2>1, <3>1, <3>2
<1>8. alive' = alive \cup {f} /\ f \notin alive
  <2>1. f .. f + 1 - 1 = {f} /\ f \notin 1 .. Len(nameOf)
    BY <1>1
  <2> QED
    BY <1>2, <2>1 DEF SeatObjects
<1>9. /\ seats' \in [Names -> Nat] /\ seats'[n] = f
      /\ \A x \in Names : x # n => seats'[x] = seats[x]
  BY <1>1, <1>2 DEF SeatObjects
<1>10. alive' \subseteq 1 .. Len(nameOf') /\ Len(nameOf') <= MaxSeats
  BY <1>1, <1>2, <1>6, <1>8 DEF SeatObjects
<1>11. alive' = {seats'[x] : x \in Names} \ {0}
  BY <1>8, <1>9 DEF SeatObjects
<1>12. \A x \in Names : seats'[x] # 0 => nameOf'[seats'[x]] = x
  <2> SUFFICES ASSUME NEW x \in Names, seats'[x] # 0, x # n PROVE nameOf'[seats'[x]] = x
    BY <1>6, <1>9
  <2>1. seats[x] \in 1 .. f - 1 /\ nameOf[seats[x]] = x
    BY <1>1, <1>9 DEF SeatObjects
  <2> QED
    BY <1>6, <1>9, <2>1
<1>13. Distinct(published)' /\ \A s \in SeatIds : Holds(published, s)' <=> s \in alive'
  <2>1. Len(published) \in Nat /\ \A s \in SeatIds : Holds(published, s) <=> s \in alive
    BY DEF SeatObjects
  <2>2. \A s \in SeatIds : Holds(published', s) <=> Holds(published, s) \/ s = f
    BY <1>7, <2>1 DEF Holds
  <2>3. ~Holds(published, f)
    BY <1>4, <1>8, <2>1
  <2>4. Distinct(published')
    BY <1>7, <2>1, <2>3 DEF SeatObjects, Distinct, Holds
  <2> QED
    BY <1>8, <2>1, <2>2, <2>4 DEF Distinct, Holds
<1> QED
  BY <1>6, <1>7, <1>9, <1>10, <1>11, <1>12, <1>13 DEF SeatObjects

-----------------------------------------------------------------------------
(* What logind does.                                                       *)
LEMMA SameObjects ==
  ASSUME Watchings, SeatObjects, Agreement, UNCHANGED <<watchVars, seatVars>>,
         asking' \subseteq 1 .. Len(watched)
  PROVE  Watchings' /\ SeatObjects' /\ Agreement'
<1>1. UNCHANGED <<watchers, watched, systemSeats, alive, nameOf, seats, published>>
  BY DEF watchVars, seatVars
<1>2. Watchings'
  BY <1>1 DEF Watchings
<1>3. Distinct(published)' /\ \A s \in SeatIds : Holds(published, s)' <=> s \in alive'
  BY <1>1 DEF SeatObjects, Distinct, Holds
<1>4. SeatObjects'
  BY <1>1, <1>3 DEF SeatObjects
<1>5. Agreement'
  BY <1>1 DEF Agreement, Now
<1> QED
  BY <1>2, <1>4, <1>5

LEMMA ChannelAppended ==
  ASSUME Channel, NEW m \in Msg, m.type # "list", bus' = Append(bus, m), listing # "asked",
         m.type = "got" => m.watcher \in 1 .. Len(watched),
         UNCHANGED <<listing, subscribed, watched>>,
         graphical' \subseteq known' /\ known' \subseteq Names,
         listing = "answered" => known \subseteq known'
  PROVE  Channel'
<1>1. PICK k \in Nat : k = Len(bus)
  BY DEF Channel
<1>2. /\ bus' \in Seq(Msg) /\ Len(bus') = k + 1 /\ bus'[k + 1] = m
      /\ \A i \in 1 .. k : bus'[i] = bus[i]
  BY <1>1 DEF Channel
<1>3. \A i \in 1 .. k + 1 : i \in 1 .. k \/ i = k + 1
  BY <1>1
<1>4. \A i \in 1 .. k + 1 : bus'[i].type = "list" => i = 1 /\ listing = "answered"
  BY <1>1, <1>2, <1>3 DEF Channel
<1>5. \A i \in 1 .. k + 1 : bus'[i].type = "got" => bus'[i].watcher \in 1 .. Len(watched)
  BY <1>1, <1>2, <1>3 DEF Channel
<1>6. listing = "answered" => bus' # <<>> /\ bus'[1].type = "list" /\ bus'[1].names \subseteq known'
  <2> SUFFICES ASSUME listing = "answered"
               PROVE bus' # <<>> /\ bus'[1].type = "list" /\ bus'[1].names \subseteq known'
    OBVIOUS
  <2>1. 1 \in 1 .. k
    BY <1>1 DEF Channel
  <2> QED
    BY <1>2, <2>1 DEF Channel
<1> QED
  BY <1>2, <1>4, <1>5, <1>6 DEF Channel

(* A message about one seat is none for another.                           *)
LEMMA SentElsewhere ==
  ASSUME NEW n \in Names, Follows(n), bus \in Seq(Msg), NEW m \in Msg, bus' = Append(bus, m),
         ~Creates(n, m), ~Removes(n, m), ~Tells(n, m), ~Answers(systemSeats[n], m),
         UNCHANGED <<systemSeats, watched, listing>>,
         n \in known' <=> n \in known, n \in graphical' <=> n \in graphical,
         systemSeats[n] \in asking => systemSeats[n] \in asking'
  PROVE  Follows(n)'
<1>1. PICK t \in [0 .. Len(bus) -> States] : Timeline(n, t)
  BY DEF Follows
<1>2. t[Len(bus)] \in States /\ Len(bus) \in 0 .. Len(bus)
  OBVIOUS
<1>3. Effect(n, systemSeats[n], m, t[Len(bus)], t[Len(bus)])
  BY DEF Effect
<1> QED
  BY <1>1, <1>2, <1>3, Sent DEF Follows, Timeline

LEMMA SeatAppearsKeeps ==
  ASSUME IInv, DaemonKeepsUp, NEW n \in Names, SeatAppears(n)
  PROVE  IInv'
<1> DEFINE m == [type |-> "new", name |-> n]
<1>1. /\ listing = "done" /\ subscribed /\ n \notin known /\ known' = known \cup {n}
      /\ graphical' \in {graphical, graphical \cup {n}} /\ bus' = Append(bus, m)
      /\ \A i \in DOMAIN bus : bus[i] # Removal(n)
      /\ UNCHANGED <<listing, subscribed, asking, watchVars, seatVars>>
  BY DEF SeatAppears, MayCome, Initialized, Signal
<1>2. m \in Msg /\ m.type = "new" /\ m.name = n
  BY DEF Msg
<1> HIDE DEF m
<1>3. bus \in Seq(Msg) /\ n \notin graphical
  BY <1>1 DEF IInv, Channel
<1>4. Watchings' /\ SeatObjects' /\ Agreement'
  BY <1>1, SameObjects DEF IInv, Watchings
<1>5. Channel'
  BY <1>1, <1>2, ChannelAppended DEF IInv, Channel, watchVars
<1>6. ASSUME NEW x \in Names, x # n PROVE Follows(x)'
  BY <1>1, <1>2, <1>3, <1>6, SentElsewhere DEF IInv, watchVars, Creates, Removes, Tells, Answers
<1>7. Follows(n)'
  <2>1. PICK t \in [0 .. Len(bus) -> States] : Timeline(n, t)
    BY DEF IInv, Follows
  <2>2. t[Len(bus)] = "none"
    BY <1>1, <2>1 DEF Timeline
  <2>3. Kept(n, Len(bus))
    <3> SUFFICES ASSUME NEW i \in 1 .. Len(bus), Removes(n, bus[i]) PROVE FALSE
      BY DEF Kept
    <3>1. bus[i] \in Msg
      BY <1>3
    <3>2. bus[i] = Removal(n)
      BY <3>1 DEF Msg, Removes, Removal
    <3> QED
      BY <1>1, <1>3, <3>2
  <2>4. Creates(n, m) /\ ~Removes(n, m) /\ ~Answers(systemSeats[n], m)
    BY <1>2 DEF Creates, Removes, Answers
  <2>5. Effect(n, systemSeats[n], m, t[Len(bus)], "dark")
    BY <2>2, <2>4 DEF Effect
  <2>6. \A i \in 1 .. Len(bus) : Answers(systemSeats[n], bus[i]) => Kept(n, i)
    BY DEF IInv, Follows
  <2>7. UNCHANGED <<systemSeats, watched>> /\ n \in known' /\ "dark" \in States /\ "dark" # "lit"
    BY <1>1 DEF watchVars, States
  <2> QED
    BY <1>1, <1>2, <1>3, <2>1, <2>3, <2>4, <2>5, <2>6, <2>7, Sent
<1> QED
  BY <1>4, <1>5, <1>6, <1>7 DEF IInv

LEMMA SeatVanishesKeeps ==
  ASSUME IInv, DaemonKeepsUp, NEW n \in Names, SeatVanishes(n)
  PROVE  IInv'
<1> DEFINE m == Removal(n)
<1>1. /\ listing = "done" /\ subscribed /\ n \in known /\ known' = known \ {n}
      /\ graphical' = graphical \ {n} /\ bus' = Append(bus, m)
      /\ UNCHANGED <<listing, subscribed, asking, watchVars, seatVars>>
  BY DEF SeatVanishes, MayGo, Initialized, Signal
<1>2. m \in Msg /\ m.type = "removed" /\ m.name = n
  BY DEF Msg, Removal
<1> HIDE DEF m
<1>3. bus \in Seq(Msg) /\ graphical' \subseteq known' /\ known' \subseteq Names
  BY <1>1 DEF IInv, Channel
<1>4. Watchings' /\ SeatObjects' /\ Agreement'
  BY <1>1, SameObjects DEF IInv, Watchings
<1>5. Channel'
  BY <1>1, <1>2, <1>3, ChannelAppended DEF IInv, watchVars
<1>6. ASSUME NEW x \in Names, x # n PROVE Follows(x)'
  BY <1>1, <1>2, <1>3, <1>6, SentElsewhere DEF IInv, watchVars, Creates, Removes, Tells, Answers
<1>7. Follows(n)'
  <2>1. PICK t \in [0 .. Len(bus) -> States] : Timeline(n, t)
    BY DEF IInv, Follows
  <2>2. t[Len(bus)] # "none"
    BY <1>1, <2>1 DEF Timeline
  <2>4. ~Creates(n, m) /\ Removes(n, m) /\ ~Answers(systemSeats[n], m)
    BY <1>2 DEF Creates, Removes, Answers
  <2>5. Effect(n, systemSeats[n], m, t[Len(bus)], "none")
    BY <2>2, <2>4 DEF Effect
  <2>6. \A i \in 1 .. Len(bus) : Answers(systemSeats[n], bus[i]) => Kept(n, i)
    BY DEF IInv, Follows
  <2>7. /\ UNCHANGED <<systemSeats, watched>> /\ n \notin known'
        /\ "none" \in States /\ "none" # "lit" /\ "none" # "dark"
    BY <1>1 DEF watchVars, States
  <2> QED
    BY <1>1, <1>2, <1>3, <2>1, <2>4, <2>5, <2>6, <2>7, Sent
<1> QED
  BY <1>4, <1>5, <1>6, <1>7 DEF IInv

(* A change that nobody hears of finds no LogindSeat, and the one to come  *)
(* will ask.                                                               *)
LEMMA DevicesChangeKeeps ==
  ASSUME IInv, NEW n \in Names, DevicesChange(n)
  PROVE  IInv'
<1> DEFINE m == [type |-> "changed", name |-> n, value |-> n \in graphical']
<1>1. /\ n \in known /\ graphical' \in {graphical \cup {n}, graphical \ {n}}
      /\ n \in graphical => n \notin graphical'
      /\ bus' = IF Watching(n) THEN Append(bus, m) ELSE bus
      /\ UNCHANGED <<known, listing, subscribed, asking, watchVars, seatVars>>
  BY DEF DevicesChange, Signal
<1>2. m \in Msg /\ m.type = "changed" /\ m.name = n /\ m.value = (n \in graphical')
  BY DEF Msg
<1> HIDE DEF m
<1>3. /\ bus \in Seq(Msg) /\ graphical' \subseteq known' /\ known' \subseteq Names
      /\ UNCHANGED <<systemSeats, watched, watchers>>
  BY <1>1 DEF IInv, Channel, watchVars
<1>4. Watching(n) <=> systemSeats[n] # 0
  <2>1. systemSeats[n] # 0 => Watching(n)
    BY DEF IInv, Watchings, Watching
  <2>2. Watching(n) => systemSeats[n] # 0
    <3> SUFFICES ASSUME NEW w \in watchers, watched[w].name = n PROVE systemSeats[n] # 0
      BY DEF Watching
    <3> QED
      BY DEF IInv, Watchings
  <2> QED
    BY <2>1, <2>2
<1>5. Watchings' /\ SeatObjects' /\ Agreement'
  BY <1>1, SameObjects DEF IInv, Watchings
<1>6. PICK t \in [0 .. Len(bus) -> States] : Timeline(n, t)
  BY DEF IInv, Follows
<1>7. /\ \A i \in 1 .. Len(bus) : Answers(systemSeats[n], bus[i]) => Kept(n, i)
      /\ Kept(n, Len(bus)) /\ Len(bus) \in Nat
  BY <1>1, <1>3 DEF IInv, Follows
<1>8. CASE Watching(n)
  <2>1. bus' = Append(bus, m) /\ systemSeats[n] # 0 /\ listing # "asked"
    BY <1>1, <1>4, <1>8 DEF IInv, Channel, Watching
  <2>2. Channel'
    BY <1>1, <1>2, <1>3, <2>1, ChannelAppended DEF IInv
  <2>3. ASSUME NEW x \in Names, x # n PROVE Follows(x)'
    BY <1>1, <1>2, <1>3, <2>1, <2>3, SentElsewhere DEF IInv, Creates, Removes, Tells, Answers
  <2>4. Follows(n)'
    <3>1. t[Len(bus)] # "none" /\ t[Len(bus)] \in States /\ (t[Len(bus)] = "lit" => n \in graphical)
      BY <1>1, <1>6, <1>7, <2>1 DEF Timeline
    <3>2. ~Creates(n, m) /\ ~Removes(n, m) /\ Tells(n, m) /\ ~Answers(systemSeats[n], m)
      BY <1>2 DEF Creates, Removes, Tells, Answers
    <3> DEFINE b == Says(m.value)
    <3>3. /\ b \in States /\ b # "none" /\ (b = "lit" <=> n \in graphical')
          /\ (b = "dark" => n \notin graphical')
      BY <1>2 DEF Says, States
    <3>4. m.value => t[Len(bus)] = "dark"
      BY <1>1, <1>2, <3>1 DEF States
    <3>5. Effect(n, systemSeats[n], m, t[Len(bus)], b)
      BY <3>1, <3>2, <3>4 DEF Effect
    <3> HIDE DEF b
    <3> QED
      BY <1>1, <1>2, <1>3, <1>6, <1>7, <2>1, <3>2, <3>3, <3>5, Sent
  <2> QED
    BY <1>5, <2>2, <2>3, <2>4 DEF IInv
<1>9. CASE ~Watching(n)
  <2>1. bus' = bus /\ systemSeats[n] = 0
    BY <1>1, <1>4, <1>9
  <2>2. Channel'
    BY <1>1, <1>3, <2>1 DEF IInv, Channel
  <2>3. ASSUME NEW x \in Names PROVE Follows(x)'
    <3>1. PICK u \in [0 .. Len(bus) -> States] : Timeline(x, u)
      BY DEF IInv, Follows
    <3>2. Follows(x) /\ UNCHANGED <<bus, systemSeats, watched>>
      BY <1>3, <2>1 DEF IInv
    <3>3. CASE x # n
      BY <1>1, <3>1, <3>2, <3>3, Unsent DEF Follows, Timeline
    <3>4. CASE x = n
      <4>1. u[Len(bus)] # "lit"
        BY <1>7, <2>1, <3>1, <3>4 DEF Timeline
      <4>2. listing # "asked" => Coming(n)
        BY <1>1, <2>1, <3>2, <3>4 DEF Follows
      <4>3. listing = "asked" => u[Len(bus)] = "none"
        <5> SUFFICES ASSUME listing = "asked" PROVE u[Len(bus)] = "none"
          OBVIOUS
        <5>1. bus = <<>> /\ Len(bus) = 0
          BY DEF IInv, Channel
        <5> QED
          BY <2>1, <3>1, <3>4, <5>1 DEF Timeline, Now
      <4> QED
        BY <1>1, <1>7, <3>1, <3>2, <3>4, <4>1, <4>2, <4>3, Unsent DEF Timeline
    <3> QED
      BY <3>3, <3>4
  <2> QED
    BY <1>5, <2>2, <2>3 DEF IInv
<1> QED
  BY <1>8, <1>9

LEMMA AnswerListSeatsKeeps ==
  ASSUME IInv, AnswerListSeats
  PROVE  IInv'
<1> DEFINE m == [type |-> "list", names |-> known]
<1>1. /\ listing = "asked" /\ listing' = "answered" /\ bus' = Append(bus, m)
      /\ UNCHANGED <<known, graphical, subscribed, asking, watchVars, seatVars>>
  BY DEF AnswerListSeats, logindVars
<1>2. m \in Msg /\ m.type = "list" /\ m.names = known
  BY DEF Msg, IInv, Channel
<1> HIDE DEF m
<1>3. /\ bus = <<>> /\ Len(bus) = 0 /\ watchers = {} /\ asking = {}
      /\ UNCHANGED <<systemSeats, watched, watchers>>
  BY <1>1 DEF IInv, Channel, watchVars
<1>4. bus' \in Seq(Msg) /\ Len(bus') = 1 /\ bus'[1] = m
  BY <1>1, <1>2, <1>3
<1>5. Watchings' /\ SeatObjects' /\ Agreement'
  BY <1>1, SameObjects DEF IInv, Watchings
<1>6. Channel'
  BY <1>1, <1>2, <1>3, <1>4 DEF IInv, Channel
<1>7. ASSUME NEW n \in Names PROVE Follows(n)'
  <2>1. PICK t \in [0 .. Len(bus) -> States] : Timeline(n, t)
    BY DEF IInv, Follows
  <2>2. systemSeats[n] = 0
    BY <1>3 DEF IInv, Watchings
  <2>3. t[Len(bus)] = "none"
    BY <1>3, <2>1, <2>2 DEF Timeline, Now
  <2>4. (Creates(n, m) <=> n \in known) /\ ~Removes(n, m) /\ ~Tells(n, m) /\ ~Answers(systemSeats[n], m)
    BY <1>2 DEF Creates, Removes, Tells, Answers
  <2> DEFINE b == IF n \in known THEN "dark" ELSE "none"
  <2>5. Effect(n, systemSeats[n], m, t[Len(bus)], b)
    BY <2>3, <2>4 DEF Effect
  <2>6. b \in States /\ b # "lit" /\ (b # "none" <=> n \in known) /\ (b = "dark" => n \in known)
    BY DEF States
  <2> HIDE DEF b
  <2>7. /\ Kept(n, Len(bus)) /\ bus \in Seq(Msg)
        /\ \A i \in 1 .. Len(bus) : Answers(systemSeats[n], bus[i]) => Kept(n, i)
    BY <1>3 DEF Kept
  <2> QED
    BY <1>1, <1>2, <1>3, <2>1, <2>4, <2>5, <2>6, <2>7, Sent
<1> QED
  BY <1>5, <1>6, <1>7 DEF IInv

(* The reply is about the LogindSeat that asked, which a removal on its    *)
(* way would make go.                                                      *)
LEMMA AnswerGetKeeps ==
  ASSUME IInv, NEW w \in Watchers, AnswerGet(w)
  PROVE  IInv'
<1> DEFINE n == watched[w].name
           m == [type |-> "got", watcher |-> w, value |-> n \in graphical, valid |-> n \in known]
<1>1. /\ w \in asking /\ asking' = asking \ {w} /\ bus' = Append(bus, m)
      /\ UNCHANGED <<known, graphical, listing, subscribed, watchVars, seatVars>>
  BY DEF AnswerGet, logindVars
<1>2. /\ m \in Msg /\ m.type = "got" /\ m.watcher = w
      /\ m.value = (n \in graphical) /\ m.valid = (n \in known)
  BY DEF Msg
<1> HIDE DEF m, n
<1>3. /\ bus \in Seq(Msg) /\ w \in 1 .. Len(watched) /\ listing # "asked"
      /\ UNCHANGED <<systemSeats, watched, watchers>>
      /\ graphical' \subseteq known' /\ known' \subseteq Names
  BY <1>1 DEF IInv, Channel, Watchings, watchVars
<1>4. Watchings' /\ SeatObjects' /\ Agreement'
  BY <1>1, SameObjects DEF IInv, Watchings
<1>5. Channel'
  BY <1>1, <1>2, <1>3, ChannelAppended DEF IInv
<1>6. ASSUME NEW x \in Names PROVE Follows(x)'
  <2>1. ~Creates(x, m) /\ ~Removes(x, m) /\ ~Tells(x, m)
    BY <1>2 DEF Creates, Removes, Tells
  <2>2. CASE systemSeats[x] = w /\ m.valid
    <3>1. x = n /\ x \in known /\ systemSeats[x] # 0
      <4>1. systemSeats[x] # 0
        BY <1>3, <2>2
      <4>2. n = x
        BY <2>2, <4>1 DEF IInv, Watchings, n
      <4> QED
        BY <1>2, <2>2, <4>1, <4>2
    <3>2. PICK t \in [0 .. Len(bus) -> States] : Timeline(x, t)
      BY DEF IInv, Follows
    <3>3. /\ Kept(x, Len(bus))
          /\ \A i \in 1 .. Len(bus) : Answers(systemSeats[x], bus[i]) => Kept(x, i)
      BY <3>1 DEF IInv, Follows
    <3>4. Answers(systemSeats[x], m)
      BY <1>2, <2>2 DEF Answers
    <3> DEFINE b == Says(m.value)
    <3>5. /\ b \in States /\ b # "none" /\ (b = "lit" => x \in graphical)
          /\ (b = "dark" => x \notin graphical)
      BY <1>2, <3>1 DEF Says, States
    <3>6. Effect(x, systemSeats[x], m, t[Len(bus)], b)
      BY <2>1, <3>4 DEF Effect
    <3> HIDE DEF b
    <3> QED
      BY <1>1, <1>2, <1>3, <2>1, <3>1, <3>2, <3>3, <3>5, <3>6, Sent
  <2>3. CASE systemSeats[x] = w /\ ~m.valid
    <3>1. x \notin known /\ x \notin graphical
      <4>1. systemSeats[x] # 0
        BY <1>3, <2>3
      <4>2. n = x
        BY <2>3, <4>1 DEF IInv, Watchings, n
      <4>3. x \notin known
        BY <1>2, <2>3, <4>2
      <4> QED
        BY <4>3 DEF IInv, Channel
    <3>2. PICK t \in [0 .. Len(bus) -> States] : Timeline(x, t)
      BY DEF IInv, Follows
    <3>3. t[Len(bus)] = "none" /\ "none" \in States /\ "none" # "lit" /\ "none" # "dark"
      BY <1>3, <3>1, <3>2 DEF Timeline, States
    <3>4. ~Answers(systemSeats[x], m)
      BY <2>3 DEF Answers
    <3>5. Effect(x, systemSeats[x], m, t[Len(bus)], "none")
      BY <2>1, <3>3, <3>4 DEF Effect
    <3>6. \A i \in 1 .. Len(bus) : Answers(systemSeats[x], bus[i]) => Kept(x, i)
      BY DEF IInv, Follows
    <3> QED
      BY <1>1, <1>2, <1>3, <2>1, <3>1, <3>2, <3>3, <3>4, <3>5, <3>6, Sent
  <2>4. CASE systemSeats[x] # w
    <3>1. ~Answers(systemSeats[x], m)
      BY <1>2, <2>4 DEF Answers
    <3> QED
      BY <1>1, <1>2, <1>3, <2>1, <2>4, <3>1, SentElsewhere DEF IInv
  <2> QED
    BY <2>2, <2>3, <2>4
<1> QED
  BY <1>4, <1>5, <1>6 DEF IInv

LEMMA IdleKeeps ==
  ASSUME IInv, UNCHANGED <<known, graphical, listing, asking, bus, watchVars, seatVars>>,
         subscribed' \in BOOLEAN, subscribed => subscribed'
  PROVE  IInv'
<1>1. UNCHANGED <<systemSeats, watched, watchers>>
  BY DEF watchVars
<1>2. Watchings' /\ SeatObjects' /\ Agreement'
  BY SameObjects DEF IInv, Watchings
<1>3. Channel'
  BY <1>1 DEF IInv, Channel
<1>4. ASSUME NEW n \in Names PROVE Follows(n)'
  <2>1. PICK t \in [0 .. Len(bus) -> States] : Timeline(n, t)
    BY DEF IInv, Follows
  <2> QED
    BY <1>1, <2>1, Unsent DEF IInv, Follows, Timeline
<1> QED
  BY <1>2, <1>3, <1>4 DEF IInv

-----------------------------------------------------------------------------
(* What the daemon does with a message.                                    *)
LEMMA HeadSays ==
  ASSUME NEW n \in Names, bus \in Seq(Msg), bus # <<>>,
         NEW t \in [0 .. Len(bus) -> States], Timeline(n, t)
  PROVE  Effect(n, systemSeats[n], bus[1], Now(n), t[1]) /\ bus[1] = Head(bus) /\ bus[1] \in Msg
<1>1. 1 \in 1 .. Len(bus) /\ bus[1] = Head(bus) /\ bus[1] \in Msg
  OBVIOUS
<1>2. Effect(n, systemSeats[n], bus[1], t[1 - 1], t[1])
  BY <1>1, Zenon DEF Timeline, Chain
<1> QED
  BY <1>1, <1>2 DEF Timeline

LEMMA ChannelTail ==
  ASSUME Channel, bus # <<>>, bus' = Tail(bus), listing' = "done",
         UNCHANGED <<known, graphical, subscribed>>, NEW k \in Nat, k = Len(watched),
         NEW l \in Nat, l = Len(watched'), k <= l
  PROVE  Channel'
<1>1. PICK b \in Nat \ {0} : b = Len(bus)
  BY DEF Channel
<1>2. /\ bus' \in Seq(Msg) /\ Len(bus') = b - 1
      /\ \A i \in 1 .. b - 1 : bus'[i] = bus[i + 1] /\ i + 1 \in 1 .. b /\ i + 1 # 1
  BY <1>1 DEF Channel
<1>3. \A i \in 1 .. b - 1 : bus'[i].type # "list"
  BY <1>1, <1>2 DEF Channel
<1>4. \A i \in 1 .. b - 1 : bus'[i].type = "got" => bus'[i].watcher \in 1 .. l
  <2> SUFFICES ASSUME NEW i \in 1 .. b - 1, bus'[i].type = "got" PROVE bus'[i].watcher \in 1 .. l
    OBVIOUS
  <2>1. bus'[i].watcher \in 1 .. k
    BY <1>1, <1>2 DEF Channel
  <2>2. \A x \in 1 .. k : x \in 1 .. l
    OBVIOUS
  <2> QED
    BY <2>1, <2>2
<1> QED
  BY <1>2, <1>3, <1>4 DEF Channel

LEMMA WatchedNames ==
  ASSUME Watchings
  PROVE  \A w \in 1 .. Len(watched) : watched[w] \in [name : Names, value : BOOLEAN]
                                       /\ watched[w].name \in Names
<1> DEFINE R == [name : Names, value : BOOLEAN]
<1>1. watched \in Seq(R)
  BY DEF Watchings
<1>2. \A w \in 1 .. Len(watched) : watched[w] \in R
  <2> HIDE DEF R
  <2> QED
    BY <1>1
<1> QED
  BY <1>2

(* A new LogindSeat asks, and is not heard of before.                      *)
LEMMA AddedKeeps ==
  ASSUME IInv, NEW n \in Names, systemSeats[n] = 0, LogindSeatAdded(n)
  PROVE  /\ Watchings' /\ SeatObjects' /\ Agreement'
         /\ Now(n)' = "dark" /\ systemSeats'[n] = Len(watched) + 1 /\ systemSeats'[n] \in asking'
         /\ asking \subseteq asking' /\ Len(watched') = Len(watched) + 1
         /\ \A x \in Names : x # n => systemSeats'[x] = systemSeats[x] /\ Now(x)' = Now(x)
         /\ listing' = listing
<1>1. PICK w \in Nat \ {0} : w = Len(watched) + 1
  BY DEF IInv, Watchings
<1> DEFINE r == [name |-> n, value |-> FALSE]
<1>2. /\ w <= MaxWatchers /\ watchers' = watchers \cup {w} /\ watched' = Append(watched, r)
      /\ systemSeats' = [systemSeats EXCEPT ![n] = w] /\ asking' = asking \cup {w}
      /\ UNCHANGED <<listing, seatVars>>
  BY <1>1 DEF LogindSeatAdded
<1>3. r \in [name : Names, value : BOOLEAN] /\ r.name = n /\ r.value = FALSE
  OBVIOUS
<1> HIDE DEF r
<1>4. /\ watched' \in Seq([name : Names, value : BOOLEAN]) /\ Len(watched') = w
      /\ watched'[w] = r /\ \A i \in 1 .. w - 1 : watched'[i] = watched[i]
  BY <1>1, <1>2, <1>3 DEF IInv, Watchings
<1>5. /\ systemSeats' \in [Names -> Nat] /\ systemSeats'[n] = w
      /\ \A x \in Names : x # n => systemSeats'[x] = systemSeats[x]
  BY <1>2 DEF IInv, Watchings
<1>6. Watchings'
  <2>0. watchers \subseteq 1 .. w - 1 /\ asking \subseteq 1 .. w - 1 /\ w - 1 = Len(watched)
    <3>1. Len(watched) \in Nat /\ w - 1 = Len(watched)
      BY <1>1 DEF IInv, Watchings
    <3> QED
      BY <3>1 DEF IInv, Watchings
  <2>1. watchers' \subseteq 1 .. w /\ asking' \subseteq 1 .. w
    <3>1. \A i \in 1 .. w - 1 : i \in 1 .. w
      OBVIOUS
    <3> QED
      BY <1>2, <2>0, <3>1
  <2>2. ASSUME NEW i \in watchers' PROVE systemSeats'[watched'[i].name] = i
    <3>1. CASE i = w
      BY <1>3, <1>4, <1>5, <3>1
    <3>2. CASE i \in watchers
      <4>1. i \in 1 .. w - 1 /\ systemSeats[watched[i].name] = i /\ watched[i].name \in Names
        <5>1. i \in 1 .. Len(watched) /\ systemSeats[watched[i].name] = i
          BY <3>2 DEF IInv, Watchings
        <5>2. watched[i].name \in Names
          BY <5>1, WatchedNames DEF IInv
        <5> QED
          BY <2>0, <5>1, <5>2
      <4>2. watched[i].name # n
        BY <4>1
      <4> QED
        BY <1>4, <1>5, <4>1, <4>2
    <3> QED
      BY <1>2, <2>2, <3>1, <3>2
  <2>3. ASSUME NEW x \in Names, systemSeats'[x] # 0
        PROVE  systemSeats'[x] \in watchers' /\ watched'[systemSeats'[x]].name = x
    <3>1. CASE x = n
      BY <1>2, <1>3, <1>4, <1>5, <3>1
    <3>2. CASE x # n
      <4>1. systemSeats[x] \in watchers /\ watched[systemSeats[x]].name = x /\ systemSeats[x] \in 1 .. w - 1
        BY <1>1, <1>5, <2>3, <3>2 DEF IInv, Watchings
      <4> QED
        BY <1>2, <1>4, <1>5, <3>2, <4>1
    <3> QED
      BY <3>1, <3>2
  <2> QED
    BY <1>2, <1>4, <1>5, <2>1, <2>2, <2>3 DEF Watchings
<1>7. Now(n)' = "dark"
  BY <1>3, <1>4, <1>5 DEF Now, Says
<1>8. ASSUME NEW x \in Names, x # n PROVE Now(x)' = Now(x)
  <2>1. systemSeats[x] # 0 => systemSeats[x] \in 1 .. w - 1
    BY <1>1 DEF IInv, Watchings
  <2> QED
    BY <1>4, <1>5, <1>8, <2>1 DEF Now
<1>9. UNCHANGED <<alive, nameOf, seats, published>>
  BY <1>2 DEF seatVars
<1>10. SeatObjects'
  <2>1. Distinct(published)' /\ \A s \in SeatIds : Holds(published, s)' <=> s \in alive'
    BY <1>9 DEF IInv, SeatObjects, Distinct, Holds
  <2> QED
    BY <1>9, <2>1 DEF IInv, SeatObjects
<1>11. Agreement'
  <2>1. seats'[n] = 0
    BY <1>9 DEF IInv, Agreement, Now
  <2> QED
    BY <1>7, <1>8, <1>9, <2>1 DEF IInv, Agreement
<1> QED
  BY <1>1, <1>2, <1>4, <1>5, <1>6, <1>7, <1>8, <1>10, <1>11

(* What a LogindSeat takes its seat for changes, and the Seat with it.     *)
LEMMA ValueKeeps ==
  ASSUME IInv, NEW n \in Names, NEW w, w = systemSeats[n], w # 0, NEW value \in BOOLEAN,
         watched' \in Seq([name : Names, value : BOOLEAN]), Len(watched') = Len(watched),
         watched'[w] = [name |-> n, value |-> value],
         \A x \in 1 .. Len(watched) : x # w => watched'[x] = watched[x],
         UNCHANGED <<watchers, systemSeats, asking>>,
         CanGraphicalChanged(n, value, 1), value => Now(n) = "dark"
  PROVE  /\ Watchings' /\ SeatObjects' /\ Agreement' /\ Now(n)' = Says(value)
         /\ \A x \in Names : x # n => Now(x)' = Now(x)
<1>1. watched[systemSeats[n]].name = n /\ watched'[systemSeats[n]].name = n /\ watched'[systemSeats[n]].value = value
  BY DEF IInv, Watchings
<1>2. \A x \in 1 .. Len(watched) : watched'[x].name = watched[x].name
  BY <1>1
<1>3. Watchings'
  <2>1. ASSUME NEW x \in watchers PROVE systemSeats[watched'[x].name] = x
    BY <1>2 DEF IInv, Watchings
  <2>2. ASSUME NEW x \in Names, systemSeats[x] # 0
        PROVE  systemSeats[x] \in watchers /\ watched'[systemSeats[x]].name = x
    BY <1>2, <2>2 DEF IInv, Watchings
  <2> QED
    BY <2>1, <2>2 DEF IInv, Watchings
<1>4. Now(n)' = Says(value)
  BY <1>1 DEF Now
<1>5. ASSUME NEW x \in Names, x # n PROVE Now(x)' = Now(x)
  <2>1. systemSeats[x] # 0 => systemSeats[x] \in 1 .. Len(watched) /\ systemSeats[x] # systemSeats[n]
    BY <1>5 DEF IInv, Watchings
  <2> QED
    BY <2>1 DEF Now
<1>6. CASE value
  <2>1. seats[n] = 0 /\ CreateSeats(n, 1)
    BY <1>6 DEF IInv, Agreement, CanGraphicalChanged
  <2>2. SeatObjects' /\ seats'[n] # 0 /\ \A x \in Names : x # n => seats'[x] = seats[x]
    BY <2>1, CreateSeatKeeps DEF IInv
  <2>3. Agreement'
    BY <1>4, <1>5, <1>6, <2>2 DEF IInv, Agreement, Says
  <2> QED
    BY <1>3, <1>4, <1>5, <2>2, <2>3
<1>7. CASE ~value
  <2>1. RemoveSeat(n)
    BY <1>7 DEF CanGraphicalChanged
  <2>2. SeatObjects' /\ \A x \in Names : seats'[x] = IF x = n THEN 0 ELSE seats[x]
    BY <2>1, RemoveSeatKeeps DEF IInv
  <2>3. Agreement'
    BY <1>4, <1>5, <1>7, <2>2 DEF IInv, Agreement, Says
  <2> QED
    BY <1>3, <1>4, <1>5, <2>2, <2>3
<1> QED
  BY <1>6, <1>7

LEMMA NewKeeps ==
  ASSUME IInv, bus # <<>>, bus[1].type = "new", bus' = Tail(bus), LogindSeatAdded(bus[1].name),
         UNCHANGED <<known, graphical, subscribed>>
  PROVE  IInv'
<1>0. PICK n \in Names : n = bus[1].name
  <2>1. bus[1] \in Msg
    BY DEF IInv, Channel
  <2> QED
    BY <2>1 DEF Msg
<1>1. bus \in Seq(Msg) /\ bus[1] \in Msg /\ listing = "done"
  BY DEF IInv, Channel
<1>2. PICK t \in [0 .. Len(bus) -> States] : Timeline(n, t)
  BY <1>1 DEF IInv, Follows
<1>3. /\ Creates(n, bus[1]) /\ ~Removes(n, bus[1])
      /\ \A x \in Names : x # n => ~Creates(x, bus[1]) /\ ~Removes(x, bus[1]) /\ ~Tells(x, bus[1])
      /\ \A x : ~Answers(x, bus[1])
  BY <1>0 DEF Creates, Removes, Tells, Answers
<1>4. Effect(n, systemSeats[n], bus[1], Now(n), t[1])
  BY <1>1, <1>2, HeadSays
<1>5. Now(n) = "none" /\ t[1] = "dark"
  BY <1>3, <1>4 DEF Effect
<1>6. systemSeats[n] = 0
  BY <1>5 DEF Now, Says
<1>7. /\ Watchings' /\ SeatObjects' /\ Agreement'
      /\ Now(n)' = "dark" /\ systemSeats'[n] = Len(watched) + 1 /\ systemSeats'[n] \in asking'
      /\ asking \subseteq asking' /\ Len(watched') = Len(watched) + 1
      /\ \A x \in Names : x # n => systemSeats'[x] = systemSeats[x] /\ Now(x)' = Now(x)
      /\ listing' = listing
  BY <1>0, <1>6, AddedKeeps
<1>8. Len(watched) \in Nat
  BY DEF IInv, Watchings
<1>9. Channel'
  BY <1>1, <1>7, <1>8, ChannelTail DEF IInv
<1>10. Follows(n)'
  <2>1. ASSUME NEW i \in 2 .. Len(bus)
        PROVE  Answers(systemSeats'[n], bus[i]) <=> Answers(systemSeats[n], bus[i])
    <3>1. i \in 1 .. Len(bus)
      OBVIOUS
    <3>2. bus[i].type = "got" => bus[i].watcher \in 1 .. Len(watched)
      BY <3>1 DEF IInv, Channel
    <3> QED
      BY <1>6, <1>7, <1>8, <3>2 DEF Answers
  <2>2. systemSeats'[n] # 0
    BY <1>7, <1>8
  <2> QED
    BY <1>1, <1>2, <1>5, <1>7, <2>1, <2>2, Handled DEF IInv
<1>11. ASSUME NEW x \in Names, x # n PROVE Follows(x)'
  <2>1. PICK u \in [0 .. Len(bus) -> States] : Timeline(x, u)
    BY DEF IInv, Follows
  <2>2. Effect(x, systemSeats[x], bus[1], Now(x), u[1])
    BY <1>1, <2>1, HeadSays
  <2>3. u[1] = Now(x)'
    BY <1>3, <1>7, <1>11, <2>2 DEF Effect
  <2> QED
    BY <1>1, <1>3, <1>7, <1>11, <2>1, <2>3, Handled DEF IInv
<1> QED
  BY <1>7, <1>9, <1>10, <1>11 DEF IInv

LEMMA RemovedKeeps ==
  ASSUME IInv, bus # <<>>, bus[1].type = "removed", bus' = Tail(bus),
         LogindSeatRemoved(bus[1].name), UNCHANGED <<known, graphical, subscribed>>
  PROVE  IInv'
<1>0. PICK n \in Names : n = bus[1].name
  <2>1. bus[1] \in Msg
    BY DEF IInv, Channel
  <2> QED
    BY <2>1 DEF Msg
<1>1. bus \in Seq(Msg) /\ bus[1] \in Msg /\ listing = "done"
  BY DEF IInv, Channel
<1>2. PICK t \in [0 .. Len(bus) -> States] : Timeline(n, t)
  BY <1>1 DEF IInv, Follows
<1>3. /\ ~Creates(n, bus[1]) /\ Removes(n, bus[1])
      /\ \A x \in Names : x # n => ~Creates(x, bus[1]) /\ ~Removes(x, bus[1]) /\ ~Tells(x, bus[1])
      /\ \A x : ~Answers(x, bus[1])
  BY <1>0 DEF Creates, Removes, Tells, Answers
<1>4. Effect(n, systemSeats[n], bus[1], Now(n), t[1])
  BY <1>1, <1>2, HeadSays
<1>5. Now(n) # "none" /\ t[1] = "none"
  BY <1>3, <1>4 DEF Effect
<1>6. systemSeats[n] # 0
  BY <1>5 DEF Now
<1>7. /\ watchers' = watchers \ {systemSeats[n]} /\ systemSeats' = [systemSeats EXCEPT ![n] = 0]
      /\ RemoveSeat(n) /\ UNCHANGED <<watched, asking, listing>>
  BY <1>0 DEF LogindSeatRemoved
<1>8. /\ systemSeats' \in [Names -> Nat] /\ systemSeats'[n] = 0
      /\ \A x \in Names : x # n => systemSeats'[x] = systemSeats[x]
  BY <1>1, <1>7 DEF IInv, Watchings
<1>9. SeatObjects' /\ \A x \in Names : seats'[x] = IF x = n THEN 0 ELSE seats[x]
  BY <1>1, <1>7, RemoveSeatKeeps DEF IInv
<1>10. Now(n)' = "none" /\ \A x \in Names : x # n => Now(x)' = Now(x)
  BY <1>7, <1>8 DEF Now
<1>11. Agreement'
  BY <1>9, <1>10 DEF IInv, Agreement
<1>12. Watchings'
  <2>1. ASSUME NEW w \in watchers' PROVE systemSeats'[watched[w].name] = w
    <3>1. w \in watchers /\ w # systemSeats[n] /\ systemSeats[watched[w].name] = w /\ w \in 1 .. Len(watched)
      BY <1>7 DEF IInv, Watchings
    <3>2. watched[w].name \in Names
      BY <3>1, WatchedNames DEF IInv
    <3>3. watched[w].name # n /\ watched[w].name \in Names
      BY <3>1, <3>2
    <3> QED
      BY <1>8, <3>1, <3>3
  <2>2. ASSUME NEW x \in Names, systemSeats'[x] # 0
        PROVE  systemSeats'[x] \in watchers' /\ watched[systemSeats'[x]].name = x
    <3>1. x # n /\ systemSeats'[x] = systemSeats[x]
      BY <1>8, <2>2
    <3>2. systemSeats[x] \in watchers /\ watched[systemSeats[x]].name = x
      BY <2>2, <3>1 DEF IInv, Watchings
    <3>3. watched[systemSeats[n]].name = n
      BY <1>1, <1>6 DEF IInv, Watchings
    <3> QED
      BY <1>7, <3>1, <3>2, <3>3
  <2> QED
    BY <1>7, <1>8, <2>1, <2>2 DEF IInv, Watchings
<1>13. Channel'
  <2>1. Len(watched) \in Nat
    BY DEF IInv, Watchings
  <2> QED
    BY <1>1, <1>7, <2>1, ChannelTail DEF IInv
<1>14. Follows(n)'
  <2>1. 1 \in 1 .. Len(bus) /\ \A i \in 1 .. Len(bus) : ~Kept(n, i)
    <3>1. Len(bus) \in Nat \ {0}
      BY <1>1
    <3>2. \A i \in 1 .. Len(bus) : 1 \in 1 .. i
      BY <3>1
    <3> QED
      BY <1>3, <3>1, <3>2 DEF Kept
  <2>2. ASSUME NEW i \in 2 .. Len(bus)
        PROVE  Answers(systemSeats'[n], bus[i]) <=> Answers(systemSeats[n], bus[i])
    <3>1. i \in 1 .. Len(bus)
      OBVIOUS
    <3>2. bus[i].type = "got" => bus[i].watcher # 0
      BY <3>1 DEF IInv, Channel
    <3>3. ~Answers(systemSeats[n], bus[i])
      BY <1>1, <2>1, <3>1 DEF IInv, Follows
    <3> QED
      BY <1>8, <3>2, <3>3 DEF Answers
  <2>3. n \notin known
    <3>1. Len(bus) \in 1 .. Len(bus)
      BY <1>1
    <3> QED
      BY <1>1, <2>1, <3>1 DEF IInv, Follows
  <2> QED
    BY <1>1, <1>2, <1>3, <1>5, <1>7, <1>10, <2>2, <2>3, Handled DEF IInv
<1>15. ASSUME NEW x \in Names, x # n PROVE Follows(x)'
  <2>1. PICK u \in [0 .. Len(bus) -> States] : Timeline(x, u)
    BY DEF IInv, Follows
  <2>2. Effect(x, systemSeats[x], bus[1], Now(x), u[1])
    BY <1>1, <2>1, HeadSays
  <2>3. u[1] = Now(x)'
    BY <1>3, <1>10, <1>15, <2>2 DEF Effect
  <2> QED
    BY <1>1, <1>3, <1>7, <1>8, <1>15, <2>1, <2>3, Handled DEF IInv
<1> QED
  BY <1>9, <1>11, <1>12, <1>13, <1>14, <1>15 DEF IInv

LEMMA ChangedKeeps ==
  ASSUME IInv, bus # <<>>, bus[1].type = "changed", bus' = Tail(bus),
         PropertiesChanged(bus[1].name, bus[1].value), UNCHANGED <<known, graphical, subscribed>>
  PROVE  IInv'
<1>1. bus \in Seq(Msg) /\ bus[1] \in Msg /\ listing = "done"
  BY DEF IInv, Channel
<1>2. PICK n \in Names, value \in BOOLEAN : n = bus[1].name /\ value = bus[1].value
  <2>1. bus[1].name \in Names /\ bus[1].value \in BOOLEAN
    BY <1>1 DEF Msg
  <2> QED
    BY <2>1
<1>3. PICK t \in [0 .. Len(bus) -> States] : Timeline(n, t)
  BY DEF IInv, Follows
<1>4. /\ ~Creates(n, bus[1]) /\ ~Removes(n, bus[1]) /\ Tells(n, bus[1])
      /\ \A x \in Names : x # n => ~Creates(x, bus[1]) /\ ~Removes(x, bus[1]) /\ ~Tells(x, bus[1])
      /\ \A x : ~Answers(x, bus[1])
  BY <1>2 DEF Creates, Removes, Tells, Answers
<1>5. Effect(n, systemSeats[n], bus[1], Now(n), t[1])
  BY <1>1, <1>3, HeadSays
<1>6. Now(n) # "none" /\ (value => Now(n) = "dark") /\ t[1] = Says(value)
  BY <1>2, <1>4, <1>5 DEF Effect
<1>7. PICK w \in 1 .. Len(watched) :
        w = systemSeats[n] /\ w # 0 /\ w \in watchers /\ watched[w].name = n
  BY <1>6 DEF Now, IInv, Watchings
<1> DEFINE told == {x \in watchers : watched[x].name = n}
<1>8. told = {w}
  BY <1>7 DEF IInv, Watchings
<1>9. /\ watched' = [x \in DOMAIN watched |->
                      IF x \in told THEN [watched[x] EXCEPT !.value = value] ELSE watched[x]]
      /\ IF told = {} THEN UNCHANGED seatVars ELSE CanGraphicalChanged(n, value, Cardinality(told))
      /\ UNCHANGED <<watchers, systemSeats, asking, listing>>
  BY <1>2, Zenon DEF PropertiesChanged
<1> HIDE DEF told
<1>10. CanGraphicalChanged(n, value, 1)
  <2>1. Cardinality(told) = 1
    BY <1>8, FS_Singleton
  <2> QED
    BY <1>8, <1>9, <2>1
<1>11. /\ watched' \in Seq([name : Names, value : BOOLEAN]) /\ Len(watched') = Len(watched)
       /\ watched'[w] = [name |-> n, value |-> value]
       /\ \A x \in 1 .. Len(watched) : x # w => watched'[x] = watched[x]
  <2> DEFINE R == [name : Names, value : BOOLEAN]
  <2>1. PICK k \in Nat : k = Len(watched) /\ DOMAIN watched = 1 .. k
    BY DEF IInv, Watchings
  <2>2. \A x \in 1 .. k : watched[x] \in R
    BY <2>1, WatchedNames DEF IInv
  <2>3. /\ watched'[w] = [watched[w] EXCEPT !.value = value]
        /\ \A x \in 1 .. k : x # w => watched'[x] = watched[x]
    BY <1>7, <1>8, <1>9, <2>1
  <2>4. watched'[w] = [name |-> n, value |-> value]
    BY <1>7, <2>1, <2>2, <2>3
  <2>5. \A x \in 1 .. k : watched'[x] \in R
    BY <2>2, <2>3, <2>4
  <2> HIDE DEF R
  <2>6. watched' \in [1 .. k -> R]
    <3>1. DOMAIN watched' = 1 .. k /\ watched' = [x \in DOMAIN watched' |-> watched'[x]]
      BY <1>9, <2>1
    <3> QED
      BY <2>5, <3>1
  <2>7. watched' \in Seq(R) /\ Len(watched') = k
    <3>1. watched' \in Seq(R)
      BY <2>6, SeqDef
    <3>2. DOMAIN watched' = 1 .. Len(watched') /\ Len(watched') \in Nat
      BY <3>1, LenProperties
    <3> QED
      BY <2>6, <3>1, <3>2
  <2> QED
    BY <2>1, <2>3, <2>4, <2>7 DEF R
<1>12. /\ Watchings' /\ SeatObjects' /\ Agreement' /\ Now(n)' = Says(value)
       /\ \A x \in Names : x # n => Now(x)' = Now(x)
  <2>1. UNCHANGED <<watchers, systemSeats, asking>>
    BY <1>9
  <2> QED
    BY <1>6, <1>7, <1>10, <1>11, <2>1, ValueKeeps
<1>13. Channel'
  <2>1. Len(watched) \in Nat
    BY DEF IInv, Watchings
  <2> QED
    BY <1>1, <1>9, <1>11, <2>1, ChannelTail DEF IInv
<1>14. Follows(n)'
  BY <1>1, <1>3, <1>4, <1>6, <1>9, <1>12, Handled DEF IInv
<1>15. ASSUME NEW x \in Names, x # n PROVE Follows(x)'
  <2>1. PICK u \in [0 .. Len(bus) -> States] : Timeline(x, u)
    BY DEF IInv, Follows
  <2>2. Effect(x, systemSeats[x], bus[1], Now(x), u[1])
    BY <1>1, <2>1, HeadSays
  <2>3. u[1] = Now(x)'
    BY <1>4, <1>12, <1>15, <2>2 DEF Effect
  <2> QED
    BY <1>1, <1>4, <1>9, <1>15, <2>1, <2>3, Handled DEF IInv
<1> QED
  BY <1>12, <1>13, <1>14, <1>15 DEF IInv

LEMMA GotKeeps ==
  ASSUME IInv, bus # <<>>, bus[1].type = "got", bus' = Tail(bus), Got(bus[1]),
         UNCHANGED <<known, graphical, subscribed>>
  PROVE  IInv'
<1>1. bus \in Seq(Msg) /\ bus[1] \in Msg /\ listing = "done"
  BY DEF IInv, Channel
<1>2. PICK w \in 1 .. Len(watched), value \in BOOLEAN, valid \in BOOLEAN :
        w = bus[1].watcher /\ value = bus[1].value /\ valid = bus[1].valid
  <2>1. bus[1].value \in BOOLEAN /\ bus[1].valid \in BOOLEAN
    BY <1>1 DEF Msg
  <2>2. 1 \in 1 .. Len(bus)
    BY <1>1
  <2> QED
    BY <2>1, <2>2 DEF IInv, Channel
<1>3. \A x : /\ ~Creates(x, bus[1]) /\ ~Removes(x, bus[1]) /\ ~Tells(x, bus[1])
             /\ Answers(x, bus[1]) <=> valid /\ x = w
  BY <1>2 DEF Creates, Removes, Tells, Answers
<1>4. /\ IF w \in watchers /\ valid /\ value # watched[w].value
         THEN /\ watched' = [watched EXCEPT ![w].value = value]
              /\ CanGraphicalChanged(watched[w].name, value, 1)
         ELSE UNCHANGED <<watched, seatVars>>
      /\ UNCHANGED <<watchers, systemSeats, asking, listing>>
  BY <1>2, Zenon DEF Got
<1>5. ASSUME Watchings', SeatObjects', Agreement', Len(watched') = Len(watched),
             \A x \in Names : Now(x)' = IF systemSeats[x] = w /\ valid THEN Says(value) ELSE Now(x)
      PROVE  IInv'
  <2>1. Channel'
    <3>1. Len(watched) \in Nat
      BY DEF IInv, Watchings
    <3> QED
      BY <1>1, <1>4, <1>5, <3>1, ChannelTail DEF IInv
  <2>2. ASSUME NEW x \in Names PROVE Follows(x)'
    <3>1. PICK u \in [0 .. Len(bus) -> States] : Timeline(x, u)
      BY DEF IInv, Follows
    <3>2. Effect(x, systemSeats[x], bus[1], Now(x), u[1])
      BY <1>1, <3>1, HeadSays
    <3>3. u[1] = Now(x)'
      BY <1>2, <1>3, <1>5, <3>2 DEF Effect
    <3> QED
      BY <1>1, <1>3, <1>4, <3>1, <3>3, Handled DEF IInv
  <2> QED
    BY <1>5, <2>1, <2>2 DEF IInv
<1>6. CASE w \in watchers /\ valid /\ value # watched[w].value
  <2>1. PICK n \in Names : n = watched[w].name /\ systemSeats[n] = w
    BY <1>6, WatchedNames DEF IInv, Watchings
  <2>2. /\ watched' = [watched EXCEPT ![w] = [@ EXCEPT !.value = value]]
        /\ CanGraphicalChanged(n, value, 1)
    BY <1>4, <1>6, <2>1
  <2>3. watched[w] \in [name : Names, value : BOOLEAN]
    BY WatchedNames DEF IInv
  <2>4. /\ watched' \in Seq([name : Names, value : BOOLEAN]) /\ Len(watched') = Len(watched)
        /\ watched'[w] = [name |-> n, value |-> value]
        /\ \A x \in 1 .. Len(watched) : x # w => watched'[x] = watched[x]
    <3> DEFINE R == [name : Names, value : BOOLEAN]
               r == [watched[w] EXCEPT !.value = value]
    <3>1. r \in R /\ r = [name |-> n, value |-> value]
      BY <2>1, <2>3
    <3>2. watched \in Seq(R) /\ watched' = [watched EXCEPT ![w] = r]
      BY <2>2 DEF IInv, Watchings
    <3> HIDE DEF R, r
    <3>3. /\ watched' \in Seq(R) /\ Len(watched') = Len(watched) /\ watched'[w] = r
          /\ \A x \in 1 .. Len(watched) : x # w => watched'[x] = watched[x]
      BY <3>1, <3>2
    <3> QED
      BY <3>1, <3>3 DEF R
  <2>5. value => Now(n) = "dark"
    <3>1. w # 0
      BY DEF IInv, Watchings
    <3>2. watched[w].value \in BOOLEAN /\ watched[w].value # value
      BY <1>6, <2>3
    <3> QED
      BY <2>1, <3>1, <3>2 DEF Now, Says
  <2>6. /\ Watchings' /\ SeatObjects' /\ Agreement' /\ Now(n)' = Says(value)
        /\ \A x \in Names : x # n => Now(x)' = Now(x)
    <3>1. w # 0 /\ UNCHANGED <<watchers, systemSeats, asking>>
      BY <1>4 DEF IInv, Watchings
    <3> QED
      BY <2>1, <2>2, <2>4, <2>5, <3>1, ValueKeeps
  <2>7. \A x \in Names : systemSeats[x] = w <=> x = n
    BY <2>1 DEF IInv, Watchings
  <2> QED
    BY <1>5, <1>6, <2>4, <2>6, <2>7
<1>7. CASE ~(w \in watchers /\ valid /\ value # watched[w].value)
  <2>1. UNCHANGED <<watched, watchers, systemSeats, asking, listing, seatVars>>
    BY <1>4, <1>7
  <2>2. Watchings' /\ SeatObjects' /\ Agreement'
    BY <2>1, SameObjects DEF IInv, Watchings, watchVars
  <2>3. ASSUME NEW x \in Names
        PROVE  Now(x)' = IF systemSeats[x] = w /\ valid THEN Says(value) ELSE Now(x)
    <3>1. Now(x)' = Now(x)
      BY <2>1 DEF Now
    <3>2. systemSeats[x] = w /\ valid => value = watched[w].value
      <4>1. systemSeats[x] = w => w \in watchers
        BY DEF IInv, Watchings
      <4> QED
        BY <1>7, <4>1
    <3>3. systemSeats[x] = w /\ valid => Now(x) = Says(value)
      BY <3>2 DEF Now
    <3> QED
      BY <3>1, <3>3
  <2> QED
    BY <1>5, <2>1, <2>2, <2>3
<1> QED
  BY <1>6, <1>7

(* The list is handled: its last message, and one seat of it.              *)
LEMMA ListedKeeps ==
  ASSUME IInv, bus # <<>>, bus[1].type = "list", Listed(bus[1]),
         UNCHANGED <<known, graphical, subscribed>>
  PROVE  IInv'
<1>1. /\ bus \in Seq(Msg) /\ bus[1] \in Msg /\ listing = "answered" /\ 1 \in 1 .. Len(bus)
      /\ bus[1].names \subseteq known /\ known \subseteq Names /\ Len(watched) \in Nat
  <2>1. 1 \in 1 .. Len(bus) /\ bus[1] \in Msg
    BY DEF IInv, Channel
  <2> QED
    BY <2>1 DEF IInv, Channel, Watchings
<1>2. \A x : /\ ~Removes(x, bus[1]) /\ ~Tells(x, bus[1]) /\ ~Answers(x, bus[1])
             /\ Creates(x, bus[1]) <=> x \in bus[1].names
  BY DEF Creates, Removes, Tells, Answers
<1>3. CASE bus[1].names = {}
  <2>1. listing' = "done" /\ bus' = Tail(bus) /\ UNCHANGED <<asking, watchVars, seatVars>>
    BY <1>3 DEF Listed
  <2>2. UNCHANGED <<systemSeats, watched, watchers>>
    BY <2>1 DEF watchVars
  <2>3. Watchings' /\ SeatObjects' /\ Agreement'
    BY <2>1, SameObjects DEF IInv, Watchings
  <2>4. Channel'
    BY <1>1, <2>1, <2>2, ChannelTail DEF IInv
  <2>5. ASSUME NEW x \in Names PROVE Follows(x)'
    <3>1. PICK u \in [0 .. Len(bus) -> States] : Timeline(x, u)
      BY DEF IInv, Follows
    <3>2. Effect(x, systemSeats[x], bus[1], Now(x), u[1])
      BY <1>1, <3>1, HeadSays
    <3>3. ~Creates(x, bus[1])
      BY <1>2, <1>3
    <3>4. u[1] = Now(x)'
      BY <1>2, <2>2, <3>2, <3>3 DEF Effect, Now
    <3>5. /\ systemSeats[x] \in asking => systemSeats'[x] \in asking'
          /\ systemSeats[x] # 0 => systemSeats'[x] # 0
          /\ \A i \in 2 .. Len(bus) : Answers(systemSeats'[x], bus[i]) <=> Answers(systemSeats[x], bus[i])
      BY <2>1, <2>2
    <3> QED
      BY <1>1, <2>1, <3>1, <3>3, <3>4, <3>5, Handled DEF IInv
  <2> QED
    BY <2>3, <2>4, <2>5 DEF IInv
<1>4. CASE bus[1].names # {}
  <2>1. PICK n \in bus[1].names :
          LogindSeatAdded(n) /\ bus' = [bus EXCEPT ![1].names = @ \ {n}]
    BY <1>4 DEF Listed
  <2>2. n \in Names /\ n \in known
    BY <1>1
  <2>3. PICK k \in Nat \ {0} : k = Len(bus)
    BY <1>1
  <2>4. /\ bus' \in Seq(Msg) /\ Len(bus') = k /\ bus'[1] \in Msg /\ bus'[1].type = "list"
        /\ bus'[1].names = bus[1].names \ {n}
        /\ \A i \in 2 .. k : bus'[i] = bus[i]
    <3>1. bus[1] \in [type : {"list"}, names : SUBSET Names]
      BY <1>1 DEF Msg
    <3> DEFINE m == [bus[1] EXCEPT !.names = @ \ {n}]
    <3>2. m \in Msg /\ m.type = "list" /\ m.names = bus[1].names \ {n}
      BY <3>1 DEF Msg
    <3>3. bus' = [bus EXCEPT ![1] = m]
      BY <2>1
    <3> HIDE DEF m
    <3> QED
      BY <1>1, <2>3, <3>2, <3>3
  <2>5. PICK t \in [0 .. k -> States] : Timeline(n, t)
    BY <2>2, <2>3 DEF IInv, Follows
  <2>6. Now(n) = "none" /\ t[1] = "dark"
    <3>1. Effect(n, systemSeats[n], bus[1], Now(n), t[1])
      BY <1>1, <2>2, <2>3, <2>5, HeadSays
    <3> QED
      BY <1>2, <3>1 DEF Effect
  <2>7. systemSeats[n] = 0
    BY <2>6 DEF Now, Says
  <2>8. /\ Watchings' /\ SeatObjects' /\ Agreement'
        /\ Now(n)' = "dark" /\ systemSeats'[n] = Len(watched) + 1 /\ systemSeats'[n] \in asking'
        /\ asking \subseteq asking' /\ Len(watched') = Len(watched) + 1
        /\ \A x \in Names : x # n => systemSeats'[x] = systemSeats[x] /\ Now(x)' = Now(x)
        /\ listing' = listing
    BY <2>1, <2>2, <2>7, AddedKeeps
  <2>9. PICK l \in Nat : l = Len(watched) /\ Len(watched') = l + 1
    BY <1>1, <2>8
  <2>10. \A i \in 1 .. k : i = 1 \/ i \in 2 .. k
    OBVIOUS
  <2>11. Channel'
    <3>1. \A i \in 1 .. k : bus'[i].type = "list" => i = 1 /\ listing = "answered"
      <4>1. \A i \in 2 .. k : i \in 1 .. k /\ i # 1
        OBVIOUS
      <4> QED
        BY <1>1, <2>3, <2>4, <2>10, <4>1 DEF IInv, Channel
    <3>2. \A i \in 1 .. k : bus'[i].type = "got" => bus'[i].watcher \in 1 .. l + 1
      <4> SUFFICES ASSUME NEW i \in 1 .. k, bus'[i].type = "got" PROVE bus'[i].watcher \in 1 .. l + 1
        OBVIOUS
      <4>1. bus'[i] = bus[i]
        BY <2>4, <2>10
      <4>2. bus[i].watcher \in 1 .. l
        BY <2>3, <2>9, <4>1 DEF IInv, Channel
      <4> QED
        BY <4>1, <4>2
    <3>3. bus' # <<>> /\ bus'[1].names \subseteq known
      BY <1>1, <2>4
    <3> QED
      BY <1>1, <2>4, <2>8, <2>9, <3>1, <3>2, <3>3 DEF IInv, Channel
  <2>12. \A x : /\ ~Removes(x, bus'[1]) /\ ~Tells(x, bus'[1]) /\ ~Answers(x, bus'[1])
                /\ Creates(x, bus'[1]) <=> x \in bus[1].names /\ x # n
    BY <2>4 DEF Creates, Removes, Tells, Answers
  <2>13. \A x, i : i \in 0 .. k => (Kept(x, i)' <=> Kept(x, i))
    <3> SUFFICES ASSUME NEW x, NEW i \in 0 .. k
                 PROVE  (\A j \in 1 .. i : ~Removes(x, bus'[j])) <=> \A j \in 1 .. i : ~Removes(x, bus[j])
      BY DEF Kept
    <3>1. ASSUME NEW j \in 1 .. i PROVE Removes(x, bus'[j]) <=> Removes(x, bus[j])
      <4>1. j = 1 \/ j \in 2 .. k
        OBVIOUS
      <4> QED
        BY <1>2, <2>4, <2>12, <4>1
    <3> QED
      BY <3>1
  <2>14. \A x : x # n => (Coming(x)' <=> Coming(x))
    <3> SUFFICES ASSUME NEW x, x # n
                 PROVE  (\E i \in 1 .. k : Creates(x, bus'[i])) <=> \E i \in 1 .. k : Creates(x, bus[i])
      BY <2>3, <2>4 DEF Coming
    <3>1. ASSUME NEW i \in 1 .. k PROVE Creates(x, bus'[i]) <=> Creates(x, bus[i])
      BY <1>2, <2>4, <2>10, <2>12
    <3> QED
      BY <3>1
  <2>15. Follows(n)'
    <3>1. \A i \in 1 .. k : ~Answers(systemSeats'[n], bus'[i])
      <4> SUFFICES ASSUME NEW i \in 2 .. k PROVE ~Answers(systemSeats'[n], bus'[i])
        BY <2>10, <2>12
      <4>0. i \in 1 .. k
        OBVIOUS
      <4>1. bus[i].type = "got" => bus[i].watcher \in 1 .. l
        BY <2>3, <2>9, <4>0 DEF IInv, Channel
      <4> QED
        BY <2>4, <2>8, <2>9, <4>1 DEF Answers
    <3>2. PICK u \in [0 .. k -> States] : u[0] = "dark" /\ \A i \in 1 .. k : u[i] = t[i]
      <4> DEFINE v == [i \in 0 .. k |-> IF i = 0 THEN "dark" ELSE t[i]]
      <4>1. v \in [0 .. k -> States] /\ v[0] = "dark" /\ \A i \in 1 .. k : v[i] = t[i]
        BY <2>5 DEF States
      <4> HIDE DEF v
      <4> QED
        BY <4>1
    <3>3. ASSUME NEW i \in 1 .. k PROVE Effect(n, systemSeats'[n], bus'[i], u[i - 1], u[i])
      <4>1. CASE i = 1
        <5>1. u[i - 1] = "dark" /\ u[i] = "dark"
          BY <2>6, <3>2, <4>1
        <5> QED
          BY <2>12, <4>1, <5>1 DEF Effect
      <4>2. CASE i \in 2 .. k
        <5>1. Effect(n, systemSeats[n], bus[i], t[i - 1], t[i])
          BY <2>3, <2>5 DEF Timeline, Chain
        <5>2. u[i - 1] = t[i - 1] /\ u[i] = t[i] /\ bus'[i] = bus[i]
          BY <2>4, <3>2, <4>2
        <5>3. ~Answers(systemSeats'[n], bus[i]) /\ ~Answers(systemSeats[n], bus[i])
          <6>1. bus[i].type = "got" => bus[i].watcher # 0
            BY <2>3 DEF IInv, Channel
          <6> QED
            BY <2>7, <3>1, <5>2, <6>1 DEF Answers
        <5> QED
          BY <5>1, <5>2, <5>3, Zenon DEF Effect
      <4> QED
        BY <2>10, <4>1, <4>2
    <3>4. \A i \in 0 .. k : u[i] # "lit"
      <4>1. \A i \in 0 .. k : t[i] # "lit"
        BY <2>3, <2>5, <2>7 DEF Timeline
      <4> QED
        BY <3>2, <4>1
    <3>5. u[k] = t[k] /\ (u[k] # "none" <=> n \in known)
      BY <1>1, <2>3, <2>5, <3>2 DEF Timeline
    <3>6. Timeline(n, u)'
      <4>1. Chain(n, systemSeats'[n], bus', u)
        BY <2>4, <3>3 DEF Chain
      <4> QED
        BY <2>4, <2>8, <3>2, <3>4, <3>5, <4>1 DEF Timeline
    <3>7. Kept(n, k)' /\ systemSeats'[n] # 0
      <4>1. Kept(n, k) /\ k \in 0 .. k
        BY <2>2, <2>3 DEF IInv, Follows
      <4> QED
        BY <2>8, <2>9, <2>13, <4>1
    <3> QED
      BY <2>4, <3>1, <3>2, <3>6, <3>7 DEF Follows
  <2>16. ASSUME NEW x \in Names, x # n PROVE Follows(x)'
    <3>1. PICK u \in [0 .. k -> States] : Timeline(x, u)
      BY <2>3 DEF IInv, Follows
    <3>2. systemSeats'[x] = systemSeats[x] /\ Now(x)' = Now(x)
      BY <2>8, <2>16
    <3>3. ASSUME NEW i \in 1 .. k
          PROVE  /\ Effect(x, systemSeats[x], bus'[i], u[i - 1], u[i])
                 /\ Answers(systemSeats[x], bus'[i]) => Kept(x, i)
      <4>1. Effect(x, systemSeats[x], bus[i], u[i - 1], u[i])
        BY <2>3, <3>1 DEF Timeline, Chain
      <4>2. Answers(systemSeats[x], bus[i]) => Kept(x, i)
        BY <2>3 DEF IInv, Follows
      <4>3. CASE i = 1
        <5>1. Creates(x, bus'[1]) <=> Creates(x, bus[1])
          BY <1>2, <2>12, <2>16
        <5> QED
          BY <1>2, <2>12, <4>1, <4>3, <5>1 DEF Effect
      <4>4. CASE i \in 2 .. k
        BY <2>4, <4>1, <4>2, <4>4
      <4> QED
        BY <2>10, <4>3, <4>4
    <3>4. Timeline(x, u)'
      <4>1. Chain(x, systemSeats[x], bus', u)
        BY <2>4, <3>3 DEF Chain
      <4>2. \A i \in 0 .. k : u[i] = "lit" => systemSeats'[x] # 0 /\ Kept(x, i)'
        BY <2>3, <2>13, <3>1, <3>2 DEF Timeline
      <4> QED
        BY <2>3, <2>4, <2>8, <2>14, <2>16, <3>1, <3>2, <4>1, <4>2 DEF Timeline
    <3>5. \A i \in 1 .. k : Answers(systemSeats'[x], bus'[i]) => Kept(x, i)'
      <4>1. \A i \in 1 .. k : i \in 0 .. k
        OBVIOUS
      <4> QED
        BY <2>13, <3>2, <3>3, <4>1
    <3>6. x \in known => Kept(x, k)' /\ (systemSeats'[x] # 0 \/ Coming(x)')
      <4>1. x \in known => Kept(x, k) /\ k \in 0 .. k /\ (systemSeats[x] # 0 \/ Coming(x))
        BY <1>1, <2>3 DEF IInv, Follows
      <4> QED
        BY <2>13, <2>14, <2>16, <3>2, <4>1
    <3> QED
      BY <2>4, <3>1, <3>4, <3>5, <3>6 DEF Follows
  <2> QED
    BY <2>8, <2>11, <2>15, <2>16 DEF IInv
<1> QED
  BY <1>3, <1>4

-----------------------------------------------------------------------------
(* The steps, and what follows from the invariant.                         *)
LEMMA HandleMessageKeeps ==
  ASSUME IInv, HandleMessage
  PROVE  IInv'
<1>1. /\ bus # <<>> /\ bus[1] = Head(bus) /\ bus[1] \in Msg
      /\ UNCHANGED <<known, graphical, subscribed>>
  <2>1. 1 \in 1 .. Len(bus) /\ bus[1] = Head(bus) /\ bus[1] \in Msg /\ bus # <<>>
    BY DEF HandleMessage, IInv, Channel
  <2> QED
    BY <2>1 DEF HandleMessage, logindVars
<1>2. CASE bus[1].type = "list"
  <2>1. Listed(bus[1])
    BY <1>1, <1>2 DEF HandleMessage
  <2> QED
    BY <1>1, <1>2, <2>1, ListedKeeps
<1>3. CASE bus[1].type # "list"
  <2>1. /\ bus' = Tail(bus)
        /\ CASE bus[1].type = "new"     -> LogindSeatAdded(bus[1].name)
             [] bus[1].type = "removed" -> LogindSeatRemoved(bus[1].name)
             [] bus[1].type = "changed" -> PropertiesChanged(bus[1].name, bus[1].value)
             [] OTHER -> Got(bus[1])
    BY <1>1, <1>3 DEF HandleMessage
  <2>2. CASE bus[1].type = "new"
    BY <1>1, <2>1, <2>2, NewKeeps
  <2>3. CASE bus[1].type = "removed"
    BY <1>1, <2>1, <2>3, RemovedKeeps
  <2>4. CASE bus[1].type = "changed"
    BY <1>1, <2>1, <2>4, ChangedKeeps
  <2>5. CASE bus[1].type \notin {"new", "removed", "changed"}
    <3>1. bus[1].type = "got"
      BY <1>1, <1>3, <2>5 DEF Msg
    <3>2. Got(bus[1])
      BY <2>1, <2>5
    <3> QED
      BY <1>1, <2>1, <3>1, <3>2, GotKeeps
  <2> QED
    BY <2>2, <2>3, <2>4, <2>5
<1> QED
  BY <1>2, <1>3

LEMMA InitKeeps == Init => IInv
<1> SUFFICES ASSUME Init PROVE IInv
  OBVIOUS
<1> USE DEF Init
<1>1. Watchings
  BY SeatManagerAssumption DEF Watchings
<1>2. SeatObjects
  <2>1. alive = {seats[n] : n \in Names} \ {0}
    OBVIOUS
  <2> QED
    BY <2>1, SeatManagerAssumption DEF SeatObjects, Distinct, Holds
<1>3. Agreement
  BY DEF Agreement, Now
<1>4. Channel
  <2>1. bus = <<>> /\ bus \in Seq(Msg) /\ \A i \in 1 .. Len(bus) : FALSE
    OBVIOUS
  <2>2. /\ graphical \subseteq known /\ known \subseteq Names /\ watchers = {} /\ asking = {}
        /\ listing = "asked" /\ subscribed = FALSE
    OBVIOUS
  <2> HIDE DEF Init
  <2> QED
    BY <2>1, <2>2 DEF Channel
<1>5. ASSUME NEW n \in Names PROVE Follows(n)
  <2> DEFINE t == [i \in 0 .. 0 |-> "none"]
  <2>1. t \in [0 .. 0 -> States] /\ \A i \in 0 .. 0 : t[i] = "none"
    BY DEF States
  <2> HIDE DEF t
  <2>2. Timeline(n, t)
    BY <2>1 DEF Timeline, Chain, Now
  <2> QED
    BY <2>1, <2>2 DEF Follows, Kept
<1> QED
  BY <1>1, <1>2, <1>3, <1>4, <1>5 DEF IInv

LEMMA NextKeeps ==
  ASSUME DaemonKeepsUp, IInv, [Next]_vars
  PROVE  IInv'
<1>1. ASSUME NEW n \in Names, SeatAppears(n) \/ SeatVanishes(n) \/ DevicesChange(n) PROVE IInv'
  BY <1>1, SeatAppearsKeeps, SeatVanishesKeeps, DevicesChangeKeeps
<1>2. CASE AnswerListSeats
  BY <1>2, AnswerListSeatsKeeps
<1>3. ASSUME NEW w \in Watchers, AnswerGet(w) PROVE IInv'
  BY <1>3, AnswerGetKeeps
<1>4. CASE Subscribe
  BY <1>4, IdleKeeps DEF Subscribe, logindVars
<1>5. CASE HandleMessage
  BY <1>5, HandleMessageKeeps
<1>6. CASE UNCHANGED vars
  BY <1>6, IdleKeeps DEF vars, logindVars, busVars, IInv, Channel
<1> QED
  BY <1>1, <1>2, <1>3, <1>4, <1>5, <1>6 DEF Next, Logind

(* While the daemon keeps up, every step leaves each seat to the daemon    *)
(* what the messages on their way still have to make of it.                *)
THEOREM Invariant ==
  ASSUME DaemonKeepsUp
  PROVE  Spec => []IInv
BY InitKeeps, NextKeeps, PTL DEF Spec

(* No Seat is left behind.                                                 *)
THEOREM NoneStray ==
  ASSUME DaemonKeepsUp
  PROVE  Spec => []NoStraySeat
<1>1. IInv => NoStraySeat
  BY DEF IInv, SeatObjects, NoStraySeat
<1> QED
  BY <1>1, Invariant, PTL

(* The seats on the bus are those in use.                                  *)
THEOREM Published ==
  ASSUME DaemonKeepsUp
  PROVE  Spec => []PublishedAsUsed
<1>1. IInv => PublishedAsUsed
  <2> SUFFICES ASSUME SeatObjects PROVE PublishedAsUsed
    BY DEF IInv
  <2>1. DOMAIN published = 1 .. Len(published) /\ \A i \in 1 .. Len(published) : published[i] \in SeatIds
    BY DEF SeatObjects
  <2>2. alive \subseteq SeatIds
    BY SeatManagerAssumption DEF SeatObjects, SeatIds
  <2>3. {published[i] : i \in DOMAIN published} = alive
    <3>1. \A s \in SeatIds : s \in alive <=> \E i \in 1 .. Len(published) : published[i] = s
      BY DEF SeatObjects, Holds
    <3> QED
      BY <2>1, <2>2, <3>1
  <2> QED
    BY <2>1, <2>3 DEF SeatObjects, PublishedAsUsed, Distinct
<1> QED
  BY <1>1, Invariant, PTL

-----------------------------------------------------------------------------
(* Whatever logind does, the pointers lead to objects that exist.          *)
SeatPointers ==
  /\ seats \in [Names -> Nat] /\ nameOf \in Seq(Names) /\ Len(nameOf) <= MaxSeats
  /\ published \in Seq(SeatIds) /\ alive \subseteq 1 .. Len(nameOf)
  /\ \A n \in Names : seats[n] # 0 => seats[n] \in alive /\ nameOf[seats[n]] = n

WatchPointers ==
  /\ systemSeats \in [Names -> Nat]
  /\ watched \in Seq([name : Names, value : BOOLEAN]) /\ Len(watched) <= MaxWatchers
  /\ watchers \subseteq 1 .. Len(watched) /\ asking \subseteq 1 .. Len(watched)
  /\ \A n \in Names : systemSeats[n] # 0 =>
       systemSeats[n] \in watchers /\ watched[systemSeats[n]].name = n

BusTypes == graphical \subseteq known /\ known \subseteq Names /\ bus \in Seq(Msg)

Pointers == SeatPointers /\ WatchPointers /\ BusTypes

LEMMA RemoveSeatPoints ==
  ASSUME SeatPointers, NEW n \in Names, RemoveSeat(n)
  PROVE  SeatPointers'
<1>1. CASE seats[n] = 0
  BY <1>1 DEF RemoveSeat, SeatPointers, seatVars
<1>2. CASE seats[n] # 0
  <2>1. /\ seats' = [seats EXCEPT ![n] = 0] /\ alive' = alive \ {seats[n]}
        /\ published' = RemoveNamed(published, n) /\ nameOf' = nameOf
    BY <1>2 DEF RemoveSeat
  <2>2. RemoveNamed(published, n) \in Seq(SeatIds)
    <3>1. published \in Seq(SeatIds) /\ Len(published) \in 0 .. Len(published)
      BY DEF SeatPointers
    <3>2. PICK w : /\ RemoveNamed(published, n) =
                        SubSeq(w[Len(published)].list, 1, w[Len(published)].size)
                   /\ \A i \in 0 .. Len(published) : w[i] \in Partly(published)
      BY <3>1, RemoveNamedWalks
    <3>3. PICK a \in Partly(published) : RemoveNamed(published, n) = SubSeq(a.list, 1, a.size)
      BY <3>1, <3>2
    <3>4. PICK k \in Nat : k = Len(published)
      BY <3>1
    <3>5. a.list \in [1 .. k -> SeatIds] /\ a.size \in 0 .. k
      BY <3>3, <3>4 DEF Partly
    <3> QED
      BY <3>3, <3>5
  <2>3. \A x \in Names : seats'[x] # 0 => seats'[x] \in alive' /\ nameOf[seats'[x]] = x
    BY <1>2, <2>1 DEF SeatPointers
  <2> QED
    BY <2>1, <2>2, <2>3 DEF SeatPointers
<1> QED
  BY <1>1, <1>2

LEMMA CreateSeatsPoint ==
  ASSUME SeatPointers, NEW n \in Names, NEW k \in Nat, CreateSeats(n, k)
  PROVE  SeatPointers'
<1>1. PICK f \in Nat \ {0} : f = Len(nameOf) + 1
  BY DEF SeatPointers
<1> DEFINE names == [i \in 1 .. k |-> n]
           pub == [i \in 1 .. k |-> f + i - 1]
<1>2. /\ f + k - 1 <= MaxSeats /\ nameOf' = nameOf \o names
      /\ alive' = alive \cup (f .. f + k - 1)
      /\ seats' = [seats EXCEPT ![n] = IF k = 0 THEN @ ELSE f + k - 1]
      /\ published' = published \o pub
  BY <1>1, Zenon DEF CreateSeats
<1>3. names \in Seq(Names) /\ Len(names) = k /\ \A i \in 1 .. k : names[i] = n
  OBVIOUS
<1>4. pub \in Seq(SeatIds)
  <2>1. \A i \in 1 .. k : f + i - 1 \in SeatIds
    BY <1>2, SeatManagerAssumption DEF SeatIds
  <2>2. pub \in [1 .. k -> SeatIds]
    BY <2>1
  <2> HIDE DEF pub
  <2> QED
    BY <2>2, SeqDef
<1> HIDE DEF names, pub
<1>5. nameOf \in Seq(Names) /\ Len(nameOf) = f - 1 /\ published \in Seq(SeatIds)
  BY <1>1 DEF SeatPointers
<1>6. /\ nameOf' \in Seq(Names) /\ Len(nameOf') = f + k - 1
      /\ \A i \in 1 .. f - 1 : nameOf'[i] = nameOf[i]
      /\ \A i \in f .. f + k - 1 : nameOf'[i] = n
  <2>1. /\ nameOf \o names \in Seq(Names) /\ Len(nameOf \o names) = Len(nameOf) + Len(names)
        /\ \A i \in 1 .. Len(nameOf) + Len(names) :
             (nameOf \o names)[i] = IF i <= Len(nameOf) THEN nameOf[i] ELSE names[i - Len(nameOf)]
    BY <1>3, <1>5, ConcatProperties
  <2> QED
    BY <1>2, <1>3, <1>5, <2>1
<1>7. published' \in Seq(SeatIds)
  BY <1>2, <1>4, <1>5, ConcatProperties
<1>8. alive' \subseteq 1 .. f + k - 1
  <2>1. alive \subseteq 1 .. f - 1
    BY <1>5 DEF SeatPointers
  <2> QED
    BY <1>2, <2>1
<1>9. seats' \in [Names -> Nat]
  BY <1>2 DEF SeatPointers
<1>10. ASSUME NEW x \in Names, seats'[x] # 0 PROVE seats'[x] \in alive' /\ nameOf'[seats'[x]] = x
  <2>1. CASE x = n /\ k # 0
    <3>1. PICK g \in f .. f + k - 1 : g = f + k - 1
      BY <2>1
    <3>2. seats'[x] = g
      BY <1>2, <2>1, <3>1 DEF SeatPointers
    <3>3. g \in alive' /\ nameOf'[g] = n
      BY <1>2, <1>6, <3>1
    <3> QED
      BY <2>1, <3>2, <3>3
  <2>2. CASE ~(x = n /\ k # 0)
    <3>1. seats'[x] = seats[x]
      BY <1>2, <2>2 DEF SeatPointers
    <3>2. seats[x] \in alive /\ nameOf[seats[x]] = x /\ seats[x] \in 1 .. f - 1
      BY <1>5, <1>10, <3>1 DEF SeatPointers
    <3> QED
      BY <1>2, <1>6, <3>1, <3>2
  <2> QED
    BY <2>1, <2>2
<1> QED
  BY <1>2, <1>6, <1>7, <1>8, <1>9, <1>10 DEF SeatPointers

LEMMA AddedPoints ==
  ASSUME SeatPointers, WatchPointers, NEW n \in Names, LogindSeatAdded(n)
  PROVE  SeatPointers' /\ WatchPointers'
<1>1. PICK w \in Nat \ {0} : w = Len(watched) + 1
  BY DEF WatchPointers
<1> DEFINE R == [name : Names, value : BOOLEAN]
           r == [name |-> n, value |-> FALSE]
<1>2. /\ w <= MaxWatchers /\ watchers' = watchers \cup {w} /\ watched' = Append(watched, r)
      /\ systemSeats' = [systemSeats EXCEPT ![n] = w] /\ asking' = asking \cup {w}
      /\ UNCHANGED seatVars
  BY <1>1 DEF LogindSeatAdded
<1>3. r \in R /\ r.name = n
  OBVIOUS
<1>4. watched \in Seq(R) /\ watchers \subseteq 1 .. w - 1 /\ asking \subseteq 1 .. w - 1
  BY <1>1 DEF WatchPointers
<1> HIDE DEF r, R
<1>5. /\ watched' \in Seq(R) /\ Len(watched') = w
      /\ watched'[w] = r /\ \A i \in 1 .. w - 1 : watched'[i] = watched[i]
  BY <1>1, <1>2, <1>3, <1>4
<1>6. ASSUME NEW x \in Names, systemSeats'[x] # 0
      PROVE  systemSeats'[x] \in watchers' /\ watched'[systemSeats'[x]].name = x
  <2>1. CASE x = n
    BY <1>2, <1>3, <1>5, <2>1 DEF WatchPointers
  <2>2. CASE x # n
    <3>1. systemSeats'[x] = systemSeats[x]
      BY <1>2, <2>2 DEF WatchPointers
    <3>2. systemSeats[x] \in watchers /\ watched[systemSeats[x]].name = x /\ systemSeats[x] \in 1 .. w - 1
      BY <1>4, <1>6, <3>1 DEF WatchPointers
    <3> QED
      BY <1>2, <1>5, <3>1, <3>2
  <2> QED
    BY <2>1, <2>2
<1>7. watchers' \subseteq 1 .. w /\ asking' \subseteq 1 .. w
  BY <1>2, <1>4
<1> QED
  BY <1>2, <1>5, <1>6, <1>7 DEF SeatPointers, WatchPointers, seatVars, R

(* A LogindSeat takes its seat for something else.                         *)
LEMMA ToldPoints ==
  ASSUME WatchPointers, NEW told \in SUBSET watchers, NEW value \in BOOLEAN,
         watched' = [w \in DOMAIN watched |->
                       IF w \in told THEN [watched[w] EXCEPT !.value = value] ELSE watched[w]],
         UNCHANGED <<watchers, systemSeats, asking>>
  PROVE  WatchPointers'
<1> DEFINE R == [name : Names, value : BOOLEAN]
<1>1. PICK k \in Nat : k = Len(watched) /\ DOMAIN watched = 1 .. k
  BY DEF WatchPointers
<1>2. \A w \in 1 .. k : watched[w] \in R
  <2>1. watched \in Seq(R)
    BY DEF WatchPointers
  <2> HIDE DEF R
  <2> QED
    BY <1>1, <2>1
<1>3. \A w \in 1 .. k : watched'[w] \in R /\ watched'[w].name = watched[w].name
  BY <1>1, <1>2
<1> HIDE DEF R
<1>4. watched' \in [1 .. k -> R]
  <2>1. DOMAIN watched' = 1 .. k /\ watched' = [x \in DOMAIN watched' |-> watched'[x]]
    BY <1>1
  <2> QED
    BY <1>3, <2>1
<1>5. watched' \in Seq(R)
  BY <1>4, SeqDef
<1>6. Len(watched') = k
  <2>1. DOMAIN watched' = 1 .. Len(watched') /\ Len(watched') \in Nat
    BY <1>5, LenProperties
  <2> QED
    BY <1>4, <2>1
<1> QED
  BY <1>1, <1>3, <1>5, <1>6 DEF WatchPointers, R

LEMMA HandleMessagePoints ==
  ASSUME Pointers, HandleMessage
  PROVE  Pointers'
<1>1. /\ bus # <<>> /\ bus[1] = Head(bus) /\ bus[1] \in Msg /\ 1 \in 1 .. Len(bus)
      /\ UNCHANGED <<known, graphical, subscribed>>
  <2>1. 1 \in 1 .. Len(bus) /\ bus[1] = Head(bus) /\ bus[1] \in Msg /\ bus # <<>>
    BY DEF HandleMessage, Pointers, BusTypes
  <2> QED
    BY <2>1 DEF HandleMessage, logindVars
<1>2. Tail(bus) \in Seq(Msg)
  BY <1>1 DEF Pointers, BusTypes
<1>3. ASSUME NEW n \in Names, NEW value \in BOOLEAN, NEW k \in Nat, CanGraphicalChanged(n, value, k)
      PROVE  SeatPointers'
  BY <1>3, RemoveSeatPoints, CreateSeatsPoint DEF CanGraphicalChanged, Pointers
<1>4. CASE bus[1].type = "list"
  <2>1. Listed(bus[1])
    BY <1>1, <1>4 DEF HandleMessage
  <2>2. bus[1] \in [type : {"list"}, names : SUBSET Names]
    BY <1>1, <1>4 DEF Msg
  <2>3. CASE bus[1].names = {}
    BY <1>1, <1>2, <2>1, <2>3 DEF Listed, Pointers, SeatPointers, WatchPointers, BusTypes, watchVars, seatVars
  <2>4. CASE bus[1].names # {}
    <3>1. PICK n \in Names : LogindSeatAdded(n) /\ bus' = [bus EXCEPT ![1].names = @ \ {n}]
      BY <2>1, <2>2, <2>4 DEF Listed
    <3> DEFINE m == [bus[1] EXCEPT !.names = @ \ {n}]
    <3>2. m \in Msg /\ bus' = [bus EXCEPT ![1] = m]
      BY <2>2, <3>1 DEF Msg
    <3> HIDE DEF m
    <3>3. bus' \in Seq(Msg)
      BY <1>1, <3>2 DEF Pointers, BusTypes
    <3> QED
      BY <1>1, <3>1, <3>3, AddedPoints DEF Pointers, BusTypes
  <2> QED
    BY <2>3, <2>4
<1>5. CASE bus[1].type # "list"
  <2>1. /\ bus' = Tail(bus)
        /\ CASE bus[1].type = "new"     -> LogindSeatAdded(bus[1].name)
             [] bus[1].type = "removed" -> LogindSeatRemoved(bus[1].name)
             [] bus[1].type = "changed" -> PropertiesChanged(bus[1].name, bus[1].value)
             [] OTHER -> Got(bus[1])
    BY <1>1, <1>5 DEF HandleMessage
  <2>2. CASE bus[1].type = "new"
    <3>1. bus[1].name \in Names
      BY <1>1, <2>2 DEF Msg
    <3>2. LogindSeatAdded(bus[1].name)
      BY <2>1, <2>2
    <3> QED
      BY <1>1, <1>2, <2>1, <3>1, <3>2, AddedPoints DEF Pointers, BusTypes
  <2>3. CASE bus[1].type = "removed"
    <3>1. PICK n \in Names : n = bus[1].name
      BY <1>1, <2>3 DEF Msg
    <3>2. /\ watchers' = watchers \ {systemSeats[n]} /\ systemSeats' = [systemSeats EXCEPT ![n] = 0]
          /\ RemoveSeat(n) /\ UNCHANGED <<watched, asking>>
      BY <2>1, <2>3, <3>1 DEF LogindSeatRemoved
    <3>3. SeatPointers'
      BY <3>2, RemoveSeatPoints DEF Pointers
    <3>4. \A x \in Names : systemSeats'[x] # 0 =>
            x # n /\ systemSeats'[x] = systemSeats[x]
      BY <3>2 DEF Pointers, WatchPointers
    <3>5. \A x \in Names : systemSeats'[x] # 0 =>
            systemSeats'[x] \in watchers' /\ watched[systemSeats'[x]].name = x
      BY <3>2, <3>4 DEF Pointers, WatchPointers
    <3>6. WatchPointers'
      BY <3>2, <3>5 DEF Pointers, WatchPointers
    <3> QED
      BY <1>1, <1>2, <2>1, <3>3, <3>6 DEF Pointers, BusTypes
  <2>4. CASE bus[1].type = "changed"
    <3>1. PICK n \in Names, value \in BOOLEAN : n = bus[1].name /\ value = bus[1].value
      <4>1. bus[1].name \in Names /\ bus[1].value \in BOOLEAN
        BY <1>1, <2>4 DEF Msg
      <4> QED
        BY <4>1
    <3>2. PropertiesChanged(n, value)
      BY <2>1, <2>4, <3>1
    <3> DEFINE told == {w \in watchers : watched[w].name = n}
    <3>3. /\ watched' = [w \in DOMAIN watched |->
                          IF w \in told THEN [watched[w] EXCEPT !.value = value] ELSE watched[w]]
          /\ IF told = {} THEN UNCHANGED seatVars ELSE CanGraphicalChanged(n, value, Cardinality(told))
          /\ UNCHANGED <<watchers, systemSeats, asking>>
      BY <3>2, Zenon DEF PropertiesChanged
    <3>4. told \in SUBSET watchers
      OBVIOUS
    <3> HIDE DEF told
    <3>5. Cardinality(told) \in Nat
      <4>1. PICK k \in Nat : k = Len(watched) /\ watchers \subseteq 1 .. k
        BY DEF Pointers, WatchPointers
      <4>2. IsFiniteSet(1 .. k)
        BY FS_Interval, 1 \in Int, k \in Int
      <4>3. IsFiniteSet(told)
        BY <3>4, <4>1, <4>2, FS_Subset
      <4> QED
        BY <4>3, FS_CardinalityType
    <3>6. SeatPointers'
      <4>1. CASE told = {}
        BY <3>3, <4>1 DEF Pointers, SeatPointers, seatVars
      <4>2. CASE told # {}
        BY <1>3, <3>3, <3>5, <4>2
      <4> QED
        BY <4>1, <4>2
    <3>7. WatchPointers'
      BY <3>3, <3>4, ToldPoints DEF Pointers
    <3> QED
      BY <1>1, <1>2, <2>1, <3>6, <3>7 DEF Pointers, BusTypes
  <2>5. CASE bus[1].type \notin {"new", "removed", "changed"}
    <3>1. PICK w \in Watchers, value \in BOOLEAN, valid \in BOOLEAN :
            w = bus[1].watcher /\ value = bus[1].value /\ valid = bus[1].valid
      <4>1. bus[1].watcher \in Watchers /\ bus[1].value \in BOOLEAN /\ bus[1].valid \in BOOLEAN
        BY <1>1, <1>5, <2>5 DEF Msg
      <4> QED
        BY <4>1
    <3>2. /\ IF w \in watchers /\ valid /\ value # watched[w].value
             THEN /\ watched' = [watched EXCEPT ![w].value = value]
                  /\ CanGraphicalChanged(watched[w].name, value, 1)
             ELSE UNCHANGED <<watched, seatVars>>
          /\ UNCHANGED <<watchers, systemSeats, asking>>
      <4>1. Got(bus[1])
        BY <2>1, <2>5
      <4> QED
        BY <3>1, <4>1, Zenon DEF Got
    <3>3. CASE w \in watchers /\ valid /\ value # watched[w].value
      <4>1. watched' = [x \in DOMAIN watched |->
                         IF x \in {w} THEN [watched[x] EXCEPT !.value = value] ELSE watched[x]]
        BY <3>2, <3>3
      <4>2. WatchPointers'
        BY <3>2, <3>3, <4>1, {w} \in SUBSET watchers, ToldPoints DEF Pointers
      <4>3. watched[w].name \in Names
        <5> DEFINE R == [name : Names, value : BOOLEAN]
        <5>1. watched \in Seq(R) /\ w \in 1 .. Len(watched)
          BY <3>3 DEF Pointers, WatchPointers
        <5>2. watched[w] \in R
          <6> HIDE DEF R
          <6> QED
            BY <5>1
        <5> QED
          BY <5>2
      <4>4. SeatPointers'
        BY <1>3, <3>2, <3>3, <4>3, 1 \in Nat
      <4> QED
        BY <1>1, <1>2, <2>1, <4>2, <4>4 DEF Pointers, BusTypes
    <3>4. CASE ~(w \in watchers /\ valid /\ value # watched[w].value)
      BY <1>1, <1>2, <2>1, <3>2, <3>4 DEF Pointers, SeatPointers, WatchPointers, BusTypes, seatVars
    <3> QED
      BY <3>3, <3>4
  <2> QED
    BY <2>2, <2>3, <2>4, <2>5
<1> QED
  BY <1>4, <1>5

LEMMA NextPoints ==
  ASSUME Pointers, [Next]_vars
  PROVE  Pointers'
<1>1. ASSUME UNCHANGED <<watchVars, seatVars>>, asking' \subseteq asking
      PROVE  SeatPointers' /\ WatchPointers'
  BY <1>1 DEF Pointers, SeatPointers, WatchPointers, watchVars, seatVars
<1>2. ASSUME NEW n \in Names, SeatAppears(n) PROVE Pointers'
  <2>1. [type |-> "new", name |-> n] \in Msg
    BY DEF Msg
  <2> QED
    BY <1>1, <1>2, <2>1 DEF SeatAppears, Signal, Pointers, BusTypes
<1>3. ASSUME NEW n \in Names, SeatVanishes(n) PROVE Pointers'
  <2>1. Removal(n) \in Msg
    BY DEF Msg, Removal
  <2> QED
    BY <1>1, <1>3, <2>1 DEF SeatVanishes, Signal, Pointers, BusTypes
<1>4. ASSUME NEW n \in Names, DevicesChange(n) PROVE Pointers'
  <2>1. [type |-> "changed", name |-> n, value |-> n \in graphical'] \in Msg
    BY DEF Msg
  <2>2. graphical' \subseteq known' /\ known' \subseteq Names
    BY <1>4 DEF DevicesChange, Pointers, BusTypes
  <2> QED
    BY <1>1, <1>4, <2>1, <2>2 DEF DevicesChange, Signal, Pointers, BusTypes
<1>5. CASE AnswerListSeats
  <2>1. [type |-> "list", names |-> known] \in Msg
    BY DEF Msg, Pointers, BusTypes
  <2> QED
    BY <1>1, <1>5, <2>1 DEF AnswerListSeats, logindVars, Pointers, BusTypes
<1>6. ASSUME NEW w \in Watchers, AnswerGet(w) PROVE Pointers'
  <2> DEFINE n == watched[w].name
             m == [type |-> "got", watcher |-> w, value |-> n \in graphical, valid |-> n \in known]
  <2>1. m \in Msg
    BY DEF Msg
  <2>2. bus' = Append(bus, m) /\ asking' \subseteq asking /\ UNCHANGED <<known, graphical, watchVars, seatVars>>
    BY <1>6 DEF AnswerGet, logindVars
  <2> HIDE DEF m
  <2> QED
    BY <1>1, <2>1, <2>2 DEF Pointers, BusTypes
<1>7. CASE Subscribe
  BY <1>1, <1>7 DEF Subscribe, logindVars, Pointers, BusTypes
<1>8. CASE HandleMessage
  BY <1>8, HandleMessagePoints
<1>9. CASE UNCHANGED vars
  BY <1>1, <1>9 DEF vars, logindVars, busVars, Pointers, BusTypes
<1> QED
  BY <1>2, <1>3, <1>4, <1>5, <1>6, <1>7, <1>8, <1>9 DEF Next, Logind

(* Every variable has its type, and no pointer leads to a deleted object,  *)
(* whether the daemon keeps up with logind or not.                         *)
THEOREM TypeCorrect == Spec => []TypeOK
<1>1. Init => Pointers
  BY SeatManagerAssumption DEF Init, Pointers, SeatPointers, WatchPointers, BusTypes
<1>2. Pointers => TypeOK
  <2>1. Pointers => asking \subseteq Watchers
    BY SeatManagerAssumption DEF Pointers, WatchPointers, Watchers
  <2> QED
    BY <2>1 DEF Pointers, SeatPointers, WatchPointers, BusTypes, TypeOK
<1> QED
  BY <1>1, <1>2, NextPoints, PTL DEF Spec

-----------------------------------------------------------------------------
(* Without DaemonKeepsUp a name may have several LogindSeats.  What a seat *)
(* will be to the daemon when it has handled some of its messages: whether *)
(* it has a Seat, the LogindSeat in m_systemSeats (Unborn: one that a      *)
(* message will make), what the unborn ones think of the seat, and what    *)
(* the others think that are left.                                         *)
Values == {"dark", "lit"}
Unborn == -1
View == [seat : Values, on : Int, unborn : SUBSET Values, here : SUBSET Watchers,
         val : [Watchers -> Values]]

Agree(a, b) == b.here = a.here /\ \A w \in a.here : b.val[w] = a.val[w]

Reply(m, a) == m.type = "got" /\ m.valid /\ m.watcher \in a.here

AfterCreation(a, b) ==
  b.seat = a.seat /\ b.on = Unborn /\ b.unborn = a.unborn \cup {"dark"} /\ Agree(a, b)
AfterRemoval(a, b) ==
  /\ b.seat = "dark" /\ b.on = 0 /\ b.unborn = {} /\ b.here = a.here \ {a.on}
  /\ \A w \in b.here : b.val[w] = a.val[w]
AfterChange(a, b, v) ==
  /\ a.on # 0 /\ b.on = a.on /\ b.seat = v /\ b.unborn = IF a.unborn = {} THEN {} ELSE {v}
  /\ b.here = a.here /\ \A w \in b.here : b.val[w] = v
AfterReply(a, b, x, v) ==
  /\ b.seat = IF a.val[x] = v THEN a.seat ELSE v
  /\ b.on = a.on /\ b.unborn = a.unborn /\ b.here = a.here
  /\ \A w \in b.here : b.val[w] = IF w = x THEN v ELSE a.val[w]
Unmoved(a, b) == b.seat = a.seat /\ b.on = a.on /\ b.unborn = a.unborn /\ Agree(a, b)

Moves(n, m, a, b) ==
  IF Creates(n, m) THEN AfterCreation(a, b)
  ELSE IF Removes(n, m) THEN AfterRemoval(a, b)
  ELSE IF Tells(n, m) THEN AfterChange(a, b, Says(m.value))
  ELSE IF Reply(m, a) THEN AfterReply(a, b, m.watcher, Says(m.value))
  ELSE Unmoved(a, b)

(* Somebody must have told the daemon what it takes the seat for; when no  *)
(* LogindSeat is left, it is one that is still to come.                    *)
Backed(a) ==
  a.here = {} => /\ a.seat = "lit" => "lit" \in a.unborn
                 /\ a.seat = "dark" /\ a.on # 0 => "dark" \in a.unborn

(* The messages l lead from view to view.                                  *)
Course(n, l, t) == /\ \A i \in 1 .. Len(l) : Moves(n, l[i], t[i - 1], t[i])
                   /\ \A i \in 0 .. Len(l) : Backed(t[i])

LEMMA MovesStayBacked ==
  ASSUME NEW n, NEW m \in Msg, NEW a \in View, NEW b \in View, Backed(a), Moves(n, m, a, b)
  PROVE  Backed(b)
<1>0. a.seat \in Values /\ a.unborn \subseteq Values
  BY DEF View
<1>1. CASE Creates(n, m)
  <2>1. AfterCreation(a, b)
    BY <1>1, Zenon DEF Moves
  <2> QED
    BY <1>0, <2>1 DEF AfterCreation, Agree, Backed
<1>2. CASE ~Creates(n, m) /\ Removes(n, m)
  <2>1. AfterRemoval(a, b)
    BY <1>2, Zenon DEF Moves
  <2> QED
    BY <2>1 DEF AfterRemoval, Backed
<1>3. CASE ~Creates(n, m) /\ ~Removes(n, m) /\ Tells(n, m)
  <2>1. AfterChange(a, b, Says(m.value))
    BY <1>3, Zenon DEF Moves
  <2>2. a.here = {} => a.unborn # {}
    BY <1>0, <2>1 DEF AfterChange, Backed, Values
  <2> QED
    BY <2>1, <2>2 DEF AfterChange, Backed
<1>4. CASE ~Creates(n, m) /\ ~Removes(n, m) /\ ~Tells(n, m) /\ Reply(m, a)
  <2>1. AfterReply(a, b, m.watcher, Says(m.value))
    BY <1>4, Zenon DEF Moves
  <2> QED
    BY <1>4, <2>1 DEF AfterReply, Reply, Backed
<1>5. CASE ~Creates(n, m) /\ ~Removes(n, m) /\ ~Tells(n, m) /\ ~Reply(m, a)
  <2>1. Unmoved(a, b)
    BY <1>5, Zenon DEF Moves
  <2> QED
    BY <2>1 DEF Unmoved, Agree, Backed
<1> QED
  BY <1>1, <1>2, <1>3, <1>4, <1>5

(* Any message that can come leads somewhere.                              *)
LEMMA MessagesMove ==
  ASSUME NEW n, NEW m \in Msg, NEW a \in View, Tells(n, m) => a.on # 0
  PROVE  \E b \in View : Moves(n, m, a, b)
<1>0. a.seat \in Values /\ a.on \in Int /\ a.unborn \subseteq Values /\ a.here \subseteq Watchers
      /\ a.val \in [Watchers -> Values]
  BY DEF View
<1>1. CASE Creates(n, m)
  <2> DEFINE b == [seat |-> a.seat, on |-> Unborn, unborn |-> a.unborn \cup {"dark"},
                   here |-> a.here, val |-> a.val]
  <2>1. b \in View
    BY <1>0 DEF View, Unborn, Values
  <2>2. AfterCreation(a, b)
    BY DEF AfterCreation, Agree
  <2> HIDE DEF b
  <2>3. Moves(n, m, a, b)
    BY <1>1, <2>2, Zenon DEF Moves
  <2> QED
    BY <2>1, <2>3
<1>2. CASE ~Creates(n, m) /\ Removes(n, m)
  <2> DEFINE b == [seat |-> "dark", on |-> 0, unborn |-> {},
                   here |-> a.here \ {a.on}, val |-> a.val]
  <2>1. b \in View
    BY <1>0 DEF View, Values
  <2>2. AfterRemoval(a, b)
    BY DEF AfterRemoval
  <2> HIDE DEF b
  <2>3. Moves(n, m, a, b)
    BY <1>2, <2>2, Zenon DEF Moves
  <2> QED
    BY <2>1, <2>3
<1>3. CASE ~Creates(n, m) /\ ~Removes(n, m) /\ Tells(n, m)
  <2>1. PICK v \in Values : v = Says(m.value)
    BY DEF Says, Values
  <2> DEFINE b == [seat |-> v, on |-> a.on, unborn |-> IF a.unborn = {} THEN {} ELSE {v},
                   here |-> a.here, val |-> [w \in Watchers |-> v]]
  <2>2. b \in View
    BY <1>0 DEF View, Values
  <2>3. AfterChange(a, b, v)
    BY <1>0, <1>3 DEF AfterChange
  <2> HIDE DEF b
  <2>4. Moves(n, m, a, b)
    BY <1>3, <2>1, <2>3, Zenon DEF Moves
  <2> QED
    BY <2>2, <2>4
<1>4. CASE ~Creates(n, m) /\ ~Removes(n, m) /\ ~Tells(n, m) /\ Reply(m, a)
  <2>1. PICK v \in Values : v = Says(m.value)
    BY DEF Says, Values
  <2> DEFINE b == [seat |-> IF a.val[m.watcher] = v THEN a.seat ELSE v, on |-> a.on,
                   unborn |-> a.unborn, here |-> a.here,
                   val |-> [w \in Watchers |-> IF w = m.watcher THEN v ELSE a.val[w]]]
  <2>2. b \in View
    BY <1>0 DEF View
  <2>3. AfterReply(a, b, m.watcher, v)
    BY <1>0 DEF AfterReply
  <2> HIDE DEF b
  <2>4. Moves(n, m, a, b)
    BY <1>4, <2>1, <2>3, Zenon DEF Moves
  <2> QED
    BY <2>2, <2>4
<1>5. CASE ~Creates(n, m) /\ ~Removes(n, m) /\ ~Tells(n, m) /\ ~Reply(m, a)
  <2>1. Unmoved(a, a)
    BY DEF Unmoved, Agree
  <2> QED
    BY <1>5, <2>1, Zenon DEF Moves
<1> QED
  BY <1>1, <1>2, <1>3, <1>4, <1>5

(* One message more.                                                       *)
LEMMA CourseGoesOn ==
  ASSUME NEW n, NEW l \in Seq(Msg), NEW m \in Msg, NEW t \in [0 .. Len(l) -> View],
         Course(n, l, t), NEW b \in View, Moves(n, m, t[Len(l)], b)
  PROVE  \E u \in [0 .. Len(l) + 1 -> View] :
           /\ Course(n, Append(l, m), u) /\ u[Len(l) + 1] = b
           /\ \A i \in 0 .. Len(l) : u[i] = t[i]
<1> DEFINE k == Len(l)
           u == [i \in 0 .. k + 1 |-> IF i <= k THEN t[i] ELSE b]
<1>1. k \in Nat
  OBVIOUS
<1> HIDE DEF k
<1>2. /\ u \in [0 .. k + 1 -> View] /\ u[k + 1] = b
      /\ \A i \in 0 .. k : u[i] = t[i]
  BY <1>1 DEF k
<1> HIDE DEF u
<1>3. /\ Len(Append(l, m)) = k + 1 /\ Append(l, m)[k + 1] = m
      /\ \A i \in 1 .. k : Append(l, m)[i] = l[i]
  BY DEF k
<1>4. ASSUME NEW i \in 1 .. k + 1 PROVE Moves(n, Append(l, m)[i], u[i - 1], u[i])
  <2>1. CASE i = k + 1
    <3>1. u[i - 1] = t[k]
      BY <1>1, <1>2, <2>1
    <3> QED
      BY <1>2, <1>3, <2>1, <3>1 DEF k
  <2>2. CASE i <= k
    <3>1. u[i - 1] = t[i - 1] /\ u[i] = t[i] /\ i \in 1 .. k
      BY <1>1, <1>2, <2>2
    <3>2. Moves(n, l[i], t[i - 1], t[i])
      BY <3>1 DEF Course, k
    <3> QED
      BY <1>3, <3>1, <3>2
  <2>3. i = k + 1 \/ i <= k
    BY <1>1
  <2> QED
    BY <2>1, <2>2, <2>3
<1>5. \A i \in 0 .. k : Backed(t[i])
  BY DEF Course, k
<1>6. Backed(b)
  <2>1. k \in 0 .. k /\ t[k] \in View
    BY <1>1 DEF k
  <2> QED
    BY <1>5, <2>1, MovesStayBacked DEF k
<1>7. ASSUME NEW i \in 0 .. k + 1 PROVE Backed(u[i])
  <2>1. i \in 0 .. k \/ i = k + 1
    BY <1>1
  <2> QED
    BY <1>2, <1>5, <1>6, <2>1
<1>8. Course(n, Append(l, m), u)
  BY <1>3, <1>4, <1>7 DEF Course
<1> QED
  BY <1>2, <1>8 DEF k

(* One message less.                                                       *)
Remaining(n, l, t, u) == Course(n, Tail(l), u) /\ \A i \in 0 .. Len(l) - 1 : u[i] = t[i + 1]

LEMMA CourseShifts ==
  ASSUME NEW n, NEW l \in Seq(Msg), l # <<>>, NEW t \in [0 .. Len(l) -> View], Course(n, l, t)
  PROVE  \E u \in [0 .. Len(l) - 1 -> View] : Remaining(n, l, t, u)
<1> DEFINE k == Len(l)
           u == [i \in 0 .. k - 1 |-> t[i + 1]]
<1>1. k \in Nat \ {0}
  OBVIOUS
<1>2. Len(Tail(l)) = k - 1 /\ \A i \in 1 .. k - 1 : Tail(l)[i] = l[i + 1]
  OBVIOUS
<1> HIDE DEF k
<1>3. u \in [0 .. k - 1 -> View] /\ \A i \in 0 .. k - 1 : u[i] = t[i + 1]
  BY <1>1 DEF k
<1> HIDE DEF u
<1>4. ASSUME NEW i \in 1 .. k - 1 PROVE Moves(n, Tail(l)[i], u[i - 1], u[i])
  <2>1. u[i - 1] = t[(i + 1) - 1] /\ u[i] = t[i + 1] /\ i + 1 \in 1 .. k
    BY <1>1, <1>3
  <2>2. Moves(n, l[i + 1], t[(i + 1) - 1], t[i + 1])
    BY <2>1 DEF Course, k
  <2> QED
    BY <1>2, <2>1, <2>2
<1>5. ASSUME NEW i \in 0 .. k - 1 PROVE Backed(u[i])
  <2>1. i + 1 \in 0 .. k
    BY <1>1
  <2> QED
    BY <1>3, <2>1 DEF Course, k
<1>6. Course(n, Tail(l), u)
  BY <1>2, <1>4, <1>5 DEF Course
<1> QED
  BY <1>3, <1>6 DEF k, Remaining
-----------------------------------------------------------------------------
(* When a LogindSeat is made, the views that took it for an unborn one now *)
(* have it by its number.                                                  *)
Born(a, b, w) ==
  /\ b.seat = a.seat /\ (b.on = a.on \/ (a.on = Unborn /\ b.on = w))
  /\ w \notin a.here /\ a.here \subseteq b.here /\ b.here \subseteq a.here \cup {w}
  /\ \A x \in a.here : b.val[x] = a.val[x]
  /\ \A v \in a.unborn : v \in b.unborn \/ (w \in b.here /\ b.val[w] = v)

LEMMA BornStaysBorn ==
  ASSUME NEW n, NEW m \in Msg, NEW w \in Watchers, m.type = "got" => m.watcher # w,
         NEW a \in View, NEW b \in View, Moves(n, m, a, b),
         NEW a1 \in View, NEW b1 \in View, Born(a, a1, w), Moves(n, m, a1, b1)
  PROVE  Born(b, b1, w)
<1>0. /\ a.here \subseteq Watchers /\ a1.here \subseteq Watchers
      /\ Unborn \notin Watchers /\ Unborn # 0 /\ 0 \notin Watchers
  BY SeatManagerAssumption DEF View, Watchers, Unborn
<1>1. CASE Creates(n, m)
  <2>1. AfterCreation(a, b) /\ AfterCreation(a1, b1)
    BY <1>1, Zenon DEF Moves
  <2> QED
    BY <2>1 DEF AfterCreation, Agree, Born
<1>2. CASE ~Creates(n, m) /\ Removes(n, m)
  <2>1. AfterRemoval(a, b) /\ AfterRemoval(a1, b1)
    BY <1>2, Zenon DEF Moves
  <2>2. w \notin b.here /\ b.here \subseteq b1.here /\ b1.here \subseteq b.here \cup {w}
    BY <1>0, <2>1 DEF AfterRemoval, Born
  <2> QED
    BY <2>1, <2>2 DEF AfterRemoval, Born
<1>3. CASE ~Creates(n, m) /\ ~Removes(n, m) /\ Tells(n, m)
  <2>1. AfterChange(a, b, Says(m.value)) /\ AfterChange(a1, b1, Says(m.value))
    BY <1>3, Zenon DEF Moves
  <2>2. PICK v : v = Says(m.value)
    OBVIOUS
  <2>3. \A x \in b.unborn : x = v /\ (x \in b1.unborn \/ (w \in b1.here /\ b1.val[w] = x))
    BY <2>1, <2>2 DEF AfterChange, Born
  <2> QED
    BY <2>1, <2>2, <2>3 DEF AfterChange, Born
<1>4. CASE ~Creates(n, m) /\ ~Removes(n, m) /\ ~Tells(n, m)
  <2>1. Reply(m, a) <=> Reply(m, a1)
    BY DEF Reply, Born
  <2>2. CASE Reply(m, a)
    <3>1. AfterReply(a, b, m.watcher, Says(m.value)) /\ AfterReply(a1, b1, m.watcher, Says(m.value))
      BY <1>4, <2>1, <2>2, Zenon DEF Moves
    <3>2. m.watcher \in a.here /\ m.watcher # w
      BY <2>2 DEF Reply
    <3> QED
      BY <3>1, <3>2 DEF AfterReply, Born
  <2>3. CASE ~Reply(m, a)
    <3>1. Unmoved(a, b) /\ Unmoved(a1, b1)
      BY <1>4, <2>1, <2>3, Zenon DEF Moves
    <3> QED
      BY <3>1 DEF Unmoved, Agree, Born
  <2> QED
    BY <2>2, <2>3
<1> QED
  BY <1>1, <1>2, <1>3, <1>4

LEMMA BornStaysBacked ==
  ASSUME NEW w, NEW a, NEW b, Born(a, b, w), Backed(a), w # 0
  PROVE  Backed(b)
<1>1. b.here = {} => a.here = {} /\ w \notin b.here
  BY DEF Born
<1>2. b.on # 0 => a.on # 0
  BY DEF Born, Unborn
<1> QED
  BY <1>1, <1>2 DEF Born, Backed

LEMMA BornCourse ==
  ASSUME NEW n, NEW l \in Seq(Msg), NEW w \in Watchers,
         \A i \in 1 .. Len(l) : l[i].type = "got" => l[i].watcher # w,
         NEW t \in [0 .. Len(l) -> View], Course(n, l, t),
         NEW first \in View, Born(t[0], first, w)
  PROVE  \E u \in [0 .. Len(l) -> View] :
           Course(n, l, u) /\ u[0] = first /\ \A i \in 0 .. Len(l) : Born(t[i], u[i], w)
<1> DEFINE Fits(u, k) == /\ u[0] = first /\ \A i \in 1 .. k : Moves(n, l[i], u[i - 1], u[i])
                         /\ \A i \in 0 .. k : Born(t[i], u[i], w)
           S == {k \in 0 .. Len(l) : \E u \in [0 .. k -> View] : Fits(u, k)}
<1>0. Len(l) \in Nat /\ w # 0 /\ \A i \in 1 .. Len(l) : Moves(n, l[i], t[i - 1], t[i])
  BY SeatManagerAssumption DEF Course, Watchers
<1>1. 0 \in S
  <2> DEFINE u == [i \in 0 .. 0 |-> first]
  <2>1. u \in [0 .. 0 -> View] /\ u[0] = first /\ 0 .. 0 = {0} /\ 1 .. 0 = {}
    OBVIOUS
  <2> HIDE DEF u
  <2>2. Fits(u, 0)
    BY <2>1
  <2> HIDE DEF Fits
  <2> QED
    BY <1>0, <2>1, <2>2
<1>2. ASSUME NEW k \in 1 .. Len(l), k - 1 \in S PROVE k \in S
  <2>1. PICK u \in [0 .. k - 1 -> View] : Fits(u, k - 1)
    BY <1>2
  <2>2. /\ k \in Nat /\ k - 1 \in 0 .. k - 1 /\ k - 1 \in 0 .. Len(l) /\ k \in 0 .. Len(l)
        /\ l[k] \in Msg /\ t[k - 1] \in View /\ t[k] \in View /\ u[k - 1] \in View
    BY <1>0
  <2>3. Moves(n, l[k], t[k - 1], t[k]) /\ Born(t[k - 1], u[k - 1], w)
    BY <1>0, <2>1, <2>2
  <2>4. Tells(n, l[k]) => u[k - 1].on # 0
    <3>1. Tells(n, l[k]) => ~Creates(n, l[k]) /\ ~Removes(n, l[k])
      BY DEF Tells, Creates, Removes
    <3>2. Tells(n, l[k]) => t[k - 1].on # 0
      <4>1. Tells(n, l[k]) => AfterChange(t[k - 1], t[k], Says(l[k].value))
        BY <2>3, <3>1, Zenon DEF Moves
      <4> QED
        BY <4>1 DEF AfterChange
    <3> QED
      BY <1>0, <2>3, <3>2 DEF Born
  <2>5. PICK b \in View : Moves(n, l[k], u[k - 1], b)
    BY <2>2, <2>4, MessagesMove
  <2>6. Born(t[k], b, w)
    BY <2>2, <2>3, <2>5, BornStaysBorn
  <2> DEFINE v == [i \in 0 .. k |-> IF i = k THEN b ELSE u[i]]
  <2>7. v \in [0 .. k -> View] /\ v[k] = b /\ \A i \in 0 .. k - 1 : v[i] = u[i]
    BY <2>2
  <2> HIDE DEF v
  <2>8. v[0] = first
    BY <2>1, <2>2, <2>7
  <2>9. ASSUME NEW i \in 1 .. k PROVE Moves(n, l[i], v[i - 1], v[i])
    <3>1. CASE i = k
      <4>1. v[i - 1] = u[k - 1]
        BY <2>2, <2>7, <3>1
      <4> QED
        BY <2>5, <2>7, <3>1, <4>1
    <3>2. CASE i # k
      <4>1. i \in 1 .. k - 1 /\ i \in 0 .. k - 1 /\ i - 1 \in 0 .. k - 1
        BY <2>2, <3>2
      <4>2. Moves(n, l[i], u[i - 1], u[i])
        BY <2>1, <4>1
      <4> QED
        BY <2>7, <4>1, <4>2
    <3> QED
      BY <3>1, <3>2
  <2>10. ASSUME NEW i \in 0 .. k PROVE Born(t[i], v[i], w)
    <3>1. i = k \/ i \in 0 .. k - 1
      BY <2>2
    <3> QED
      BY <2>1, <2>6, <2>7, <3>1
  <2>11. Fits(v, k)
    BY <2>8, <2>9, <2>10
  <2> HIDE DEF Fits
  <2> QED
    BY <2>2, <2>7, <2>11
<1>3. Len(l) \in S
  <2> HIDE DEF S
  <2>1. \A i \in 0 .. Len(l) : i \in S
    BY <1>0, <1>1, <1>2, BoundedInduction
  <2> QED
    BY <1>0, <2>1
<1>4. PICK u \in [0 .. Len(l) -> View] : Fits(u, Len(l))
  BY <1>3
<1>5. \A i \in 0 .. Len(l) : Backed(u[i])
  <2> SUFFICES ASSUME NEW i \in 0 .. Len(l) PROVE Backed(u[i])
    OBVIOUS
  <2>1. Backed(t[i]) /\ Born(t[i], u[i], w)
    BY <1>4 DEF Course
  <2> QED
    BY <1>0, <2>1, BornStaysBacked
<1>6. Course(n, l, u)
  BY <1>4, <1>5 DEF Course
<1> QED
  BY <1>4, <1>6

(* LogindSeats that are there come off the list only.                      *)
LEMMA HereShrinks ==
  ASSUME NEW n, NEW l \in Seq(Msg), NEW t \in [0 .. Len(l) -> View], Course(n, l, t)
  PROVE  t[Len(l)].here \subseteq t[0].here
<1> DEFINE S == {i \in 0 .. Len(l) : t[i].here \subseteq t[0].here}
<1>1. Len(l) \in Nat /\ 0 \in S
  OBVIOUS
<1>2. ASSUME NEW i \in 1 .. Len(l), i - 1 \in S PROVE i \in S
  <2>1. Moves(n, l[i], t[i - 1], t[i]) /\ i \in 0 .. Len(l)
    BY DEF Course
  <2>2. t[i].here \subseteq t[i - 1].here
    <3>1. \/ AfterCreation(t[i - 1], t[i]) \/ AfterRemoval(t[i - 1], t[i])
          \/ AfterChange(t[i - 1], t[i], Says(l[i].value))
          \/ AfterReply(t[i - 1], t[i], l[i].watcher, Says(l[i].value)) \/ Unmoved(t[i - 1], t[i])
      BY <2>1, Zenon DEF Moves
    <3> QED
      BY <3>1 DEF AfterCreation, AfterRemoval, AfterChange, AfterReply, Unmoved, Agree
  <2> QED
    BY <1>2, <2>1, <2>2
<1>3. \A i \in 0 .. Len(l) : i \in S
  <2> HIDE DEF S
  <2> QED
    BY <1>1, <1>2, BoundedInduction
<1> QED
  BY <1>1, <1>3

(* A message that makes nothing more for the seat can stay in front.       *)
LEMMA CourseBehind ==
  ASSUME NEW n, NEW l \in Seq(Msg), l # <<>>, NEW m, NEW u \in [0 .. Len(l) - 1 -> View],
         Course(n, Tail(l), u), Moves(n, m, u[0], u[0])
  PROVE  \E v \in [0 .. Len(l) -> View] :
           /\ Course(n, [l EXCEPT ![1] = m], v)
           /\ v[0] = u[0] /\ v[Len(l)] = u[Len(l) - 1]
<1> DEFINE k == Len(l)
           v == [i \in 0 .. k |-> IF i = 0 THEN u[0] ELSE u[i - 1]]
           l1 == [l EXCEPT ![1] = m]
<1>1. k \in Nat \ {0} /\ DOMAIN l = 1 .. k
  OBVIOUS
<1>2. Len(Tail(l)) = k - 1 /\ \A i \in 1 .. k - 1 : Tail(l)[i] = l[i + 1]
  OBVIOUS
<1>3. Len(l1) = k /\ l1[1] = m /\ \A i \in 2 .. k : l1[i] = l[i]
  BY <1>1
<1> HIDE DEF k, l1
<1>4. /\ v \in [0 .. k -> View] /\ v[0] = u[0] /\ \A i \in 1 .. k : v[i] = u[i - 1]
  BY <1>1 DEF k
<1> HIDE DEF v
<1>5. ASSUME NEW i \in 1 .. k PROVE Moves(n, l1[i], v[i - 1], v[i])
  <2>1. CASE i = 1
    BY <1>1, <1>3, <1>4, <2>1
  <2>2. CASE i # 1
    <3>1. i - 1 \in 1 .. k - 1 /\ i \in 2 .. k /\ v[i] = u[i - 1] /\ v[i - 1] = u[(i - 1) - 1]
      BY <1>1, <1>4, <2>2
    <3>2. Moves(n, Tail(l)[i - 1], u[(i - 1) - 1], u[i - 1])
      BY <1>2, <3>1 DEF Course
    <3>3. Tail(l)[i - 1] = l1[i]
      BY <1>1, <1>2, <1>3, <3>1
    <3> QED
      BY <3>1, <3>2, <3>3
  <2> QED
    BY <2>1, <2>2
<1>6. ASSUME NEW i \in 0 .. k PROVE Backed(v[i])
  <2>1. \E j \in 0 .. k - 1 : v[i] = u[j]
    <3>1. i = 0 \/ (i \in 1 .. k /\ i - 1 \in 0 .. k - 1)
      BY <1>1
    <3>2. 0 \in 0 .. k - 1
      BY <1>1
    <3> QED
      BY <1>4, <3>1, <3>2
  <2> QED
    BY <1>2, <2>1 DEF Course
<1>7. Course(n, l1, v)
  BY <1>3, <1>5, <1>6 DEF Course
<1> QED
  BY <1>1, <1>4, <1>7 DEF k, l1

-----------------------------------------------------------------------------
Begins(n, a) ==
  /\ a.seat = IF seats[n] = 0 THEN "dark" ELSE "lit"
  /\ a.on = systemSeats[n] /\ a.unborn = {}
  /\ a.here = {w \in watchers : watched[w].name = n}
  /\ \A w \in a.here : a.val[w] = Says(watched[w].value)

Truth(n) == Says(n \in graphical)

(* An answer to come that corrects the daemon if it is wrong.              *)
Corrected(a) == a.seat \in a.unborn \/ \E w \in asking \cap a.here : a.val[w] = a.seat

(* The daemon hasn't heard of the seat.                                    *)
Unheard(n) ==
  /\ listing = "asked" /\ \A w \in watchers : watched[w].name # n
  /\ \A i \in 1 .. Len(bus) : ~Creates(n, bus[i])

Ends(n, a) ==
  /\ n \notin known => a.seat = "dark"
  /\ n \in known /\ a.on = 0 => a.seat = "dark" /\ a.here = {} /\ Unheard(n)
  /\ n \in known /\ a.on # 0 => a.seat = Truth(n) \/ Corrected(a)

Catches(n) == \E t \in [0 .. Len(bus) -> View], first \in View, last \in View :
                /\ Course(n, bus, t) /\ first = t[0] /\ last = t[Len(bus)]
                /\ Begins(n, first) /\ Ends(n, last)

Wires ==
  /\ ~subscribed => /\ bus = <<>> /\ watchers = {} /\ asking = {} /\ listing = "asked"
                    /\ \A n \in Names : seats[n] = 0
  /\ \A i \in 1 .. Len(bus) : bus[i].type = "list" => listing # "asked"
  /\ \A i \in 1 .. Len(bus) : bus[i].type = "got" => bus[i].watcher \in 1 .. Len(watched)

CatchesUp == Pointers /\ Wires /\ \A n \in Names : Catches(n)

(* A message that is sent.                                                 *)
LEMMA SentCatches ==
  ASSUME NEW n \in Names, bus \in Seq(Msg), NEW m \in Msg, bus' = Append(bus, m),
         UNCHANGED <<watchVars, seatVars>>,
         NEW t \in [0 .. Len(bus) -> View], Course(n, bus, t), NEW a \in View, a = t[0], Begins(n, a),
         NEW b \in View, Moves(n, m, t[Len(bus)], b), Ends(n, b)'
  PROVE  Catches(n)'
<1>1. PICK k \in Nat : k = Len(bus)
  OBVIOUS
<1>2. PICK u \in [0 .. k + 1 -> View] :
        Course(n, Append(bus, m), u) /\ u[k + 1] = b /\ \A i \in 0 .. k : u[i] = t[i]
  BY <1>1, CourseGoesOn
<1>3. Len(bus') = k + 1
  BY <1>1
<1>4. u[0] = a
  BY <1>1, <1>2
<1>5. Begins(n, a)'
  BY DEF Begins, watchVars, seatVars
<1>6. Course(n, bus', u)
  BY <1>2
<1> QED
  BY <1>1, <1>2, <1>3, <1>4, <1>5, <1>6 DEF Catches

(* A message that is handled.                                              *)
LEMMA HandledCatches ==
  ASSUME NEW n \in Names, bus \in Seq(Msg), bus # <<>>, bus' = Tail(bus),
         NEW t \in [0 .. Len(bus) -> View], Course(n, bus, t),
         NEW a \in View, a = t[1], Begins(n, a)', NEW b \in View, b = t[Len(bus)], Ends(n, b)'
  PROVE  Catches(n)'
<1>1. PICK k \in Nat \ {0} : k = Len(bus)
  OBVIOUS
<1>2. PICK u \in [0 .. k - 1 -> View] : Remaining(n, bus, t, u)
  BY <1>1, CourseShifts
<1>3. Len(bus') = k - 1 /\ u[0] = t[1] /\ u[k - 1] = t[k] /\ Course(n, bus', u)
  BY <1>1, <1>2 DEF Remaining
<1> QED
  BY <1>1, <1>2, <1>3 DEF Catches

(* Something that happens without a message.                               *)
LEMMA UnsentCatches ==
  ASSUME NEW n \in Names, UNCHANGED <<bus, watchVars, seatVars>>,
         NEW t \in [0 .. Len(bus) -> View], Course(n, bus, t),
         NEW a \in View, a = t[0], Begins(n, a), NEW b \in View, b = t[Len(bus)], Ends(n, b)'
  PROVE  Catches(n)'
<1>1. Begins(n, a)'
  BY DEF Begins, watchVars, seatVars
<1> QED
  BY <1>1 DEF Catches

LEMMA EndsStay ==
  ASSUME NEW n, NEW a, Ends(n, a), n \in known' <=> n \in known, n \in graphical' <=> n \in graphical,
         asking \subseteq asking', n \in known /\ a.on = 0 => Unheard(n)'
  PROVE  Ends(n, a)'
<1>1. Truth(n)' = Truth(n)
  BY DEF Truth, Says
<1>2. Corrected(a) => Corrected(a)'
  BY DEF Corrected
<1> QED
  BY <1>1, <1>2 DEF Ends

LEMMA AppearCatches ==
  ASSUME CatchesUp, NEW x \in Names, SeatAppears(x), NEW n \in Names
  PROVE  Catches(n)'
<1> DEFINE m == [type |-> "new", name |-> x]
<1>1. /\ x \notin known /\ known' = known \cup {x} /\ graphical' \in {graphical, graphical \cup {x}}
      /\ bus' = IF subscribed THEN Append(bus, m) ELSE bus
      /\ UNCHANGED <<listing, asking, watchVars, seatVars>>
  BY DEF SeatAppears, Signal
<1>2. m \in Msg /\ m.type = "new" /\ m.name = x
  BY DEF Msg
<1> HIDE DEF m
<1>3. PICK t \in [0 .. Len(bus) -> View], a \in View, b \in View :
         Course(n, bus, t) /\ a = t[0] /\ b = t[Len(bus)] /\ Begins(n, a) /\ Ends(n, b)
  BY DEF CatchesUp, Catches
<1>4. bus \in Seq(Msg)
  BY DEF CatchesUp, Pointers, BusTypes
<1>5. CASE subscribed /\ n = x
  <2>1. Creates(n, m)
    BY <1>2, <1>5 DEF Creates
  <2>2. PICK c \in View : Moves(n, m, b, c)
    BY <1>2, <2>1, MessagesMove DEF Tells
  <2>3. AfterCreation(b, c)
    BY <2>1, <2>2, Zenon DEF Moves
  <2>4. b.seat = "dark"
    BY <1>1, <1>3, <1>5 DEF Ends
  <2>5. c.seat = "dark" /\ c.on # 0 /\ c.seat \in c.unborn
    BY <2>3, <2>4 DEF AfterCreation, Unborn
  <2>6. Corrected(c)'
    BY <2>5 DEF Corrected
  <2>7. Ends(n, c)'
    BY <2>5, <2>6 DEF Ends
  <2> QED
    BY <1>1, <1>2, <1>3, <1>4, <1>5, <2>2, <2>7, SentCatches
<1>6. CASE ~subscribed /\ n = x
  <2>1. bus = <<>> /\ watchers = {} /\ listing = "asked" /\ seats[n] = 0
    BY <1>6 DEF CatchesUp, Wires
  <2>2. a = b /\ a.seat = "dark" /\ a.here = {} /\ a.on = 0
    <3>1. systemSeats[n] = 0
      BY <2>1 DEF CatchesUp, Pointers, WatchPointers
    <3> QED
      BY <1>3, <2>1, <3>1 DEF Begins
  <2>3. Unheard(n)'
    BY <1>1, <1>6, <2>1 DEF Unheard, watchVars
  <2>4. Ends(n, b)'
    BY <2>2, <2>3 DEF Ends
  <2> QED
    BY <1>1, <1>3, <1>6, <2>4, UnsentCatches
<1>7. CASE n # x
  <2>1. (n \in known' <=> n \in known) /\ (n \in graphical' <=> n \in graphical)
    BY <1>1, <1>7
  <2>2. ~Creates(n, m) /\ ~Removes(n, m) /\ ~Tells(n, m) /\ ~Reply(m, b)
    BY <1>2, <1>7 DEF Creates, Removes, Tells, Reply
  <2>3. Unheard(n) => Unheard(n)'
    BY <1>1, <1>2, <1>4, <2>2 DEF Unheard, watchVars
  <2>4. Ends(n, b)'
    BY <1>1, <1>3, <2>1, <2>3, EndsStay DEF Ends
  <2>5. CASE subscribed
    <3>1. Unmoved(b, b)
      BY DEF Unmoved, Agree
    <3>2. Moves(n, m, b, b)
      BY <2>2, <3>1, Zenon DEF Moves
    <3> QED
      BY <1>1, <1>2, <1>3, <1>4, <2>4, <2>5, <3>2, SentCatches
  <2>6. CASE ~subscribed
    BY <1>1, <1>3, <2>4, <2>6, UnsentCatches
  <2> QED
    BY <2>5, <2>6
<1> QED
  BY <1>5, <1>6, <1>7

LEMMA VanishCatches ==
  ASSUME CatchesUp, NEW x \in Names, SeatVanishes(x), NEW n \in Names
  PROVE  Catches(n)'
<1> DEFINE m == Removal(x)
<1>1. /\ known' = known \ {x} /\ graphical' = graphical \ {x}
      /\ bus' = IF subscribed THEN Append(bus, m) ELSE bus
      /\ UNCHANGED <<listing, asking, watchVars, seatVars>>
  BY DEF SeatVanishes, Signal
<1>2. m \in Msg /\ m.type = "removed" /\ m.name = x
  BY DEF Msg, Removal
<1> HIDE DEF m
<1>3. PICK t \in [0 .. Len(bus) -> View], a \in View, b \in View :
         Course(n, bus, t) /\ a = t[0] /\ b = t[Len(bus)] /\ Begins(n, a) /\ Ends(n, b)
  BY DEF CatchesUp, Catches
<1>4. bus \in Seq(Msg)
  BY DEF CatchesUp, Pointers, BusTypes
<1>5. CASE subscribed /\ n = x
  <2>1. ~Creates(n, m) /\ Removes(n, m)
    BY <1>2, <1>5 DEF Creates, Removes
  <2>2. PICK c \in View : Moves(n, m, b, c)
    BY <1>2, MessagesMove DEF Tells
  <2>3. AfterRemoval(b, c)
    BY <2>1, <2>2, Zenon DEF Moves
  <2>4. Ends(n, c)'
    BY <1>1, <1>5, <2>3 DEF AfterRemoval, Ends
  <2> QED
    BY <1>1, <1>2, <1>3, <1>4, <1>5, <2>2, <2>4, SentCatches
<1>6. CASE ~subscribed /\ n = x
  <2>1. bus = <<>> /\ seats[n] = 0
    BY <1>6 DEF CatchesUp, Wires
  <2>2. a = b /\ a.seat = "dark"
    BY <1>3, <2>1 DEF Begins
  <2>3. Ends(n, b)'
    BY <1>1, <1>6, <2>2 DEF Ends
  <2> QED
    BY <1>1, <1>3, <1>6, <2>3, UnsentCatches
<1>7. CASE n # x
  <2>1. (n \in known' <=> n \in known) /\ (n \in graphical' <=> n \in graphical)
    BY <1>1, <1>7
  <2>2. ~Creates(n, m) /\ ~Removes(n, m) /\ ~Tells(n, m) /\ ~Reply(m, b)
    BY <1>2, <1>7 DEF Creates, Removes, Tells, Reply
  <2>3. Unheard(n) => Unheard(n)'
    BY <1>1, <1>2, <1>4, <2>2 DEF Unheard, watchVars
  <2>4. Ends(n, b)'
    BY <1>1, <1>3, <2>1, <2>3, EndsStay DEF Ends
  <2>5. CASE subscribed
    <3>1. Unmoved(b, b)
      BY DEF Unmoved, Agree
    <3>2. Moves(n, m, b, b)
      BY <2>2, <3>1, Zenon DEF Moves
    <3> QED
      BY <1>1, <1>2, <1>3, <1>4, <2>4, <2>5, <3>2, SentCatches
  <2>6. CASE ~subscribed
    BY <1>1, <1>3, <2>4, <2>6, UnsentCatches
  <2> QED
    BY <2>5, <2>6
<1> QED
  BY <1>5, <1>6, <1>7

LEMMA DevicesCatches ==
  ASSUME CatchesUp, NEW x \in Names, DevicesChange(x), NEW n \in Names
  PROVE  Catches(n)'
<1> DEFINE m == [type |-> "changed", name |-> x, value |-> x \in graphical']
<1>1. /\ x \in known /\ known' = known /\ graphical' \in {graphical \cup {x}, graphical \ {x}}
      /\ bus' = IF Watching(x) THEN Append(bus, m) ELSE bus
      /\ UNCHANGED <<listing, asking, watchVars, seatVars>>
  BY DEF DevicesChange, Signal
<1>2. m \in Msg /\ m.type = "changed" /\ m.name = x
  BY DEF Msg
<1>3. Says(m.value) = Truth(x)'
  BY DEF Says, Truth
<1> HIDE DEF m
<1>4. PICK t \in [0 .. Len(bus) -> View], a \in View, b \in View :
         Course(n, bus, t) /\ a = t[0] /\ b = t[Len(bus)] /\ Begins(n, a) /\ Ends(n, b)
  BY DEF CatchesUp, Catches
<1>5. bus \in Seq(Msg)
  BY DEF CatchesUp, Pointers, BusTypes
<1>6. CASE Watching(x) /\ n = x
  <2>1. ~Creates(n, m) /\ ~Removes(n, m) /\ Tells(n, m)
    BY <1>2, <1>6 DEF Creates, Removes, Tells
  <2>2. b.on # 0
    BY <1>1, <1>4, <1>6 DEF Ends, Unheard, Watching
  <2>3. PICK c \in View : Moves(n, m, b, c)
    BY <1>2, <2>2, MessagesMove
  <2>4. AfterChange(b, c, Truth(n)')
    BY <1>3, <1>6, <2>1, <2>3, Zenon DEF Moves
  <2>5. Ends(n, c)'
    BY <1>1, <1>6, <2>2, <2>4 DEF AfterChange, Ends
  <2> QED
    BY <1>1, <1>2, <1>4, <1>5, <1>6, <2>3, <2>5, SentCatches
<1>7. CASE ~Watching(x) /\ n = x
  <2>1. b.here = {}
    <3>1. a.here = {}
      BY <1>4, <1>7 DEF Begins, Watching
    <3> QED
      BY <1>4, <1>5, <3>1, HereShrinks
  <2>2. Backed(b)
    BY <1>4, <1>5 DEF Course
  <2>3. b.seat \in Values
    BY DEF View
  <2>4. bus' = bus
    BY <1>1, <1>7
  <2>5. b.on = 0 => b.seat = "dark" /\ Unheard(n)'
    BY <1>1, <1>4, <1>7, <2>4 DEF Ends, Unheard, watchVars
  <2>6. b.on # 0 => Corrected(b)'
    BY <2>1, <2>2, <2>3 DEF Backed, Corrected, Values
  <2>7. Ends(n, b)'
    BY <1>1, <1>7, <2>1, <2>5, <2>6 DEF Ends
  <2> QED
    BY <1>1, <1>4, <2>4, <2>7, UnsentCatches
<1>8. CASE n # x
  <2>1. (n \in known' <=> n \in known) /\ (n \in graphical' <=> n \in graphical)
    BY <1>1, <1>8
  <2>2. ~Creates(n, m) /\ ~Removes(n, m) /\ ~Tells(n, m) /\ ~Reply(m, b)
    BY <1>2, <1>8 DEF Creates, Removes, Tells, Reply
  <2>3. Unheard(n) => Unheard(n)'
    BY <1>1, <1>2, <1>5, <2>2 DEF Unheard, watchVars
  <2>4. Ends(n, b)'
    BY <1>1, <1>4, <2>1, <2>3, EndsStay DEF Ends
  <2>5. CASE Watching(x)
    <3>1. Unmoved(b, b)
      BY DEF Unmoved, Agree
    <3>2. Moves(n, m, b, b)
      BY <2>2, <3>1, Zenon DEF Moves
    <3> QED
      BY <1>1, <1>2, <1>4, <1>5, <2>4, <2>5, <3>2, SentCatches
  <2>6. CASE ~Watching(x)
    BY <1>1, <1>4, <2>4, <2>6, UnsentCatches
  <2> QED
    BY <2>5, <2>6
<1> QED
  BY <1>6, <1>7, <1>8

LEMMA AnswerListCatches ==
  ASSUME CatchesUp, AnswerListSeats, NEW n \in Names
  PROVE  Catches(n)'
<1> DEFINE m == [type |-> "list", names |-> known]
<1>1. /\ UNCHANGED <<known, graphical, asking, watchVars, seatVars>> /\ bus' = Append(bus, m)
      /\ listing = "asked"
  BY DEF AnswerListSeats, logindVars
<1>2. m \in Msg /\ m.type = "list" /\ m.names = known
  BY DEF Msg, CatchesUp, Pointers, BusTypes
<1> HIDE DEF m
<1>3. PICK t \in [0 .. Len(bus) -> View], a \in View, b \in View :
         Course(n, bus, t) /\ a = t[0] /\ b = t[Len(bus)] /\ Begins(n, a) /\ Ends(n, b)
  BY DEF CatchesUp, Catches
<1>4. bus \in Seq(Msg)
  BY DEF CatchesUp, Pointers, BusTypes
<1>5. CASE n \in known
  <2>1. Creates(n, m) /\ ~Tells(n, m)
    BY <1>2, <1>5 DEF Creates, Tells
  <2>2. PICK c \in View : Moves(n, m, b, c)
    BY <1>2, <2>1, MessagesMove
  <2>3. AfterCreation(b, c)
    BY <2>1, <2>2, Zenon DEF Moves
  <2>4. c.on # 0 /\ Truth(n)' = Truth(n) /\ asking' = asking
    BY <1>1, <2>3 DEF AfterCreation, Unborn, Truth, Says
  <2>5. CASE b.on = 0
    <3>1. c.seat \in c.unborn
      BY <1>3, <1>5, <2>3, <2>5 DEF AfterCreation, Ends
    <3> QED
      BY <1>1, <1>2, <1>3, <1>4, <1>5, <2>2, <2>4, <3>1, SentCatches DEF Ends, Corrected
  <2>6. CASE b.on # 0
    <3>1. b.seat = Truth(n) \/ Corrected(b)
      BY <1>3, <1>5, <2>6 DEF Ends
    <3>2. Corrected(b) => Corrected(c)'
      BY <2>3, <2>4 DEF AfterCreation, Agree, Corrected
    <3>3. Ends(n, c)'
      BY <1>1, <1>5, <2>3, <2>4, <3>1, <3>2 DEF Ends, AfterCreation
    <3> QED
      BY <1>1, <1>2, <1>3, <1>4, <2>2, <3>3, SentCatches
  <2> QED
    BY <2>5, <2>6
<1>6. CASE n \notin known
  <2>1. ~Creates(n, m) /\ ~Removes(n, m) /\ ~Tells(n, m) /\ ~Reply(m, b)
    BY <1>2, <1>6 DEF Creates, Removes, Tells, Reply
  <2>2. Unmoved(b, b)
    BY DEF Unmoved, Agree
  <2>3. Moves(n, m, b, b)
    BY <2>1, <2>2, Zenon DEF Moves
  <2>4. Ends(n, b)'
    BY <1>1, <1>3, <1>6 DEF Ends
  <2> QED
    BY <1>1, <1>2, <1>3, <1>4, <2>3, <2>4, SentCatches
<1> QED
  BY <1>5, <1>6

LEMMA AnswerGetCatches ==
  ASSUME CatchesUp, NEW w \in Watchers, AnswerGet(w), NEW n \in Names
  PROVE  Catches(n)'
<1> DEFINE q == watched[w].name
           m == [type |-> "got", watcher |-> w, value |-> q \in graphical, valid |-> q \in known]
<1>1. /\ UNCHANGED <<known, graphical, listing, watchVars, seatVars>> /\ bus' = Append(bus, m)
      /\ asking' = asking \ {w}
  BY DEF AnswerGet, logindVars
<1>2. m \in Msg /\ m.type = "got" /\ m.watcher = w /\ (m.valid <=> q \in known)
  <2>1. m \in Msg /\ m.type = "got" /\ m.watcher = w
    BY DEF Msg
  <2>2. m.valid <=> q \in known
    BY Zenon
  <2> QED
    BY <2>1, <2>2
<1>3. Says(m.value) = Truth(q) /\ Truth(n)' = Truth(n)
  BY <1>1 DEF Says, Truth
<1> HIDE DEF m
<1>4. PICK t \in [0 .. Len(bus) -> View], a \in View, b \in View :
         Course(n, bus, t) /\ a = t[0] /\ b = t[Len(bus)] /\ Begins(n, a) /\ Ends(n, b)
  BY DEF CatchesUp, Catches
<1>5. bus \in Seq(Msg)
  BY DEF CatchesUp, Pointers, BusTypes
<1>6. ~Creates(n, m) /\ ~Removes(n, m) /\ ~Tells(n, m)
  BY <1>2 DEF Creates, Removes, Tells
<1>7. w \in b.here => q = n
  <2>1. b.here \subseteq a.here
    BY <1>4, <1>5, HereShrinks
  <2> QED
    BY <1>4, <2>1 DEF Begins
<1>8. CASE Reply(m, b)
  <2>1. w \in b.here /\ q = n /\ n \in known
    BY <1>2, <1>7, <1>8 DEF Reply
  <2>2. PICK c \in View : Moves(n, m, b, c)
    BY <1>2, <1>6, MessagesMove
  <2>3. AfterReply(b, c, m.watcher, Says(m.value))
    BY <1>6, <1>8, <2>2, Zenon DEF Moves
  <2>4. AfterReply(b, c, w, Truth(n))
    BY <1>2, <1>3, <2>1, <2>3
  <2>5. b.on # 0 /\ (b.seat = Truth(n) \/ Corrected(b))
    BY <1>4, <2>1 DEF Ends
  <2>6. c.seat = Truth(n) \/ Corrected(c)'
    <3>1. CASE b.val[w] # Truth(n) \/ b.seat = Truth(n)
      BY <2>4, <3>1 DEF AfterReply
    <3>2. CASE b.val[w] = Truth(n) /\ b.seat # Truth(n)
      <4>1. c.seat = b.seat /\ Corrected(b)
        BY <2>4, <2>5, <3>2 DEF AfterReply
      <4>2. CASE b.seat \in b.unborn
        BY <2>4, <4>1, <4>2 DEF AfterReply, Corrected
      <4>3. CASE \E y \in asking \cap b.here : b.val[y] = b.seat
        <5>1. PICK y \in asking \cap b.here : b.val[y] = b.seat
          BY <4>3
        <5>2. y # w
          BY <3>2, <5>1
        <5> QED
          BY <1>1, <2>4, <4>1, <5>1, <5>2 DEF AfterReply, Corrected
      <4> QED
        BY <4>1, <4>2, <4>3 DEF Corrected
    <3> QED
      BY <3>1, <3>2
  <2>7. Ends(n, c)'
    BY <1>1, <1>3, <2>1, <2>4, <2>5, <2>6 DEF AfterReply, Ends
  <2> QED
    BY <1>1, <1>2, <1>4, <1>5, <2>2, <2>7, SentCatches
<1>9. CASE ~Reply(m, b)
  <2>1. Unmoved(b, b)
    BY DEF Unmoved, Agree
  <2>2. Moves(n, m, b, b)
    BY <1>6, <1>9, <2>1, Zenon DEF Moves
  <2>3. n \in known => w \notin b.here
    BY <1>2, <1>7, <1>9 DEF Reply
  <2>4. n \in known /\ Corrected(b) => Corrected(b)'
    BY <1>1, <2>3 DEF Corrected
  <2>5. Unheard(n) => Unheard(n)'
    BY <1>1, <1>2, <1>5, <1>6 DEF Unheard, watchVars
  <2>6. Ends(n, b)'
    BY <1>1, <1>3, <1>4, <2>4, <2>5 DEF Ends
  <2> QED
    BY <1>1, <1>2, <1>4, <1>5, <2>2, <2>6, SentCatches
<1> QED
  BY <1>8, <1>9

LEMMA IdleCatches ==
  ASSUME CatchesUp, UNCHANGED <<known, graphical, listing, asking, bus, watchVars, seatVars>>,
         NEW n \in Names
  PROVE  Catches(n)'
<1>1. PICK t \in [0 .. Len(bus) -> View], a \in View, b \in View :
         Course(n, bus, t) /\ a = t[0] /\ b = t[Len(bus)] /\ Begins(n, a) /\ Ends(n, b)
  BY DEF CatchesUp, Catches
<1>2. Unheard(n) => Unheard(n)'
  BY DEF Unheard, watchVars
<1>3. Ends(n, b)'
  BY <1>1, <1>2, EndsStay DEF Ends
<1> QED
  BY <1>1, <1>3, UnsentCatches
-----------------------------------------------------------------------------
LEMMA HeadMoves ==
  ASSUME bus \in Seq(Msg), bus # <<>>, NEW n \in Names, Catches(n)
  PROVE  \E t \in [0 .. Len(bus) -> View], a \in View, b \in View, c \in View :
           /\ Course(n, bus, t) /\ a = t[0] /\ c = t[1] /\ b = t[Len(bus)]
           /\ Begins(n, a) /\ Moves(n, bus[1], a, c) /\ Ends(n, b)
<1>1. PICK t \in [0 .. Len(bus) -> View], a \in View, b \in View :
         Course(n, bus, t) /\ a = t[0] /\ b = t[Len(bus)] /\ Begins(n, a) /\ Ends(n, b)
  BY DEF Catches
<1>2. PICK k \in Nat \ {0} : k = Len(bus)
  OBVIOUS
<1>3. t[1] \in View /\ 1 \in 1 .. Len(bus)
  BY <1>2
<1>4. Moves(n, bus[1], t[1 - 1], t[1])
  BY <1>1, <1>3 DEF Course
<1> QED
  BY <1>1, <1>3, <1>4

LEMMA BeginsAgain ==
  ASSUME NEW n, NEW a, Begins(n, a), NEW b, Unmoved(a, b)
  PROVE  Begins(n, b)
BY DEF Begins, Unmoved, Agree

LEMMA EndsHandled ==
  ASSUME NEW n, NEW a, Ends(n, a), bus \in Seq(Msg), bus # <<>>, bus' = Tail(bus),
         UNCHANGED <<known, graphical, asking, listing>>, watchers' \subseteq watchers,
         \A w \in watchers' : watched'[w].name = watched[w].name
  PROVE  Ends(n, a)'
<1>1. Unheard(n) => Unheard(n)'
  <2>1. \A i \in 1 .. Len(bus') : i + 1 \in 1 .. Len(bus) /\ bus'[i] = bus[i + 1]
    OBVIOUS
  <2> QED
    BY <2>1 DEF Unheard
<1> QED
  BY <1>1, EndsStay DEF Ends

LEMMA RemovedCatches ==
  ASSUME Pointers, bus # <<>>, NEW x \in Names, bus[1].type = "removed", bus[1].name = x,
         bus' = Tail(bus), LogindSeatRemoved(x), UNCHANGED <<known, graphical>>,
         NEW n \in Names, Catches(n)
  PROVE  Catches(n)'
<1>1. /\ watchers' = watchers \ {systemSeats[x]} /\ systemSeats' = [systemSeats EXCEPT ![x] = 0]
      /\ RemoveSeat(x) /\ UNCHANGED <<watched, asking, listing>>
  BY DEF LogindSeatRemoved
<1>2. seats' = [seats EXCEPT ![x] = 0]
  BY <1>1 DEF RemoveSeat, seatVars, Pointers, SeatPointers
<1>3. bus \in Seq(Msg)
  BY DEF Pointers, BusTypes
<1>4. PICK t \in [0 .. Len(bus) -> View], a \in View, b \in View, c \in View :
           /\ Course(n, bus, t) /\ a = t[0] /\ c = t[1] /\ b = t[Len(bus)]
           /\ Begins(n, a) /\ Moves(n, bus[1], a, c) /\ Ends(n, b)
  BY <1>3, HeadMoves
<1>5. Ends(n, b)'
  BY <1>1, <1>3, <1>4, EndsHandled
<1>6. ~Creates(n, bus[1]) /\ ~Tells(n, bus[1]) /\ ~Reply(bus[1], a)
  BY DEF Creates, Tells, Reply
<1>7. Begins(n, c)'
  <2>1. CASE n = x
    <3>1. Removes(n, bus[1])
      BY <2>1 DEF Removes
    <3>2. AfterRemoval(a, c)
      BY <1>4, <1>6, <3>1, Zenon DEF Moves
    <3>3. seats'[n] = 0 /\ systemSeats'[n] = 0
      BY <1>1, <1>2, <2>1 DEF Pointers, SeatPointers, WatchPointers
    <3> QED
      BY <1>1, <1>4, <2>1, <3>2, <3>3 DEF AfterRemoval, Begins
  <2>2. CASE n # x
    <3>1. ~Removes(n, bus[1])
      BY <2>2 DEF Removes
    <3>2. Unmoved(a, c)
      BY <1>4, <1>6, <3>1, Zenon DEF Moves
    <3>3. seats'[n] = seats[n] /\ systemSeats'[n] = systemSeats[n]
      BY <1>1, <1>2, <2>2 DEF Pointers, SeatPointers, WatchPointers
    <3>4. systemSeats[x] \in watchers => watched[systemSeats[x]].name # n
      BY <2>2, SeatManagerAssumption DEF Pointers, WatchPointers
    <3>5. Begins(n, a)'
      BY <1>1, <1>4, <3>3, <3>4 DEF Begins
    <3> QED
      BY <3>2, <3>5 DEF Unmoved, Agree, Begins
  <2> QED
    BY <2>1, <2>2
<1> QED
  BY <1>3, <1>4, <1>5, <1>7, HandledCatches

(* What the slot of canGraphicalChanged() leaves in m_seats.               *)
LEMMA SeatTold ==
  ASSUME SeatPointers, NEW x \in Names, NEW value \in BOOLEAN, NEW k \in Nat \ {0},
         CanGraphicalChanged(x, value, k)
  PROVE  /\ seats'[x] = 0 <=> ~value
         /\ \A n \in Names \ {x} : seats'[n] = seats[n]
<1>1. CASE value
  <2>1. PICK f \in Nat \ {0} : f = Len(nameOf) + 1
    BY DEF SeatPointers
  <2>2. CreateSeats(x, k)
    BY <1>1 DEF CanGraphicalChanged
  <2>3. seats' = [seats EXCEPT ![x] = IF k = 0 THEN @ ELSE f + k - 1]
    BY <2>1, <2>2, Zenon DEF CreateSeats
  <2>4. seats' = [seats EXCEPT ![x] = f + k - 1] /\ f + k - 1 # 0
    BY <2>1, <2>3
  <2> QED
    BY <1>1, <2>4 DEF SeatPointers
<1>2. CASE ~value
  <2>1. RemoveSeat(x)
    BY <1>2 DEF CanGraphicalChanged
  <2>2. seats' = [seats EXCEPT ![x] = 0]
    BY <2>1 DEF RemoveSeat, seatVars, SeatPointers
  <2> QED
    BY <1>2, <2>2 DEF SeatPointers
<1> QED
  BY <1>1, <1>2

LEMMA ChangedCatches ==
  ASSUME Pointers, bus # <<>>, NEW x \in Names, NEW v \in BOOLEAN,
         bus[1].type = "changed", bus[1].name = x, bus[1].value = v,
         bus' = Tail(bus), PropertiesChanged(x, v), UNCHANGED <<known, graphical>>,
         NEW n \in Names, Catches(n)
  PROVE  Catches(n)'
<1> DEFINE told == {w \in watchers : watched[w].name = x}
<1>1. /\ watched' = [w \in DOMAIN watched |->
                       IF w \in told THEN [watched[w] EXCEPT !.value = v] ELSE watched[w]]
      /\ told # {} => CanGraphicalChanged(x, v, Cardinality(told))
      /\ told = {} => seats' = seats
      /\ UNCHANGED <<watchers, systemSeats, asking, listing>>
  BY DEF PropertiesChanged, seatVars
<1>2. watchers \subseteq DOMAIN watched /\ \A w \in watchers : watched[w] \in [name : Names, value : BOOLEAN]
  <2>1. watched \in Seq([name : Names, value : BOOLEAN]) /\ watchers \subseteq 1 .. Len(watched)
    BY DEF Pointers, WatchPointers
  <2> DEFINE R == [name : Names, value : BOOLEAN]
  <2> HIDE DEF R
  <2>2. watched \in Seq(R)
    BY <2>1 DEF R
  <2>3. DOMAIN watched = 1 .. Len(watched) /\ \A w \in 1 .. Len(watched) : watched[w] \in R
    BY <2>2
  <2> QED
    BY <2>1, <2>3 DEF R
<1>3. \A w \in watchers : /\ watched'[w].name = watched[w].name
                          /\ watched'[w].value = IF w \in told THEN v ELSE watched[w].value
  BY <1>1, <1>2
<1>4. told # {} => Cardinality(told) \in Nat \ {0}
  <2>1. IsFiniteSet(told)
    <3>1. PICK k \in Int : k = Len(watched) /\ told \subseteq 1 .. k
      <4> DEFINE R == [name : Names, value : BOOLEAN]
      <4>1. watched \in Seq(R) /\ told \subseteq 1 .. Len(watched)
        BY DEF Pointers, WatchPointers
      <4> HIDE DEF R, told
      <4> QED
        BY <4>1
    <3>2. IsFiniteSet(1 .. k)
      BY FS_Interval
    <3> QED
      BY <3>1, <3>2, FS_Subset
  <2> QED
    BY <2>1, FS_CardinalityType, FS_EmptySet
<1>5. bus \in Seq(Msg)
  BY DEF Pointers, BusTypes
<1>6. PICK t \in [0 .. Len(bus) -> View], a \in View, b \in View, c \in View :
           /\ Course(n, bus, t) /\ a = t[0] /\ c = t[1] /\ b = t[Len(bus)]
           /\ Begins(n, a) /\ Moves(n, bus[1], a, c) /\ Ends(n, b)
  BY <1>5, HeadMoves
<1>7. Ends(n, b)'
  BY <1>1, <1>3, <1>5, <1>6, EndsHandled
<1>8. ~Creates(n, bus[1]) /\ ~Removes(n, bus[1]) /\ ~Reply(bus[1], a)
  BY DEF Creates, Removes, Reply
<1>9. /\ told # {} => (seats'[x] = 0 <=> ~v)
      /\ n # x => seats'[n] = seats[n]
  BY <1>1, <1>4, SeatTold DEF Pointers
<1>10. Begins(n, c)'
  <2>1. CASE n = x
    <3>1. Tells(n, bus[1])
      BY <2>1 DEF Tells
    <3>2. AfterChange(a, c, Says(v))
      BY <1>6, <1>8, <3>1, Zenon DEF Moves
    <3>3. told # {}
      <4>1. systemSeats[n] # 0
        BY <1>6, <3>2 DEF AfterChange, Begins
      <4> QED
        BY <2>1, <4>1 DEF Pointers, WatchPointers
    <3>4. c.seat = IF seats'[n] = 0 THEN "dark" ELSE "lit"
      BY <1>9, <2>1, <3>2, <3>3 DEF AfterChange, Says
    <3>5. c.here = {w \in watchers' : watched'[w].name = n}
      BY <1>1, <1>3, <1>6, <3>2 DEF AfterChange, Begins
    <3>6. \A w \in c.here : c.val[w] = Says(watched'[w].value)
      <4> SUFFICES ASSUME NEW w \in c.here PROVE c.val[w] = Says(watched'[w].value)
        OBVIOUS
      <4>1. c.val[w] = Says(v)
        BY <3>2 DEF AfterChange
      <4>2. w \in watchers /\ watched'[w].name = x
        BY <1>1, <2>1, <3>5
      <4>3. w \in told
        BY <1>3, <4>2
      <4>4. watched'[w].value = v
        BY <1>3, <4>2, <4>3
      <4> QED
        BY <4>1, <4>4
    <3> QED
      BY <1>1, <1>6, <3>2, <3>4, <3>5, <3>6 DEF AfterChange, Begins, Says
  <2>2. CASE n # x
    <3>1. ~Tells(n, bus[1])
      BY <2>2 DEF Tells
    <3>2. Unmoved(a, c)
      BY <1>6, <1>8, <3>1, Zenon DEF Moves
    <3>3. a.here = {w \in watchers' : watched'[w].name = n}
      BY <1>1, <1>3, <1>6 DEF Begins
    <3>4. \A w \in a.here : a.val[w] = Says(watched'[w].value)
      BY <1>1, <1>3, <1>6, <2>2 DEF Begins
    <3> QED
      BY <1>1, <1>6, <1>9, <2>2, <3>2, <3>3, <3>4 DEF Unmoved, Agree, Begins, Says
  <2> QED
    BY <2>1, <2>2
<1> QED
  BY <1>5, <1>6, <1>7, <1>10, HandledCatches

LEMMA GotCatches ==
  ASSUME Pointers, bus # <<>>, bus[1].type = "got", bus[1].watcher \in 1 .. Len(watched),
         bus[1].value \in BOOLEAN, bus' = Tail(bus), Got(bus[1]), UNCHANGED <<known, graphical>>,
         NEW n \in Names, Catches(n)
  PROVE  Catches(n)'
<1>1. PICK w \in 1 .. Len(watched), v \in BOOLEAN : w = bus[1].watcher /\ v = bus[1].value
  OBVIOUS
<1>2. UNCHANGED <<watchers, systemSeats, asking, listing>>
  BY DEF Got
<1> DEFINE Taken == w \in watchers /\ bus[1].valid /\ v # watched[w].value
           x == watched[w].name
           R == [name : Names, value : BOOLEAN]
<1>3. \A y \in DOMAIN watched : watched[y] \in R
  <2>1. watched \in Seq(R)
    BY DEF Pointers, WatchPointers
  <2> HIDE DEF R
  <2> QED
    BY <2>1
<1>4. w \in DOMAIN watched /\ watchers \subseteq DOMAIN watched /\ x \in Names
  <2>1. DOMAIN watched = 1 .. Len(watched) /\ watchers \subseteq 1 .. Len(watched)
    BY DEF Pointers, WatchPointers
  <2> QED
    BY <1>1, <1>3, <2>1
<1>5. Taken => watched' = [watched EXCEPT ![w].value = v] /\ CanGraphicalChanged(x, v, 1)
  BY <1>1 DEF Got
<1>6. ~Taken => watched' = watched /\ seats' = seats
  BY <1>1 DEF Got, seatVars
<1>7. /\ \A y \in watchers : watched'[y].name = watched[y].name
      /\ \A y \in watchers : watched'[y].value = IF Taken /\ y = w THEN v ELSE watched[y].value
  BY <1>3, <1>4, <1>5, <1>6
<1>8. bus \in Seq(Msg)
  BY DEF Pointers, BusTypes
<1>9. PICK t \in [0 .. Len(bus) -> View], a \in View, b \in View, c \in View :
           /\ Course(n, bus, t) /\ a = t[0] /\ c = t[1] /\ b = t[Len(bus)]
           /\ Begins(n, a) /\ Moves(n, bus[1], a, c) /\ Ends(n, b)
  BY <1>8, HeadMoves
<1>10. Ends(n, b)'
  BY <1>2, <1>7, <1>8, <1>9, EndsHandled
<1>11. ~Creates(n, bus[1]) /\ ~Removes(n, bus[1]) /\ ~Tells(n, bus[1])
  BY DEF Creates, Removes, Tells
<1>12. Taken => (seats'[x] = 0 <=> ~v) /\ \A y \in Names \ {x} : seats'[y] = seats[y]
  <2> SUFFICES ASSUME Taken
               PROVE  (seats'[x] = 0 <=> ~v) /\ \A y \in Names \ {x} : seats'[y] = seats[y]
    OBVIOUS
  <2>1. CanGraphicalChanged(x, v, 1) /\ 1 \in Nat \ {0} /\ SeatPointers
    BY <1>5 DEF Pointers
  <2> HIDE DEF x, Taken
  <2> QED
    BY <1>4, <2>1, SeatTold
<1>13. a.here = {y \in watchers' : watched'[y].name = n}
  BY <1>2, <1>7, <1>9 DEF Begins
<1>14. CASE Reply(bus[1], a)
  <2>1. w \in watchers /\ bus[1].valid /\ x = n /\ w \in a.here
    BY <1>1, <1>9, <1>14 DEF Reply, Begins
  <2>2. AfterReply(a, c, w, Says(v))
    BY <1>1, <1>9, <1>11, <1>14, Zenon DEF Moves
  <2>3. CASE Taken
    <3>1. a.val[w] # Says(v)
      BY <1>1, <1>3, <1>4, <1>9, <2>1, <2>3 DEF Begins, Says
    <3>2. c.seat = IF seats'[n] = 0 THEN "dark" ELSE "lit"
      BY <1>1, <1>12, <2>1, <2>2, <2>3, <3>1 DEF AfterReply, Says
    <3>3. \A y \in a.here : c.val[y] = Says(watched'[y].value)
      BY <1>7, <1>9, <2>2, <2>3 DEF AfterReply, Begins
    <3> QED
      BY <1>2, <1>8, <1>9, <1>10, <1>13, <2>2, <3>2, <3>3, HandledCatches DEF AfterReply, Begins
  <2>4. CASE ~Taken
    <3>1. a.val[w] = Says(v)
      BY <1>1, <1>9, <2>1, <2>4 DEF Begins
    <3>2. Unmoved(a, c)
      BY <2>2, <3>1 DEF AfterReply, Unmoved, Agree
    <3>3. Begins(n, a)'
      BY <1>2, <1>6, <1>9, <2>4 DEF Begins
    <3>4. Begins(n, c)'
      BY <3>2, <3>3 DEF Begins, Unmoved, Agree
    <3> QED
      BY <1>8, <1>9, <1>10, <3>4, HandledCatches
  <2> QED
    BY <2>3, <2>4
<1>15. CASE ~Reply(bus[1], a)
  <2>1. Unmoved(a, c)
    BY <1>9, <1>11, <1>15, Zenon DEF Moves
  <2>2. Taken => x # n
    BY <1>1, <1>9, <1>15 DEF Reply, Begins
  <2>3. seats'[n] = seats[n]
    BY <1>6, <1>12, <2>2
  <2>4. \A y \in a.here : a.val[y] = Says(watched'[y].value)
    BY <1>7, <1>9, <2>2 DEF Begins
  <2>5. Begins(n, c)'
    BY <1>2, <1>9, <1>13, <2>1, <2>3, <2>4 DEF Begins, Unmoved, Agree
  <2> QED
    BY <1>8, <1>9, <1>10, <2>5, HandledCatches
<1> QED
  BY <1>14, <1>15

LEMMA ListDoneCatches ==
  ASSUME Pointers, bus # <<>>, bus[1].type = "list", bus[1].names = {}, listing # "asked",
         listing' = "done", bus' = Tail(bus),
         UNCHANGED <<known, graphical, asking, watchVars, seatVars>>, NEW n \in Names, Catches(n)
  PROVE  Catches(n)'
<1>1. bus \in Seq(Msg)
  BY DEF Pointers, BusTypes
<1>2. PICK t \in [0 .. Len(bus) -> View], a \in View, b \in View, c \in View :
           /\ Course(n, bus, t) /\ a = t[0] /\ c = t[1] /\ b = t[Len(bus)]
           /\ Begins(n, a) /\ Moves(n, bus[1], a, c) /\ Ends(n, b)
  BY <1>1, HeadMoves
<1>3. ~Creates(n, bus[1]) /\ ~Removes(n, bus[1]) /\ ~Tells(n, bus[1]) /\ ~Reply(bus[1], a)
  BY DEF Creates, Removes, Tells, Reply
<1>4. Unmoved(a, c)
  BY <1>2, <1>3, Zenon DEF Moves
<1>5. Begins(n, c)
  BY <1>2, <1>4, BeginsAgain
<1>6. Begins(n, c)'
  BY <1>5 DEF Begins, watchVars, seatVars
<1>7. Ends(n, b)'
  BY <1>2, EndsStay DEF Unheard, Ends
<1> QED
  BY <1>1, <1>2, <1>6, <1>7, HandledCatches

(* logindSeatAdded() to the seat itself and to another one.                *)
LEMMA AddedBegins ==
  ASSUME Pointers, NEW x \in Names, LogindSeatAdded(x), NEW n \in Names, NEW w, w = Len(watched) + 1
  PROVE  /\ w \in Watchers /\ w \in asking' /\ asking \subseteq asking'
         /\ watchers' = watchers \cup {w} /\ watched'[w].name = x
         /\ \A y \in watchers : watched'[y].name = watched[y].name
         /\ \A a : n # x /\ Begins(n, a) => Begins(n, a)'
         /\ \A a \in View, c \in View : n = x /\ Begins(n, a) /\ AfterCreation(a, c)
              => \E d \in View : Begins(n, d)' /\ Born(c, d, w)
<1> DEFINE R == [name : Names, value : BOOLEAN]
           r == [name |-> x, value |-> FALSE]
<1>1. r \in R /\ r.name = x /\ r.value = FALSE
  OBVIOUS
<1>2. watched \in Seq(R)
  BY DEF Pointers, WatchPointers
<1>3. /\ w <= MaxWatchers /\ watchers' = watchers \cup {w} /\ watched' = Append(watched, r)
      /\ systemSeats' = [systemSeats EXCEPT ![x] = w] /\ asking' = asking \cup {w}
      /\ seats' = seats
  BY DEF LogindSeatAdded, seatVars
<1> HIDE DEF R, r
<1>4. PICK k \in Nat : k = Len(watched) /\ w = k + 1
  BY <1>2
<1>5. watched'[w] = r /\ \A y \in 1 .. k : watched'[y] = watched[y]
  BY <1>1, <1>2, <1>3, <1>4
<1>6. watchers \subseteq 1 .. k /\ w \notin watchers
  BY <1>4 DEF Pointers, WatchPointers
<1>7. w \in Watchers
  BY <1>3, <1>4, SeatManagerAssumption DEF Watchers
<1>8. \A y \in watchers : watched'[y] = watched[y]
  BY <1>5, <1>6
<1>9. ASSUME NEW a, n # x, Begins(n, a) PROVE Begins(n, a)'
  <2>1. systemSeats'[n] = systemSeats[n]
    BY <1>3, <1>9 DEF Pointers, WatchPointers
  <2>2. a.here = {y \in watchers' : watched'[y].name = n}
    BY <1>1, <1>3, <1>5, <1>8, <1>9 DEF Begins
  <2>3. \A y \in a.here : a.val[y] = Says(watched'[y].value)
    BY <1>8, <1>9 DEF Begins
  <2> QED
    BY <1>3, <1>9, <2>1, <2>2, <2>3 DEF Begins
<1>10. ASSUME NEW a \in View, NEW c \in View, n = x, Begins(n, a), AfterCreation(a, c)
       PROVE  \E d \in View : Begins(n, d)' /\ Born(c, d, w)
  <2> DEFINE d == [seat |-> a.seat, on |-> w, unborn |-> {}, here |-> a.here \cup {w},
                   val |-> [y \in Watchers |-> IF y = w THEN "dark" ELSE a.val[y]]]
  <2>1. d \in View
    <3>1. a.seat \in Values /\ a.here \subseteq Watchers /\ a.val \in [Watchers -> Values]
      BY DEF View
    <3>2. "dark" \in Values /\ w \in Int
      BY <1>4 DEF Values
    <3>3. d.val \in [Watchers -> Values]
      BY <3>1, <3>2
    <3> QED
      BY <1>7, <3>1, <3>2, <3>3 DEF View
  <2>2. /\ d.seat = a.seat /\ d.on = w /\ d.unborn = {} /\ d.here = a.here \cup {w}
        /\ d.val[w] = "dark" /\ \A y \in a.here : y # w => d.val[y] = a.val[y]
    BY <1>7 DEF View
  <2> HIDE DEF d
  <2>3. w \notin a.here /\ a.unborn = {}
    BY <1>6, <1>10 DEF Begins
  <2>4. Begins(n, d)'
    <3>1. systemSeats'[n] = w
      BY <1>3, <1>10 DEF Pointers, WatchPointers
    <3>2. d.here = {y \in watchers' : watched'[y].name = n}
      BY <1>1, <1>3, <1>5, <1>8, <1>10, <2>2 DEF Begins
    <3>3. \A y \in d.here : d.val[y] = Says(watched'[y].value)
      BY <1>1, <1>5, <1>8, <1>10, <2>2, <2>3 DEF Begins, Says
    <3>4. d.seat = IF seats'[n] = 0 THEN "dark" ELSE "lit"
      BY <1>3, <1>10, <2>2 DEF Begins
    <3> QED
      BY <2>2, <3>1, <3>2, <3>3, <3>4 DEF Begins
  <2>5. Born(c, d, w)
    BY <1>10, <2>2, <2>3 DEF AfterCreation, Agree, Born
  <2> QED
    BY <2>1, <2>4, <2>5
<1>11. watched'[w].name = x /\ \A y \in watchers : watched'[y].name = watched[y].name
  BY <1>1, <1>5, <1>8
<1> QED
  BY <1>3, <1>7, <1>9, <1>10, <1>11

LEMMA EndsBorn ==
  ASSUME NEW n, NEW w, NEW a, NEW b, Born(a, b, w), Ends(n, a), ~Unheard(n), w # 0,
         UNCHANGED <<known, graphical>>, w \in asking', asking \subseteq asking'
  PROVE  Ends(n, b)'
<1>1. Truth(n)' = Truth(n)
  BY DEF Truth, Says
<1>2. CASE n \notin known
  BY <1>2 DEF Ends, Born
<1>3. CASE n \in known
  <2>1. a.on # 0 /\ b.on # 0 /\ b.seat = a.seat
    BY <1>3 DEF Ends, Born
  <2>2. Corrected(a) => Corrected(b)'
    BY DEF Corrected, Born
  <2> QED
    BY <1>1, <1>3, <2>1, <2>2 DEF Ends
<1> QED
  BY <1>2, <1>3

(* The LogindSeat that a message is about is made.                         *)
LEMMA CreatedCourse ==
  ASSUME Pointers, Wires, bus # <<>>, NEW n \in Names, Creates(n, bus[1]), LogindSeatAdded(n),
         Catches(n), UNCHANGED <<known, graphical>>
  PROVE  \E u \in [0 .. Len(bus) - 1 -> View], first \in View, last \in View :
           /\ Course(n, Tail(bus), u) /\ first = u[0] /\ last = u[Len(bus) - 1]
           /\ Begins(n, first)' /\ Ends(n, last)'
<1>1. bus \in Seq(Msg) /\ Tail(bus) \in Seq(Msg)
  BY DEF Pointers, BusTypes
<1>2. PICK t \in [0 .. Len(bus) -> View], a \in View, b \in View, c \in View :
           /\ Course(n, bus, t) /\ a = t[0] /\ c = t[1] /\ b = t[Len(bus)]
           /\ Begins(n, a) /\ Moves(n, bus[1], a, c) /\ Ends(n, b)
  BY <1>1, HeadMoves
<1>3. AfterCreation(a, c)
  BY <1>2, Zenon DEF Moves
<1>4. PICK w : w = Len(watched) + 1
  OBVIOUS
<1>5. /\ w \in Watchers /\ w # 0 /\ w \in asking' /\ asking \subseteq asking'
      /\ \E d \in View : Begins(n, d)' /\ Born(c, d, w)
  BY <1>2, <1>3, <1>4, AddedBegins, SeatManagerAssumption DEF Watchers
<1>6. PICK d \in View : Begins(n, d)' /\ Born(c, d, w)
  BY <1>5
<1>7. PICK k \in Nat \ {0} : k = Len(bus) /\ k - 1 = Len(Tail(bus))
  BY <1>1
<1>8. PICK s \in [0 .. k - 1 -> View] : Course(n, Tail(bus), s) /\ s[0] = c /\ s[k - 1] = b
  <2>1. PICK s \in [0 .. Len(bus) - 1 -> View] : Remaining(n, bus, t, s)
    BY <1>1, <1>2, CourseShifts
  <2>2. s[0] = t[0 + 1] /\ s[k - 1] = t[(k - 1) + 1]
    BY <1>7, <2>1 DEF Remaining
  <2> QED
    BY <1>2, <1>7, <2>1, <2>2 DEF Remaining
<1>9. \A i \in 1 .. k - 1 : Tail(bus)[i].type = "got" => Tail(bus)[i].watcher # w
  <2> SUFFICES ASSUME NEW i \in 1 .. k - 1, Tail(bus)[i].type = "got" PROVE Tail(bus)[i].watcher # w
    OBVIOUS
  <2>1. Tail(bus)[i] = bus[i + 1] /\ i + 1 \in 1 .. Len(bus)
    BY <1>1, <1>7
  <2>2. bus[i + 1].watcher \in 1 .. Len(watched)
    BY <2>1 DEF Wires
  <2>3. Len(watched) \in Nat
    <3> DEFINE R == [name : Names, value : BOOLEAN]
    <3>1. watched \in Seq(R)
      BY DEF Pointers, WatchPointers
    <3> HIDE DEF R
    <3> QED
      BY <3>1
  <2> QED
    BY <1>4, <2>1, <2>2, <2>3
<1>10. PICK u \in [0 .. k - 1 -> View] : /\ Course(n, Tail(bus), u) /\ u[0] = d
                                         /\ \A i \in 0 .. k - 1 : Born(s[i], u[i], w)
  BY <1>1, <1>5, <1>6, <1>7, <1>8, <1>9, BornCourse
<1>11. PICK e \in View : e = u[k - 1] /\ Born(b, e, w)
  BY <1>7, <1>8, <1>10
<1>12. ~Unheard(n)
  BY <1>7 DEF Unheard
<1>13. Ends(n, e)'
  BY <1>2, <1>5, <1>11, <1>12, EndsBorn
<1> QED
  BY <1>6, <1>7, <1>10, <1>11, <1>13

LEMMA NewCatches ==
  ASSUME Pointers, Wires, bus # <<>>, NEW x \in Names, bus[1].type = "new", bus[1].name = x,
         bus' = Tail(bus), LogindSeatAdded(x), UNCHANGED <<known, graphical>>,
         NEW n \in Names, Catches(n)
  PROVE  Catches(n)'
<1>1. bus \in Seq(Msg)
  BY DEF Pointers, BusTypes
<1>2. CASE n = x
  <2>1. Creates(n, bus[1])
    BY <1>2 DEF Creates
  <2>2. PICK u \in [0 .. Len(bus) - 1 -> View], first \in View, last \in View :
           /\ Course(n, Tail(bus), u) /\ first = u[0] /\ last = u[Len(bus) - 1]
           /\ Begins(n, first)' /\ Ends(n, last)'
    BY <1>2, <2>1, CreatedCourse
  <2>3. Len(bus') = Len(bus) - 1
    BY <1>1
  <2> QED
    BY <2>2, <2>3 DEF Catches
<1>3. CASE n # x
  <2>1. PICK t \in [0 .. Len(bus) -> View], a \in View, b \in View, c \in View :
           /\ Course(n, bus, t) /\ a = t[0] /\ c = t[1] /\ b = t[Len(bus)]
           /\ Begins(n, a) /\ Moves(n, bus[1], a, c) /\ Ends(n, b)
    BY <1>1, HeadMoves
  <2>2. ~Creates(n, bus[1]) /\ ~Removes(n, bus[1]) /\ ~Tells(n, bus[1]) /\ ~Reply(bus[1], a)
    BY <1>3 DEF Creates, Removes, Tells, Reply
  <2>3. Unmoved(a, c)
    BY <2>1, <2>2, Zenon DEF Moves
  <2>4. PICK w : w = Len(watched) + 1
    OBVIOUS
  <2>5. /\ asking \subseteq asking' /\ watchers' = watchers \cup {w} /\ watched'[w].name = x
        /\ \A y \in watchers : watched'[y].name = watched[y].name
        /\ Begins(n, a)' /\ listing' = listing
    BY <1>3, <2>1, <2>4, AddedBegins DEF LogindSeatAdded
  <2>6. Begins(n, c)'
    BY <2>3, <2>5 DEF Begins, Unmoved, Agree
  <2>7. \A i \in 1 .. Len(bus') : i + 1 \in 1 .. Len(bus) /\ bus'[i] = bus[i + 1]
    BY <1>1
  <2>8. Unheard(n) => Unheard(n)'
    BY <1>3, <2>5, <2>7 DEF Unheard
  <2>9. Ends(n, b)'
    BY <2>1, <2>5, <2>8, EndsStay DEF Ends
  <2> QED
    BY <1>1, <2>1, <2>6, <2>9, HandledCatches
<1> QED
  BY <1>2, <1>3

LEMMA PickedCatches ==
  ASSUME Pointers, Wires, bus # <<>>, bus[1].type = "list", NEW x \in bus[1].names, x \in Names,
         NEW m \in Msg, m.type = "list", m.names = bus[1].names \ {x}, bus' = [bus EXCEPT ![1] = m],
         LogindSeatAdded(x), UNCHANGED <<known, graphical>>, NEW n \in Names, Catches(n)
  PROVE  Catches(n)'
<1>1. bus \in Seq(Msg) /\ bus[1] \in Msg
  BY DEF Pointers, BusTypes
<1>2. PICK k \in Nat \ {0} : k = Len(bus) /\ DOMAIN bus = 1 .. k
  BY <1>1
<1>3. Len(bus') = k /\ bus'[1] = m /\ \A i \in 1 .. k : i # 1 => bus'[i] = bus[i]
  <2>1. DOMAIN bus' = 1 .. k
    BY <1>2
  <2>2. bus' \in Seq(Msg)
    BY <1>1
  <2>3. Len(bus') = k
    BY <1>2, <2>1, <2>2
  <2> QED
    BY <1>2, <2>3
<1>4. \A a : ~Removes(n, m) /\ ~Tells(n, m) /\ ~Reply(m, a)
  BY DEF Removes, Tells, Reply
<1>5. \A a : ~Removes(n, bus[1]) /\ ~Tells(n, bus[1]) /\ ~Reply(bus[1], a)
  BY DEF Removes, Tells, Reply
<1>6. CASE n = x
  <2>1. Creates(n, bus[1]) /\ ~Creates(n, m)
    BY <1>6 DEF Creates
  <2>2. PICK u \in [0 .. k - 1 -> View], first \in View, last \in View :
           /\ Course(n, Tail(bus), u) /\ first = u[0] /\ last = u[k - 1]
           /\ Begins(n, first)' /\ Ends(n, last)'
    BY <1>2, <1>6, <2>1, CreatedCourse
  <2>3. Unmoved(first, first)
    BY DEF Unmoved, Agree
  <2>4. Moves(n, m, first, first)
    BY <1>4, <2>1, <2>3, Zenon DEF Moves
  <2>5. PICK v \in [0 .. k -> View] : Course(n, bus', v) /\ v[0] = first /\ v[k] = last
    <3>1. u \in [0 .. Len(bus) - 1 -> View] /\ Moves(n, m, u[0], u[0])
      BY <1>2, <2>2, <2>4
    <3>2. PICK v \in [0 .. Len(bus) -> View] :
             /\ Course(n, [bus EXCEPT ![1] = m], v)
             /\ v[0] = u[0] /\ v[Len(bus)] = u[Len(bus) - 1]
      BY <1>1, <2>2, <3>1, CourseBehind
    <3> QED
      BY <1>2, <2>2, <3>2
  <2> QED
    BY <1>3, <2>2, <2>5 DEF Catches
<1>7. CASE n # x
  <2>1. PICK t \in [0 .. Len(bus) -> View], a \in View, b \in View, c \in View :
           /\ Course(n, bus, t) /\ a = t[0] /\ c = t[1] /\ b = t[Len(bus)]
           /\ Begins(n, a) /\ Moves(n, bus[1], a, c) /\ Ends(n, b)
    BY <1>1, HeadMoves
  <2>2. Creates(n, m) <=> Creates(n, bus[1])
    BY <1>7 DEF Creates
  <2>3. Moves(n, m, a, c)
    BY <1>4, <1>5, <2>1, <2>2, Zenon DEF Moves
  <2>4. Course(n, bus', t)
    <3>1. ASSUME NEW i \in 1 .. k PROVE Moves(n, bus'[i], t[i - 1], t[i])
      <4>1. CASE i = 1
        BY <1>3, <2>1, <2>3, <4>1
      <4>2. CASE i # 1
        BY <1>2, <1>3, <2>1, <4>2 DEF Course
      <4> QED
        BY <4>1, <4>2
    <3> QED
      BY <1>2, <1>3, <2>1, <3>1 DEF Course
  <2>5. PICK w : w = Len(watched) + 1
    OBVIOUS
  <2>6. /\ asking \subseteq asking' /\ watchers' = watchers \cup {w} /\ watched'[w].name = x
        /\ \A y \in watchers : watched'[y].name = watched[y].name
        /\ Begins(n, a)' /\ listing' = listing
    BY <1>7, <2>1, <2>5, AddedBegins DEF LogindSeatAdded
  <2>7. \A i \in 1 .. Len(bus') : Creates(n, bus'[i]) => Creates(n, bus[i]) /\ i \in 1 .. Len(bus)
    BY <1>2, <1>3, <2>2
  <2>8. Unheard(n) => Unheard(n)'
    BY <1>7, <2>6, <2>7 DEF Unheard
  <2>9. Ends(n, b)'
    BY <2>1, <2>6, <2>8, EndsStay DEF Ends
  <2> QED
    BY <1>2, <1>3, <2>1, <2>4, <2>6, <2>9 DEF Catches
<1> QED
  BY <1>6, <1>7

LEMMA HandleMessageCatches ==
  ASSUME Pointers, Wires, HandleMessage, NEW n \in Names, Catches(n)
  PROVE  Catches(n)'
<1>1. bus # <<>> /\ bus \in Seq(Msg) /\ UNCHANGED <<known, graphical, subscribed>>
  BY DEF HandleMessage, logindVars, Pointers, BusTypes
<1>2. bus[1] \in Msg /\ Head(bus) = bus[1] /\ 1 \in 1 .. Len(bus)
  BY <1>1
<1>3. CASE bus[1].type = "list"
  <2>1. Listed(bus[1])
    BY <1>2, <1>3 DEF HandleMessage
  <2>2. CASE bus[1].names = {}
    <3>1. listing # "asked"
      BY <1>2, <1>3 DEF Wires
    <3> QED
      BY <1>1, <1>3, <2>1, <2>2, <3>1, ListDoneCatches DEF Listed
  <2>3. CASE bus[1].names # {}
    <3>1. PICK x \in bus[1].names : LogindSeatAdded(x) /\ bus' = [bus EXCEPT ![1].names = @ \ {x}]
      BY <2>1, <2>3 DEF Listed
    <3>2. x \in Names
      BY <1>2, <1>3 DEF Msg
    <3>3. PICK m : m = [bus[1] EXCEPT !.names = @ \ {x}]
      OBVIOUS
    <3>4. m \in Msg /\ m.type = "list" /\ m.names = bus[1].names \ {x}
      BY <1>2, <1>3, <3>3 DEF Msg
    <3>5. bus' = [bus EXCEPT ![1] = m]
      BY <3>1, <3>3
    <3> QED
      BY <1>1, <1>3, <3>1, <3>2, <3>4, <3>5, PickedCatches
  <2> QED
    BY <2>2, <2>3
<1>4. CASE bus[1].type # "list"
  <2>1. /\ bus' = Tail(bus)
        /\ CASE bus[1].type = "new"     -> LogindSeatAdded(bus[1].name)
             [] bus[1].type = "removed" -> LogindSeatRemoved(bus[1].name)
             [] bus[1].type = "changed" -> PropertiesChanged(bus[1].name, bus[1].value)
             [] OTHER -> Got(bus[1])
    BY <1>2, <1>4 DEF HandleMessage
  <2>2. CASE bus[1].type = "new"
    <3>1. bus[1].name \in Names
      BY <1>2, <2>2 DEF Msg
    <3> QED
      BY <1>1, <2>1, <2>2, <3>1, NewCatches
  <2>3. CASE bus[1].type = "removed"
    <3>1. bus[1].name \in Names
      BY <1>2, <2>3 DEF Msg
    <3> QED
      BY <1>1, <2>1, <2>3, <3>1, RemovedCatches
  <2>4. CASE bus[1].type = "changed"
    <3>1. bus[1].name \in Names /\ bus[1].value \in BOOLEAN
      BY <1>2, <2>4 DEF Msg
    <3> QED
      BY <1>1, <2>1, <2>4, <3>1, ChangedCatches
  <2>5. CASE bus[1].type \notin {"new", "removed", "changed"}
    <3>1. bus[1].type = "got" /\ bus[1].value \in BOOLEAN
      BY <1>2, <1>4, <2>5 DEF Msg
    <3>2. bus[1].watcher \in 1 .. Len(watched)
      BY <1>2, <3>1 DEF Wires
    <3> QED
      BY <1>1, <2>1, <2>5, <3>1, <3>2, GotCatches
  <2> QED
    BY <2>2, <2>3, <2>4, <2>5
<1> QED
  BY <1>3, <1>4
-----------------------------------------------------------------------------
LEMMA HandleMessageWires ==
  ASSUME Pointers, Wires, HandleMessage, Pointers'
  PROVE  Wires'
<1> DEFINE R == [name : Names, value : BOOLEAN]
<1>1. /\ bus # <<>> /\ bus \in Seq(Msg) /\ bus[1] = Head(bus) /\ bus[1] \in Msg /\ 1 \in 1 .. Len(bus)
      /\ subscribed' = subscribed
  <2>1. bus # <<>> /\ bus \in Seq(Msg) /\ subscribed' = subscribed
    BY DEF HandleMessage, Pointers, BusTypes
  <2> QED
    BY <2>1
<1>2. watched \in Seq(R) /\ watched' \in Seq(R)
  BY DEF Pointers, WatchPointers
<1>3. DOMAIN watched \subseteq DOMAIN watched'
  <2>1. ASSUME NEW n, LogindSeatAdded(n) PROVE DOMAIN watched \subseteq DOMAIN watched'
    <3>1. PICK r : watched' = Append(watched, r)
      BY <2>1 DEF LogindSeatAdded
    <3> HIDE DEF R
    <3> QED
      BY <1>2, <3>1
  <2>2. ASSUME NEW m, Got(m) PROVE DOMAIN watched \subseteq DOMAIN watched'
    BY <2>2 DEF Got
  <2>3. ASSUME NEW n, NEW v, PropertiesChanged(n, v) PROVE DOMAIN watched \subseteq DOMAIN watched'
    BY <2>3 DEF PropertiesChanged
  <2>4. ASSUME NEW n, LogindSeatRemoved(n) PROVE DOMAIN watched \subseteq DOMAIN watched'
    BY <2>4 DEF LogindSeatRemoved
  <2>5. CASE bus[1].type = "list"
    BY <1>1, <2>1, <2>5 DEF HandleMessage, Listed, watchVars
  <2>6. CASE bus[1].type # "list"
    <3>1. \/ \E n : LogindSeatAdded(n) \/ LogindSeatRemoved(n) \/ \E v : PropertiesChanged(n, v)
          \/ Got(bus[1])
      BY <1>1, <2>6 DEF HandleMessage
    <3> QED
      BY <2>1, <2>2, <2>3, <2>4, <3>1
  <2> QED
    BY <2>5, <2>6
<1>4. 1 .. Len(watched) \subseteq 1 .. Len(watched')
  <2> HIDE DEF R
  <2> QED
    BY <1>2, <1>3
<1>5. listing' = "done" \/ listing' = listing
  BY <1>1 DEF HandleMessage, Listed, LogindSeatAdded, LogindSeatRemoved, PropertiesChanged, Got
<1>6. subscribed
  BY <1>1 DEF Wires
<1>7. CASE bus' = Tail(bus)
  <2>1. \A i \in 1 .. Len(bus') : i + 1 \in 1 .. Len(bus) /\ bus'[i] = bus[i + 1]
    BY <1>1, <1>7
  <2> QED
    BY <1>1, <1>4, <1>5, <1>6, <2>1 DEF Wires
<1>8. CASE bus' # Tail(bus)
  <2>1. bus[1].type = "list" /\ Listed(bus[1])
    BY <1>1, <1>8 DEF HandleMessage
  <2>2. PICK x : bus' = [bus EXCEPT ![1].names = @ \ {x}] /\ listing' = listing
    BY <1>8, <2>1 DEF Listed, LogindSeatAdded
  <2>3. PICK m : m = [bus[1] EXCEPT !.names = @ \ {x}]
    OBVIOUS
  <2>4. m.type = "list"
    BY <1>1, <2>1, <2>3 DEF Msg
  <2>5. PICK b : b = bus' /\ b = [bus EXCEPT ![1] = m]
    BY <2>2, <2>3
  <2>6. DOMAIN b = DOMAIN bus /\ Len(b) = Len(bus)
    BY <1>1, <2>5 DEF Pointers, BusTypes
  <2>7. \A i \in 1 .. Len(b) : (i = 1 /\ b[i] = m) \/ b[i] = bus[i]
    BY <1>1, <2>5, <2>6
  <2> QED
    BY <1>1, <1>4, <1>6, <2>1, <2>2, <2>4, <2>5, <2>6, <2>7 DEF Wires
<1> QED
  BY <1>7, <1>8

LEMMA NextWires ==
  ASSUME MatchesInTime, Pointers, Wires, [Next]_vars, Pointers'
  PROVE  Wires'
<1>1. bus \in Seq(Msg)
  BY DEF Pointers, BusTypes
<1>2. ASSUME NEW m, bus' = Append(bus, m), subscribed, subscribed' = subscribed,
             m.type = "list" => listing' # "asked", m.type = "got" => m.watcher \in 1 .. Len(watched),
             listing' = listing \/ listing' = "answered", UNCHANGED watched
      PROVE  Wires'
  <2>1. \A i \in 1 .. Len(bus') : bus'[i] = m \/ (i \in 1 .. Len(bus) /\ bus'[i] = bus[i])
    BY <1>1, <1>2
  <2> QED
    BY <1>2, <2>1 DEF Wires
<1>3. ASSUME UNCHANGED <<bus, listing, watchers, watched, seats, asking>>,
             subscribed' = subscribed \/ subscribed'
      PROVE  Wires'
  BY <1>3 DEF Wires
<1>4. ASSUME NEW n \in Names, SeatAppears(n) PROVE Wires'
  BY <1>2, <1>3, <1>4 DEF SeatAppears, Signal, watchVars, seatVars
<1>5. ASSUME NEW n \in Names, SeatVanishes(n) PROVE Wires'
  BY <1>2, <1>3, <1>5 DEF SeatVanishes, Signal, Removal, watchVars, seatVars
<1>6. ASSUME NEW n \in Names, DevicesChange(n) PROVE Wires'
  <2>1. UNCHANGED <<listing, subscribed, asking, watchers, watched, seats>>
    BY <1>6 DEF DevicesChange, watchVars, seatVars
  <2>2. CASE Watching(n)
    <3>1. subscribed
      BY <2>2 DEF Watching, Wires
    <3>2. PICK m : m.type = "changed" /\ bus' = Append(bus, m)
      BY <1>6, <2>2 DEF DevicesChange, Signal
    <3> QED
      BY <1>2, <2>1, <3>1, <3>2
  <2>3. CASE ~Watching(n)
    BY <1>3, <1>6, <2>1, <2>3 DEF DevicesChange, Signal
  <2> QED
    BY <2>2, <2>3
<1>7. CASE AnswerListSeats
  BY <1>2, <1>7 DEF AnswerListSeats, watchVars
<1>8. ASSUME NEW w \in Watchers, AnswerGet(w) PROVE Wires'
  <2>1. w \in 1 .. Len(watched) /\ subscribed
    BY <1>8 DEF AnswerGet, Wires, Pointers, WatchPointers
  <2>2. PICK m : m.type = "got" /\ m.watcher = w /\ bus' = Append(bus, m)
    BY <1>8 DEF AnswerGet
  <2> QED
    BY <1>2, <1>8, <2>1, <2>2 DEF AnswerGet, watchVars
<1>9. CASE Subscribe
  BY <1>3, <1>9 DEF Subscribe, watchVars, seatVars
<1>10. CASE HandleMessage
  BY <1>10, HandleMessageWires
<1>11. CASE UNCHANGED vars
  BY <1>3, <1>11 DEF vars, busVars, watchVars, seatVars
<1> QED
  BY <1>4, <1>5, <1>6, <1>7, <1>8, <1>9, <1>10, <1>11 DEF Next, Logind

LEMMA NextCatches ==
  ASSUME MatchesInTime, CatchesUp, [Next]_vars
  PROVE  CatchesUp'
<1>1. Pointers' /\ Wires'
  BY NextPoints, NextWires DEF CatchesUp
<1>2. ASSUME NEW n \in Names PROVE Catches(n)'
  <2>1. CASE \E x \in Names : SeatAppears(x) \/ SeatVanishes(x) \/ DevicesChange(x)
    BY <2>1, AppearCatches, VanishCatches, DevicesCatches
  <2>2. CASE AnswerListSeats
    BY <2>2, AnswerListCatches
  <2>3. CASE \E w \in Watchers : AnswerGet(w)
    BY <2>3, AnswerGetCatches
  <2>4. CASE Subscribe
    BY <2>4, IdleCatches DEF Subscribe, logindVars
  <2>5. CASE HandleMessage
    BY <2>5, HandleMessageCatches DEF CatchesUp
  <2>6. CASE UNCHANGED vars
    BY <2>6, IdleCatches DEF vars, logindVars, busVars
  <2> QED
    BY <2>1, <2>2, <2>3, <2>4, <2>5, <2>6 DEF Next, Logind
<1> QED
  BY <1>1, <1>2 DEF CatchesUp

LEMMA InitCatches == Init => CatchesUp
<1> SUFFICES ASSUME Init PROVE CatchesUp
  OBVIOUS
<1>1. Pointers
  BY SeatManagerAssumption DEF Init, Pointers, SeatPointers, WatchPointers, BusTypes
<1>2. Wires
  BY DEF Init, Wires
<1>3. ASSUME NEW n \in Names PROVE Catches(n)
  <2> DEFINE a == [seat |-> "dark", on |-> 0, unborn |-> {}, here |-> {},
                   val |-> [w \in Watchers |-> "dark"]]
             t == [i \in 0 .. 0 |-> a]
  <2>1. a \in View
    BY DEF View, Values
  <2>2. a.seat = "dark" /\ a.on = 0 /\ a.unborn = {} /\ a.here = {}
    OBVIOUS
  <2> HIDE DEF a
  <2>3. t \in [0 .. 0 -> View] /\ t[0] = a /\ Len(bus) = 0 /\ \A i \in 0 .. 0 : t[i] = a
    BY <2>1 DEF Init
  <2> HIDE DEF t
  <2>4. Backed(a)
    BY <2>2 DEF Backed
  <2>5. Course(n, bus, t)
    BY <2>3, <2>4 DEF Course
  <2>6. Begins(n, a)
    BY <2>2 DEF Begins, Init
  <2>7. Ends(n, a)
    BY <2>2, <2>3 DEF Ends, Unheard, Init
  <2> QED
    BY <2>1, <2>3, <2>5, <2>6, <2>7 DEF Catches
<1> QED
  BY <1>1, <1>2, <1>3 DEF CatchesUp

(* SeatsFollowLogind: whatever crossed on the bus, and however often seats *)
(* came back before the daemon knew that they had gone, once the matches   *)
(* are in place in time; without that, as long as the daemon keeps up.     *)
THEOREM FollowsLogind ==
  ASSUME DaemonKeepsUp \/ MatchesInTime
  PROVE  Spec => []SeatsFollowLogind
<1>1. CatchesUp => SeatsFollowLogind
  <2> SUFFICES ASSUME CatchesUp, Settled, NEW n \in Names
               PROVE  seats[n] # 0 <=> n \in graphical
    BY DEF SeatsFollowLogind
  <2>1. PICK t \in [0 .. Len(bus) -> View], first \in View, last \in View :
           Course(n, bus, t) /\ first = t[0] /\ last = t[Len(bus)] /\ Begins(n, first) /\ Ends(n, last)
    BY DEF CatchesUp, Catches
  <2>2. Len(bus) = 0 /\ first = last /\ asking = {} /\ listing # "asked"
    BY <2>1 DEF Settled
  <2>3. ~Corrected(last) /\ ~Unheard(n)
    BY <2>1, <2>2 DEF Corrected, Unheard, Begins
  <2>4. n \in known => last.seat = Truth(n)
    BY <2>1, <2>3 DEF Ends
  <2>5. n \notin known => last.seat = "dark" /\ n \notin graphical
    BY <2>1 DEF Ends, CatchesUp, Pointers, BusTypes
  <2> QED
    BY <2>1, <2>2, <2>4, <2>5 DEF Begins, Truth, Says
<1>2. IInv => SeatsFollowLogind
  <2> SUFFICES ASSUME IInv, Settled, NEW n \in Names
               PROVE  seats[n] # 0 <=> n \in graphical
    BY DEF SeatsFollowLogind
  <2>1. PICK t \in [0 .. Len(bus) -> States] : Timeline(n, t)
    BY DEF IInv, Follows
  <2>2. Len(bus) = 0 /\ asking = {} /\ listing # "asked" /\ ~Coming(n)
    BY DEF Settled, Coming
  <2>3. t[0] = Now(n) /\ Now(n) \in States
    BY <2>1, <2>2 DEF Timeline
  <2>4. (Now(n) # "none" <=> n \in known) /\ (Now(n) = "lit" => n \in graphical)
    BY <2>1, <2>2, <2>3 DEF Timeline
  <2>5. ~(Now(n) = "dark" /\ n \in graphical)
    BY <2>1, <2>2, <2>3 DEF Timeline
  <2>6. (seats[n] # 0 <=> Now(n) = "lit") /\ graphical \subseteq known
    BY DEF IInv, Agreement, Channel
  <2> QED
    BY <2>3, <2>4, <2>5, <2>6 DEF States
<1>3. MatchesInTime => (Spec => []SeatsFollowLogind)
  <2> SUFFICES ASSUME MatchesInTime PROVE Spec => []SeatsFollowLogind
    OBVIOUS
  <2> QED
    BY <1>1, InitCatches, NextCatches, PTL DEF Spec
<1>4. DaemonKeepsUp => (Spec => []SeatsFollowLogind)
  <2> SUFFICES ASSUME DaemonKeepsUp PROVE Spec => []SeatsFollowLogind
    OBVIOUS
  <2> QED
    BY <1>2, Invariant, PTL
<1> QED
  BY <1>3, <1>4

================================================================================
