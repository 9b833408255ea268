------------------------------- MODULE SeatProofs -------------------------------
(***************************************************************************)
(* What holds of a seat for any number of displays and terminals, however  *)
(* often a start is tried and whoever switches to the greeter.             *)
(***************************************************************************)
EXTENDS Seat, FiniteSetTheorems, Induction

(* removeAll() takes out what it is told to and keeps the rest as it was.  *)
LEMMA WithoutRemoves ==
  ASSUME NEW S, NEW l \in Seq(S), NEW d, Distinct(l)
  PROVE  /\ Without(l, d) \in Seq(S) /\ Distinct(Without(l, d))
         /\ Len(Without(l, d)) <= Len(l)
         /\ \A e \in S : Holds(Without(l, d), e) <=> e # d /\ Holds(l, e)
<1> DEFINE n == Len(l)
           step == [p \in (1 .. n) \X Seq(S) |->
                      IF l[p[1]] = d THEN p[2] ELSE Append(p[2], l[p[1]])]
           Is(k) == k = [i \in 0 .. Len(l) |->
                           IF i = 0 THEN <<>>
                           ELSE IF l[i] = d THEN k[i - 1] ELSE Append(k[i - 1], l[i])]
           kept == CHOOSE k : Is(k)
<1>1. n \in Nat /\ \A i \in 1 .. n : l[i] \in S
  OBVIOUS
<1>2. \E k : Is(k)
  <2>1. step \in [(1 .. n) \X Seq(S) -> Seq(S)]
    BY <1>1
  <2>2. \A i \in 1 .. n, s \in Seq(S) :
          step[<<i, s>>] = IF l[i] = d THEN s ELSE Append(s, l[i])
    OBVIOUS
  <2>3. <<>> \in Seq(S)
    OBVIOUS
  <2> HIDE DEF step
  <2>4. PICK k : /\ k \in [0 .. n -> Seq(S)] /\ k[0] = <<>>
                 /\ \A i \in 1 .. n : k[i] = step[<<i, k[i - 1]>>]
    <3> DEFINE X == Seq(S)
               none == <<>>
    <3>1. n \in Nat
      BY <1>1
    <3>2. none \in X
      BY <2>3
    <3>3. step \in [(1 .. n) \X X -> X]
      BY <2>1
    <3> HIDE DEF n, X, none
    <3>4. PICK k \in [0 .. n -> X] : Steps(k, n, none, step)
      BY <3>1, <3>2, <3>3, Recursion
    <3> QED
      BY <3>4, Zenon DEF X, none, Steps
  <2>5. ASSUME NEW i \in 1 .. n PROVE k[i] = IF l[i] = d THEN k[i - 1] ELSE Append(k[i - 1], l[i])
    <3>1. i - 1 \in 0 .. n
      BY <1>1
    <3> QED
      BY <2>2, <2>4, <3>1
  <2>6. ASSUME NEW i \in 0 .. n PROVE k[i] = IF i = 0 THEN <<>>
                               ELSE IF l[i] = d THEN k[i - 1] ELSE Append(k[i - 1], l[i])
    <3> HIDE DEF n
    <3>1. i = 0 \/ i \in 1 .. n
      BY <1>1
    <3> QED
      BY <2>4, <2>5, <3>1
  <2>7. Is(k)
    BY <2>4, <2>6, Zenon
  <2> QED
    BY <2>7
<1>3. Is(kept)
  <2> HIDE DEF Is
  <2> QED
    BY <1>2
<1>4. Without(l, d) = kept[n]
  BY Zenon DEF Without
<1>5. /\ kept[0] = <<>>
      /\ \A i \in 1 .. n : kept[i] = IF l[i] = d THEN kept[i - 1] ELSE Append(kept[i - 1], l[i])
  <2> HIDE DEF kept
  <2>1. \A i \in 0 .. n : kept[i] = IF i = 0 THEN <<>>
                                  ELSE IF l[i] = d THEN kept[i - 1] ELSE Append(kept[i - 1], l[i])
    BY <1>3, Zenon
  <2> QED
    BY <1>1, <2>1
<1> HIDE DEF kept
<1> DEFINE Good(i) == /\ kept[i] \in Seq(S) /\ Distinct(kept[i]) /\ Len(kept[i]) <= i
                      /\ \A e \in S : Holds(kept[i], e) <=> e # d /\ \E j \in 1 .. i : l[j] = e
           G == {i \in 0 .. n : Good(i)}
<1>6. 0 \in G
  <2>1. kept[0] \in Seq(S) /\ Len(kept[0]) = 0
    BY <1>5
  <2>2. \A e \in S : ~Holds(kept[0], e) /\ ~\E j \in 1 .. 0 : l[j] = e
    BY <2>1 DEF Holds
  <2>3. Good(0)
    BY <2>1, <2>2 DEF Distinct
  <2> QED
    BY <1>1, <2>3
<1>7. ASSUME NEW i \in 1 .. n, i - 1 \in G PROVE i \in G
  <2>1. Good(i - 1)
    BY <1>7
  <2>2. CASE l[i] = d
    <3>1. kept[i] = kept[i - 1]
      BY <1>5, <2>2
    <3>2. \A e \in S : e # d => ((\E j \in 1 .. i : l[j] = e) <=> (\E j \in 1 .. i - 1 : l[j] = e))
      BY <1>1, <2>2
    <3> QED
      BY <1>1, <2>1, <3>1, <3>2
  <2>3. CASE l[i] # d
    <3> DEFINE s == kept[i - 1]
    <3>1. kept[i] = Append(s, l[i]) /\ l[i] \in S
      BY <1>1, <1>5, <2>3
    <3>2. s \in Seq(S) /\ Distinct(s) /\ Len(s) <= i - 1 /\ ~Holds(s, l[i])
      BY <1>1, <2>1, <3>1 DEF Distinct
    <3> HIDE DEF s
    <3>3. /\ kept[i] \in Seq(S) /\ Len(kept[i]) = Len(s) + 1
          /\ \A j \in 1 .. Len(s) : kept[i][j] = s[j]
          /\ kept[i][Len(s) + 1] = l[i]
      BY <3>1, <3>2
    <3>4. Distinct(kept[i])
      BY <3>2, <3>3 DEF Distinct, Holds
    <3>5. \A e \in S : Holds(kept[i], e) <=> Holds(s, e) \/ e = l[i]
      BY <3>2, <3>3 DEF Holds
    <3>6. \A e \in S : (\E j \in 1 .. i : l[j] = e) <=> (\E j \in 1 .. i - 1 : l[j] = e) \/ e = l[i]
      BY <1>1
    <3>7. \A e \in S : Holds(s, e) <=> e # d /\ \E j \in 1 .. i - 1 : l[j] = e
      BY <2>1 DEF s
    <3> QED
      BY <1>1, <2>3, <3>2, <3>3, <3>4, <3>5, <3>6, <3>7
  <2> QED
    BY <2>2, <2>3
<1>8. n \in G
  <2>1. \A i \in 0 .. n : i \in G
    <3> HIDE DEF G, n
    <3> QED
      BY <1>1, <1>6, <1>7, BoundedInduction
  <2> QED
    BY <1>1, <2>1
<1> QED
  BY <1>1, <1>4, <1>8 DEF Holds

-----------------------------------------------------------------------------
(* The inductive invariant.  Displays are created in the order of their    *)
(* numbers, so that the next one is new.                                   *)
Births == \E k \in 0 .. MaxDisplays : Unborn = (k + 1) .. MaxDisplays

(* The list has each display that is wanted and the one whose stopped() is *)
(* on its way, once.                                                       *)
Listed == Distinct(displays)
          /\ \A d \in Ids : Holds(displays, d) <=> phase[d] \in Wanted \cup {"stopped"}

(* Only the display that emits stopped() may be stopped.                   *)
Emitting ==
  /\ \A d \in Ids : phase[d] = "stopped" => emitting.display = d /\ emitting.left > 0
  /\ emitting.left > 0 => /\ emitting.display \in Ids
                          /\ phase[emitting.display] \in {"stopped", "doomed"}

(* A display that runs has a terminal, and a second one for its session.   *)
Terminals ==
  /\ \A d \in Ids : phase[d] \in Started => vt[d] # 0
  /\ \A d \in Ids : phase[d] \in {"autologin", "session", "reused"} => sessionVt[d] # 0
  /\ \A d \in greeting : phase[d] \in {"greeter", "session", "reused"}

(* Who logged in first did it with the token.                              *)
FirstLogin == firstLogins = {} \/ (token /\ \E x \in Ids : firstLogins = {x})

IInv == /\ TypeOK /\ Births /\ Listed /\ Emitting /\ Terminals
        /\ FirstLogin /\ SeatIsServed /\ OneSuccessor

-----------------------------------------------------------------------------
LEMMA IdsAreNumbers == Ids \subseteq Nat \ {0} /\ MaxDisplays \in Nat \ {0} /\ 1 \in Ids
BY SeatAssumption DEF Ids

(* The number of the next display is that of none there is or was.         *)
LEMMA NextIsUnborn ==
  ASSUME Births, Unborn # {}
  PROVE  NewDisplay \in Ids /\ Unborn = NewDisplay .. MaxDisplays
<1>1. PICK k \in 0 .. MaxDisplays : Unborn = (k + 1) .. MaxDisplays
  BY DEF Births
<1>2. k < MaxDisplays
  BY <1>1, IdsAreNumbers
<1>3. Cardinality(Unborn) = MaxDisplays - k
  <2>1. Cardinality((k + 1) .. MaxDisplays) = MaxDisplays - (k + 1) + 1
    BY <1>2, IdsAreNumbers, FS_Interval
  <2> QED
    BY <1>1, <1>2, <2>1, IdsAreNumbers
<1> QED
  BY <1>1, <1>2, <1>3, IdsAreNumbers DEF NewDisplay, Ids

LEMMA SameUnborn ==
  ASSUME Births, \A d \in Ids : phase'[d] = "unborn" <=> phase[d] = "unborn"
  PROVE  Births'
<1>1. Unborn' = Unborn
  BY DEF Unborn
<1> QED
  BY <1>1 DEF Births

(* What the list has stays what it has while nothing leaves it or its      *)
(* phases.                                                                 *)
LEMMA SameListed ==
  ASSUME Listed, displays' = displays,
         \A d \in Ids : phase'[d] \in Wanted \cup {"stopped"} <=> phase[d] \in Wanted \cup {"stopped"}
  PROVE  Listed'
BY DEF Listed, Distinct, Holds

(* One display is taken out of the list and gets a phase it may have then. *)
LEMMA TakenOut ==
  ASSUME TypeOK, Listed, NEW d \in Ids, NEW l, l = Without(displays, d),
         NEW ph, ph = [phase EXCEPT ![d] = "doomed"]
  PROVE  /\ l \in Seq(Ids) /\ Distinct(l) /\ Len(l) <= Len(displays)
         /\ \A e \in Ids : Holds(l, e) <=> ph[e] \in Wanted \cup {"stopped"}
<1>1. displays \in Seq(Ids) /\ Distinct(displays)
  BY DEF TypeOK, Listed
<1>2. /\ l \in Seq(Ids) /\ Distinct(l) /\ Len(l) <= Len(displays)
      /\ \A e \in Ids : Holds(l, e) <=> e # d /\ Holds(displays, e)
  BY <1>1, WithoutRemoves
<1>3. \A e \in Ids : ph[e] = IF e = d THEN "doomed" ELSE phase[e]
  BY DEF TypeOK
<1> QED
  BY <1>2, <1>3 DEF Listed, Wanted, Started

(* A new display joins a list that is in order.                            *)
LEMMA Joined ==
  ASSUME TypeOK, Births, FirstLogin,
         NEW l \in Seq(Ids), NEW ph \in [Ids -> Phase], Distinct(l),
         \A e \in Ids : Holds(l, e) <=> ph[e] \in Wanted \cup {"stopped"},
         \A e \in Ids : ph[e] = "unborn" <=> phase[e] = "unborn",
         CreateDisplay(l, ph)
  PROVE  LET d == NewDisplay IN
         /\ d \in Ids /\ phase[d] = "unborn"
         /\ displays' \in Seq(Ids) /\ Len(displays') = Len(l) + 1
         /\ phase' \in [Ids -> Phase] /\ tries' \in [Ids -> 0 .. 2]
         /\ auto' \subseteq Ids /\ firstLogins' \subseteq Ids /\ token' \in BOOLEAN
         /\ vt' \in [Ids -> Vts \cup {0}] /\ sessionVt' \in [Ids -> Vts \cup {0}]
         /\ \A e \in Ids \ {d} : phase'[e] = ph[e] /\ vt'[e] = vt[e] /\ sessionVt'[e] = sessionVt[e]
         /\ phase'[d] \in {"retrying", "autologin", "starting"}
         /\ phase'[d] # "retrying" => vt'[d] # 0
         /\ phase'[d] = "autologin" => sessionVt'[d] # 0
         /\ Births' /\ Listed' /\ FirstLogin'
<1> DEFINE d == NewDisplay
<1>1. d \in Ids /\ Unborn = d .. MaxDisplays /\ d \in Unborn /\ phase[d] = "unborn"
  <2>1. d \in Ids /\ Unborn = d .. MaxDisplays
    BY NextIsUnborn DEF CreateDisplay
  <2> QED
    BY <2>1, IdsAreNumbers DEF Unborn, Ids
<1>2. displays' = Append(l, d)
  BY DEF CreateDisplay
<1>3. PICK v \in AvailableVt, relogin \in BOOLEAN, user \in BOOLEAN :
       LET first  == ~relogin /\ ~token /\ FirstBoot
           isAuto == user /\ (relogin \/ first)
       IN
       /\ TryLockFirstLogin(relogin)
       /\ firstLogins' = IF isAuto /\ ~relogin THEN firstLogins \cup {d} ELSE firstLogins
       /\ auto' = IF isAuto THEN auto \cup {d} ELSE auto
       /\ vt' = [vt EXCEPT ![d] = v]
       /\ tries' = [tries EXCEPT ![d] = 1]
       /\ phase' = [ph EXCEPT ![d] = AfterStart(v, isAuto)]
       /\ sessionVt' = [sessionVt EXCEPT ![d] = IF isAuto THEN v ELSE 0]
  BY Zenon DEF CreateDisplay
<1> DEFINE isAuto == user /\ (relogin \/ (~relogin /\ ~token /\ FirstBoot))
<1>4. /\ TryLockFirstLogin(relogin)
      /\ firstLogins' = IF isAuto /\ ~relogin THEN firstLogins \cup {d} ELSE firstLogins
      /\ auto' = IF isAuto THEN auto \cup {d} ELSE auto
      /\ vt' = [vt EXCEPT ![d] = v]
      /\ tries' = [tries EXCEPT ![d] = 1]
      /\ phase' = [ph EXCEPT ![d] = AfterStart(v, isAuto)]
      /\ sessionVt' = [sessionVt EXCEPT ![d] = IF isAuto THEN v ELSE 0]
  BY <1>3, Zenon
<1>5. v \in Vts \cup {0}
  <2>1. InitialVt \in Vts /\ OpenVts \subseteq Vts /\ (v = 0 \/ v \in OpenVts \/ v = InitialVt)
    BY SeatAssumption, Zenon DEF AvailableVt, Available
  <2> QED
    BY <2>1
<1>6. isAuto /\ ~relogin => ~token
  OBVIOUS
<1> HIDE DEF isAuto, d
<1>7. AfterStart(v, isAuto) \in {"retrying", "autologin", "starting"}
  BY DEF AfterStart
<1>8. /\ phase' \in [Ids -> Phase]
      /\ \A e \in Ids \ {d} : phase'[e] = ph[e]
      /\ phase'[d] = AfterStart(v, isAuto)
  BY <1>1, <1>4, <1>7 DEF Phase, Wanted, Started
<1>9. /\ vt' \in [Ids -> Vts \cup {0}] /\ sessionVt' \in [Ids -> Vts \cup {0}]
      /\ \A e \in Ids \ {d} : vt'[e] = vt[e] /\ sessionVt'[e] = sessionVt[e]
      /\ vt'[d] = v /\ sessionVt'[d] = IF isAuto THEN v ELSE 0
  BY <1>1, <1>4, <1>5 DEF TypeOK
<1>10. tries' \in [Ids -> 0 .. 2] /\ auto' \subseteq Ids /\ firstLogins' \subseteq Ids
  BY <1>1, <1>4 DEF TypeOK
<1>11. token' \in BOOLEAN /\ FirstLogin'
  BY <1>1, <1>4, <1>6 DEF TypeOK, FirstLogin, TryLockFirstLogin
<1>12. displays' \in Seq(Ids) /\ Len(displays') = Len(l) + 1
  BY <1>1, <1>2
<1>13. phase'[d] # "retrying" => vt'[d] # 0
  BY <1>8, <1>9 DEF AfterStart
<1>14. phase'[d] = "autologin" => sessionVt'[d] # 0
  BY <1>8, <1>9 DEF AfterStart
<1>15. Births'
  <2>1. Unborn' = Unborn \ {d}
    BY <1>1, <1>7, <1>8 DEF Unborn
  <2>2. Unborn' = (d + 1) .. MaxDisplays /\ d \in 0 .. MaxDisplays
    BY <1>1, <2>1, IdsAreNumbers DEF Ids
  <2> QED
    BY <2>2 DEF Births
<1>16. Listed'
  <2>1. ~Holds(l, d)
    BY <1>1 DEF Wanted, Started
  <2>2. /\ Len(displays') = Len(l) + 1 /\ displays'[Len(l) + 1] = d
        /\ \A i \in 1 .. Len(l) : displays'[i] = l[i]
    BY <1>1, <1>2
  <2>3. Distinct(displays')
    BY <2>1, <2>2 DEF Distinct, Holds
  <2>4. \A e \in Ids : Holds(displays', e) <=> Holds(l, e) \/ e = d
    BY <2>2 DEF Holds
  <2>5. \A e \in Ids : Holds(displays', e) <=> phase'[e] \in Wanted \cup {"stopped"}
    BY <1>7, <1>8, <2>4 DEF Wanted, Started
  <2> QED
    BY <2>3, <2>5 DEF Listed, Distinct, Holds
<1> QED
  BY <1>1, <1>7, <1>8, <1>9, <1>10, <1>11, <1>12, <1>13, <1>14, <1>15, <1>16 DEF d

-----------------------------------------------------------------------------
(* All of it but the types and the terminals.                              *)
Lists == Births /\ Listed /\ Emitting /\ FirstLogin /\ SeatIsServed /\ OneSuccessor

LEMMA InitIInv == Init => IInv
<1> SUFFICES ASSUME Init PROVE IInv
  OBVIOUS
<1>1. PICK v \in Available(Lowest(Vts \ {active})),
           isAuto \in BOOLEAN, relogin \in BOOLEAN :
       /\ isAuto => relogin \/ FirstBoot
       /\ phase = [d \in Ids |-> IF d = 1 THEN AfterStart(v, isAuto) ELSE "unborn"]
       /\ vt = [d \in Ids |-> IF d = 1 THEN v ELSE 0]
       /\ sessionVt = [d \in Ids |-> IF d = 1 /\ isAuto THEN v ELSE 0]
       /\ auto = IF isAuto THEN {1} ELSE {}
       /\ token = ~relogin
       /\ firstLogins = IF isAuto /\ ~relogin THEN {1} ELSE {}
  BY Zenon DEF Init
<1>2. v \in Vts \cup {0}
  <2>1. v = 0 \/ v \in OpenVts \/ v = InitialVt
    BY Zenon DEF Available
  <2> QED
    BY <2>1, SeatAssumption
<1>3. 1 \in Ids
  BY IdsAreNumbers
<1>4. AfterStart(v, isAuto) \in {"retrying", "autologin", "starting"}
  BY DEF AfterStart
<1>5. TypeOK
  <2>1. displays \in Seq(Ids)
    BY <1>3 DEF Init
  <2>2. phase \in [Ids -> Phase]
    BY <1>1, <1>4 DEF Phase, Wanted, Started
  <2>3. vt \in [Ids -> Vts \cup {0}] /\ sessionVt \in [Ids -> Vts \cup {0}]
    BY <1>1, <1>2
  <2>4. auto \subseteq Ids /\ firstLogins \subseteq Ids /\ token \in BOOLEAN
    BY <1>1, <1>3
  <2> QED
    BY <2>1, <2>2, <2>3, <2>4 DEF Init, TypeOK
<1>6. Births
  <2>1. Unborn = Ids \ {1}
    BY <1>1, <1>4 DEF Unborn
  <2>2. Unborn = (1 + 1) .. MaxDisplays /\ 1 \in 0 .. MaxDisplays
    BY <2>1, IdsAreNumbers DEF Ids
  <2> QED
    BY <2>2 DEF Births
<1>7. Listed
  <2>1. displays = <<1>> /\ Len(displays) = 1 /\ displays[1] = 1
    BY DEF Init
  <2>2. \A d \in Ids : Holds(displays, d) <=> d = 1
    BY <2>1 DEF Holds
  <2>3. Distinct(displays)
    BY <2>1 DEF Distinct
  <2> QED
    BY <1>1, <1>3, <1>4, <2>2, <2>3 DEF Listed, Wanted, Started
<1>8. Emitting
  BY <1>1, <1>4 DEF Init, Emitting
<1>9. Terminals
  BY <1>1, <1>4 DEF Init, Terminals, AfterStart, Started
<1>10. FirstLogin
  BY <1>1, <1>3 DEF FirstLogin
<1>11. SeatIsServed /\ OneSuccessor
  BY DEF Init, SeatIsServed, OneSuccessor
<1> QED
  BY <1>5, <1>6, <1>7, <1>8, <1>9, <1>10, <1>11 DEF IInv

(* Nothing that happens to no display changes the lists.                   *)
LEMMA Still ==
  ASSUME IInv, UNCHANGED <<displays, phase, token, firstLogins, emitting, exit>>,
         switches' \in Nat, switches' >= switches
  PROVE  Lists'
<1>1. Births' /\ Listed'
  BY SameUnborn, SameListed DEF IInv
<1>2. Emitting' /\ FirstLogin' /\ SeatIsServed'
  BY DEF IInv, Emitting, FirstLogin, SeatIsServed
<1>3. OneSuccessor'
  BY DEF IInv, TypeOK, OneSuccessor
<1> QED
  BY <1>1, <1>2, <1>3 DEF Lists

(* Nor does a display that goes on.                                        *)
LEMMA Moves ==
  ASSUME IInv, NEW d \in Ids, NEW p \in Wanted, phase[d] \in Wanted,
         phase' = [phase EXCEPT ![d] = p],
         UNCHANGED <<displays, token, firstLogins, emitting, exit, switches>>
  PROVE  /\ phase' \in [Ids -> Phase]
         /\ \A e \in Ids : phase'[e] = IF e = d THEN p ELSE phase[e]
         /\ Lists'
<1>1. phase' \in [Ids -> Phase] /\ \A e \in Ids : phase'[e] = IF e = d THEN p ELSE phase[e]
  BY DEF IInv, TypeOK, Phase
<1>2. "unborn" \notin Wanted /\ "stopped" \notin Wanted /\ "doomed" \notin Wanted
  BY DEF Wanted, Started
<1>3. Births' /\ Listed'
  BY <1>1, <1>2, SameUnborn, SameListed DEF IInv
<1>4. Emitting' /\ FirstLogin' /\ SeatIsServed' /\ OneSuccessor'
  BY <1>1, <1>2 DEF IInv, Emitting, FirstLogin, SeatIsServed, OneSuccessor
<1> QED
  BY <1>1, <1>3, <1>4 DEF Lists

(* A display that is told to stop says so before anything else happens.    *)
LEMMA Stopping ==
  ASSUME IInv, NEW d \in Ids, phase[d] \in Started, Quiet, Stop(d),
         exit # 0 => exit' # 0
  PROVE  /\ phase' \in [Ids -> Phase]
         /\ \A e \in Ids : phase'[e] = IF e = d THEN "stopped" ELSE phase[e]
         /\ emitting' \in [display : Ids \cup {0}, left : 0 .. 3]
         /\ greeting' = greeting \ {d} /\ Lists'
<1>1. /\ phase' \in [Ids -> Phase]
      /\ \A e \in Ids : phase'[e] = IF e = d THEN "stopped" ELSE phase[e]
  BY DEF IInv, TypeOK, Phase, Stop
<1>2. "unborn" \notin Started /\ Started \subseteq Wanted
  BY DEF Wanted, Started
<1>3. PICK n \in 1 .. 3 : emitting' = [display |-> d, left |-> n]
  BY DEF Stop
<1>4. emitting.left = 0
  BY DEF Quiet
<1>5. Births' /\ Listed'
  BY <1>1, <1>2, SameUnborn, SameListed DEF IInv, Stop, seatVars
<1>6. Emitting'
  BY <1>1, <1>3, <1>4 DEF IInv, Emitting
<1>7. FirstLogin' /\ SeatIsServed' /\ OneSuccessor'
  BY DEF IInv, Stop, seatVars, FirstLogin, SeatIsServed, OneSuccessor
<1> QED
  BY <1>1, <1>3, <1>5, <1>6, <1>7 DEF Lists, Stop

(* A display whose server failed is out of the list for good.              *)
LEMMA Removing ==
  ASSUME IInv, NEW d \in Ids, phase[d] \in Wanted, Quiet, Removed(d), UNCHANGED switches,
         emitting' \in {emitting, [display |-> d, left |-> 1]}
  PROVE  /\ displays' \in Seq(Ids) /\ phase' \in [Ids -> Phase]
         /\ \A e \in Ids : phase'[e] = IF e = d THEN "doomed" ELSE phase[e]
         /\ emitting' \in [display : Ids \cup {0}, left : 0 .. 3]
         /\ greeting' = greeting \ {d} /\ Lists'
<1>1. /\ phase' = [phase EXCEPT ![d] = "doomed"] /\ phase' \in [Ids -> Phase]
      /\ \A e \in Ids : phase'[e] = IF e = d THEN "doomed" ELSE phase[e]
  BY DEF IInv, TypeOK, Phase, Removed
<1>2. "unborn" \notin Wanted /\ "stopped" \notin Wanted
  BY DEF Wanted, Started
<1>3. /\ displays' \in Seq(Ids) /\ Distinct(displays') /\ Len(displays') <= Len(displays)
      /\ \A e \in Ids : Holds(displays', e) <=> phase'[e] \in Wanted \cup {"stopped"}
  BY <1>1, TakenOut, Zenon DEF IInv, Removed
<1>4. emitting' \in [display : Ids \cup {0}, left : 0 .. 3]
  BY DEF IInv, TypeOK
<1>5. Births'
  BY <1>1, <1>2, SameUnborn DEF IInv
<1>6. Listed'
  BY <1>3, Zenon DEF Listed, Distinct, Holds
<1>7. Emitting'
  BY <1>1, <1>2 DEF IInv, Emitting, Quiet
<1>8. FirstLogin' /\ SeatIsServed'
  BY DEF IInv, Removed, FirstLogin, SeatIsServed
<1>9. OneSuccessor'
  BY <1>3 DEF IInv, TypeOK, OneSuccessor
<1> QED
  BY <1>1, <1>3, <1>4, <1>5, <1>6, <1>7, <1>8, <1>9 DEF Lists, Removed

-----------------------------------------------------------------------------
(* Every action keeps the invariant.                                       *)
LEMMA PhasesAre == Wanted \subseteq Phase /\ Started \subseteq Wanted
BY DEF Phase, Wanted

LEMMA RetryStartKeeps == ASSUME IInv, NEW d \in Ids, RetryStart(d) PROVE IInv'
<1>1. phase[d] = "retrying" /\ phase[d] \in Wanted /\ Quiet /\ UNCHANGED <<emitting, active, ttyFailures, switches>>
  BY DEF RetryStart, Wanted
<1>2. ASSUME NEW v \in AvailableVt \ {0},
             vt' = [vt EXCEPT ![d] = v],
             phase' = [phase EXCEPT ![d] = AfterStart(v, d \in auto)],
             sessionVt' = [sessionVt EXCEPT ![d] = IF d \in auto THEN v ELSE 0],
             UNCHANGED <<seatVars, tries, auto, greeting, reuse, exit>>
      PROVE  IInv'
  <2> DEFINE p == AfterStart(v, d \in auto)
  <2>1. p \in {"autologin", "starting"} /\ p \in Wanted /\ (p = "autologin" => d \in auto)
    BY DEF AfterStart, Wanted, Started
  <2>2. v \in Vts /\ v # 0
    <3>1. InitialVt \in Vts /\ OpenVts \subseteq Vts /\ (v = 0 \/ v \in OpenVts \/ v = InitialVt)
      BY SeatAssumption, Zenon DEF AvailableVt, Available
    <3> QED
      BY <3>1
  <2> HIDE DEF p
  <2>3. /\ phase' \in [Ids -> Phase] /\ Lists'
        /\ \A e \in Ids : phase'[e] = IF e = d THEN p ELSE phase[e]
    BY <1>1, <1>2, <2>1, Moves DEF seatVars, p
  <2>4. /\ vt' \in [Ids -> Vts \cup {0}] /\ sessionVt' \in [Ids -> Vts \cup {0}]
        /\ \A e \in Ids : vt'[e] = IF e = d THEN v ELSE vt[e]
        /\ \A e \in Ids : sessionVt'[e] = IF e = d THEN (IF d \in auto THEN v ELSE 0) ELSE sessionVt[e]
    BY <1>2, <2>2 DEF IInv, TypeOK
  <2>5. TypeOK'
    BY <1>1, <1>2, <2>3, <2>4 DEF IInv, TypeOK, seatVars
  <2>6. Terminals'
    BY <1>1, <1>2, <2>1, <2>2, <2>3, <2>4 DEF IInv, Terminals
  <2> QED
    BY <2>3, <2>5, <2>6 DEF IInv, Lists
<1>3. ASSUME tries[d] < 2, tries' = [tries EXCEPT ![d] = @ + 1],
             UNCHANGED <<seatVars, phase, auto, greeting, vt, sessionVt, reuse, exit>>
      PROVE  IInv'
  <2>1. Lists'
    BY <1>1, <1>3, Still DEF IInv, TypeOK, seatVars
  <2>2. tries' \in [Ids -> 0 .. 2]
    BY <1>3 DEF IInv, TypeOK
  <2>3. TypeOK' /\ Terminals'
    BY <1>1, <1>3, <2>2 DEF IInv, TypeOK, Terminals, seatVars
  <2> QED
    BY <2>1, <2>3 DEF IInv, Lists
<1>4. ASSUME Removed(d) PROVE IInv'
  <2>1. /\ displays' \in Seq(Ids) /\ phase' \in [Ids -> Phase]
        /\ \A e \in Ids : phase'[e] = IF e = d THEN "doomed" ELSE phase[e]
        /\ greeting' = greeting \ {d} /\ Lists'
    BY <1>1, <1>4, Removing
  <2>2. TypeOK'
    BY <1>1, <1>4, <2>1 DEF IInv, TypeOK, Removed
  <2>3. Terminals'
    BY <1>1, <1>4, <2>1 DEF IInv, Terminals, Removed, Started
  <2> QED
    BY <2>1, <2>2, <2>3 DEF IInv, Lists
<1> QED
  BY <1>2, <1>3, <1>4 DEF RetryStart

LEMMA GreeterUpKeeps == ASSUME IInv, NEW d \in Ids, GreeterUp(d) PROVE IInv'
<1>1. /\ phase[d] = "starting" /\ phase[d] \in Wanted /\ phase' = [phase EXCEPT ![d] = "greeter"]
      /\ "greeter" \in Wanted /\ UNCHANGED <<sessionVt, reuse, Unstopped>>
  BY DEF GreeterUp, Wanted, Started
<1>2. /\ phase' \in [Ids -> Phase] /\ Lists'
      /\ \A e \in Ids : phase'[e] = IF e = d THEN "greeter" ELSE phase[e]
  BY <1>1, Moves DEF Unstopped
<1>3. active' \in Vts
  BY <1>1 DEF GreeterUp, IInv, TypeOK, Terminals, Started
<1>4. TypeOK'
  BY <1>1, <1>2, <1>3 DEF GreeterUp, IInv, TypeOK, Unstopped
<1>5. Terminals'
  BY <1>1, <1>2 DEF GreeterUp, IInv, Terminals, Unstopped, Started
<1> QED
  BY <1>2, <1>4, <1>5 DEF IInv, Lists

LEMMA GreeterGoneKeeps == ASSUME IInv, NEW d \in Ids, GreeterGone(d) PROVE IInv'
<1>1. Lists'
  BY Still DEF GreeterGone, Unstopped, IInv, TypeOK
<1>2. TypeOK' /\ Terminals'
  BY DEF GreeterGone, Unstopped, IInv, TypeOK, Terminals
<1> QED
  BY <1>1, <1>2 DEF IInv, Lists

LEMMA ReusableType == \A e \in Reusable : e \in Ids \cup {0}
  BY DEF Reusable

LEMMA LoginFailsKeeps == ASSUME IInv, NEW d \in Ids, LoginFails(d) PROVE IInv'
<1>1. reuse' \in [Ids -> Ids \cup {0}]
  BY ReusableType DEF LoginFails, IInv, TypeOK
<1>2. Lists'
  BY Still DEF LoginFails, Unstopped, IInv, TypeOK
<1>3. TypeOK' /\ Terminals'
  BY <1>1 DEF LoginFails, Unstopped, IInv, TypeOK, Terminals
<1> QED
  BY <1>2, <1>3 DEF IInv, Lists

LEMMA OpenSessionKeeps == ASSUME IInv, NEW d \in Ids, OpenSession(d) PROVE IInv'
<1>1. /\ phase[d] \in {"autologin", "greeter"} /\ phase[d] \in Wanted
      /\ phase' = [phase EXCEPT ![d] = "session"] /\ "session" \in Wanted
      /\ active' = sessionVt'[d] /\ reuse' = [reuse EXCEPT ![d] = 0]
      /\ UNCHANGED <<greeting, Unstopped>>
  BY DEF OpenSession, Wanted, Started
<1>2. /\ phase' \in [Ids -> Phase] /\ Lists'
      /\ \A e \in Ids : phase'[e] = IF e = d THEN "session" ELSE phase[e]
  BY <1>1, Moves DEF Unstopped
<1>3. /\ sessionVt' \in [Ids -> Vts \cup {0}] /\ sessionVt'[d] \in Vts \ {0}
      /\ \A e \in Ids \ {d} : sessionVt'[e] = sessionVt[e]
  <2>1. CASE phase[d] = "autologin" /\ UNCHANGED sessionVt
    BY <2>1 DEF IInv, TypeOK, Terminals
  <2>2. CASE \E v \in Free : sessionVt' = [sessionVt EXCEPT ![d] = v]
    <3>1. PICK v \in Free : sessionVt' = [sessionVt EXCEPT ![d] = v]
      BY <2>2
    <3>2. v \in Vts /\ v # 0
      BY SeatAssumption DEF Free, Lowest
    <3> QED
      BY <3>1, <3>2 DEF IInv, TypeOK
  <2> QED
    BY <2>1, <2>2 DEF OpenSession
<1>4. TypeOK'
  BY <1>1, <1>2, <1>3 DEF IInv, TypeOK, Unstopped
<1>5. Terminals'
  BY <1>1, <1>2, <1>3 DEF IInv, Terminals, Unstopped, Started
<1> QED
  BY <1>2, <1>4, <1>5 DEF IInv, Lists

LEMMA ReuseSessionKeeps ==
  ASSUME IInv, NEW d \in Ids, NEW e \in Ids, ReuseSession(d, e) PROVE IInv'
<1>1. /\ phase[d] \in {"autologin", "greeter"} /\ phase[d] \in Wanted
      /\ phase' = [phase EXCEPT ![d] = "reused"] /\ "reused" \in Wanted
      /\ phase[e] = "session" /\ active' = sessionVt[e] /\ reuse' = [reuse EXCEPT ![d] = e]
      /\ UNCHANGED <<greeting, Unstopped>>
  BY DEF ReuseSession, Wanted, Started, Online
<1>2. /\ phase' \in [Ids -> Phase] /\ Lists'
      /\ \A x \in Ids : phase'[x] = IF x = d THEN "reused" ELSE phase[x]
  BY <1>1, Moves DEF Unstopped
<1>3. /\ sessionVt' \in [Ids -> Vts \cup {0}] /\ sessionVt'[d] \in Vts \ {0}
      /\ \A x \in Ids \ {d} : sessionVt'[x] = sessionVt[x]
  <2>1. CASE phase[d] = "autologin" /\ UNCHANGED sessionVt
    BY <2>1 DEF IInv, TypeOK, Terminals
  <2>2. CASE \E v \in Free : sessionVt' = [sessionVt EXCEPT ![d] = v]
    <3>1. PICK v \in Free : sessionVt' = [sessionVt EXCEPT ![d] = v]
      BY <2>2
    <3>2. v \in Vts /\ v # 0
      BY SeatAssumption DEF Free, Lowest
    <3> QED
      BY <3>1, <3>2 DEF IInv, TypeOK
  <2> QED
    BY <2>1, <2>2 DEF ReuseSession
<1>4. active' \in Vts /\ reuse' \in [Ids -> Ids \cup {0}]
  BY <1>1 DEF IInv, TypeOK, Terminals
<1>5. TypeOK'
  BY <1>1, <1>2, <1>3, <1>4 DEF IInv, TypeOK, Unstopped
<1>6. Terminals'
  BY <1>1, <1>2, <1>3 DEF IInv, Terminals, Unstopped, Started
<1> QED
  BY <1>2, <1>5, <1>6 DEF IInv, Lists

LEMMA AutologinFailsKeeps == ASSUME IInv, NEW d \in Ids, AutologinFails(d) PROVE IInv'
<1>1. /\ phase[d] = "autologin" /\ phase[d] \in Wanted /\ phase' = [phase EXCEPT ![d] = "starting"]
      /\ "starting" \in Wanted /\ reuse' \in [Ids -> Ids \cup {0}]
      /\ UNCHANGED <<greeting, sessionVt, active, Unstopped>>
  BY ReusableType DEF AutologinFails, Wanted, Started, IInv, TypeOK
<1>2. /\ phase' \in [Ids -> Phase] /\ Lists'
      /\ \A e \in Ids : phase'[e] = IF e = d THEN "starting" ELSE phase[e]
  BY <1>1, Moves DEF Unstopped
<1>3. TypeOK'
  BY <1>1, <1>2 DEF IInv, TypeOK, Unstopped
<1>4. Terminals'
  BY <1>1, <1>2 DEF IInv, Terminals, Unstopped, Started
<1> QED
  BY <1>2, <1>3, <1>4 DEF IInv, Lists

LEMMA JumpStays == ASSUME active \in Vts, NEW v, JumpToVt(v) PROVE active' \in Vts
BY DEF JumpToVt

LEMMA StopKeeps ==
  ASSUME IInv, NEW d \in Ids, phase[d] \in Started, Quiet, Stop(d), active' \in Vts,
         exit' \in {0, 12, 23}, exit # 0 => exit' # 0, ttyFailures' \in Nat
  PROVE  IInv'
<1>1. /\ phase' \in [Ids -> Phase] /\ Lists'
      /\ \A e \in Ids : phase'[e] = IF e = d THEN "stopped" ELSE phase[e]
      /\ emitting' \in [display : Ids \cup {0}, left : 0 .. 3]
      /\ greeting' = greeting \ {d}
  BY Stopping
<1>2. TypeOK'
  BY <1>1 DEF Stop, IInv, TypeOK, seatVars
<1>3. Terminals'
  BY <1>1 DEF Stop, IInv, Terminals, Started
<1> QED
  BY <1>1, <1>2, <1>3 DEF IInv, Lists

LEMMA DisplayStopsKeeps == ASSUME IInv, NEW d \in Ids, DisplayStops(d) PROVE IInv'
BY StopKeeps DEF DisplayStops, IInv, TypeOK

LEMMA TtyFailedKeeps == ASSUME IInv, NEW d \in Ids, TtyFailed(d) PROVE IInv'
<1>1. phase[d] \in Started /\ Quiet /\ Stop(d) /\ JumpToVt(InitialVt)
  BY DEF TtyFailed, Started
<1>2. active' \in Vts
  BY <1>1, JumpStays DEF IInv, TypeOK
<1>3. exit' \in {0, 12, 23} /\ (exit # 0 => exit' # 0) /\ ttyFailures' \in Nat
  BY DEF TtyFailed, IInv, TypeOK
<1> QED
  BY <1>1, <1>2, <1>3, StopKeeps

LEMMA DisplayServerFailedKeeps == ASSUME IInv, NEW d \in Ids, DisplayServerFailed(d) PROVE IInv'
<1>1. /\ phase[d] \in Wanted /\ Quiet /\ Removed(d) /\ UNCHANGED <<active, ttyFailures, switches>>
      /\ emitting' \in {emitting, [display |-> d, left |-> 1]}
  BY DEF DisplayServerFailed, Wanted
<1>2. /\ displays' \in Seq(Ids) /\ phase' \in [Ids -> Phase]
      /\ \A e \in Ids : phase'[e] = IF e = d THEN "doomed" ELSE phase[e]
      /\ emitting' \in [display : Ids \cup {0}, left : 0 .. 3]
      /\ greeting' = greeting \ {d} /\ Lists'
  BY <1>1, Removing
<1>3. TypeOK'
  BY <1>1, <1>2 DEF IInv, TypeOK, Removed
<1>4. Terminals'
  BY <1>1, <1>2 DEF IInv, Terminals, Removed, Started
<1> QED
  BY <1>2, <1>3, <1>4 DEF IInv, Lists

LEMMA DeleteDisplayKeeps == ASSUME IInv, NEW d \in Ids, DeleteDisplay(d) PROVE IInv'
<1>1. /\ phase[d] = "doomed" /\ phase' = [phase EXCEPT ![d] = "gone"] /\ emitting.left = 0
      /\ UNCHANGED <<greeting, seatVars, emitting, active, exit, ttyFailures, switches>>
  BY DEF DeleteDisplay, Quiet
<1>2. /\ phase' \in [Ids -> Phase]
      /\ \A e \in Ids : phase'[e] = IF e = d THEN "gone" ELSE phase[e]
  BY <1>1 DEF IInv, TypeOK, Phase
<1>3. /\ vt' \in [Ids -> Vts \cup {0}] /\ sessionVt' \in [Ids -> Vts \cup {0}]
      /\ \A e \in Ids \ {d} : vt'[e] = vt[e] /\ sessionVt'[e] = sessionVt[e]
      /\ tries' \in [Ids -> 0 .. 2] /\ reuse' \in [Ids -> Ids \cup {0}]
  BY DEF DeleteDisplay, IInv, TypeOK
<1>4. TypeOK'
  BY <1>1, <1>2, <1>3 DEF DeleteDisplay, IInv, TypeOK, seatVars
<1>5. Births' /\ Listed'
  BY <1>1, <1>2, SameUnborn, SameListed DEF IInv, seatVars, Wanted, Started
<1>6. Emitting' /\ Terminals'
  BY <1>1, <1>2, <1>3 DEF IInv, Emitting, Terminals, Started
<1>7. FirstLogin' /\ SeatIsServed' /\ OneSuccessor'
  BY <1>1 DEF IInv, FirstLogin, SeatIsServed, OneSuccessor, seatVars
<1> QED
  BY <1>4, <1>5, <1>6, <1>7 DEF IInv

(* The last display is replaced; another one leaves the screen to those    *)
(* that are left.                                                          *)
LEMMA DisplayStoppedKeeps == ASSUME IInv, DisplayStopped PROVE IInv'
<1> DEFINE d == emitting.display
           l == Without(displays, d)
           doomed == [phase EXCEPT ![d] = "doomed"]
           next == VtForSession(d)
<1>1. /\ emitting.left > 0 /\ emitting' = [emitting EXCEPT !.left = @ - 1]
      /\ IF l = <<>>
         THEN CreateDisplay(l, doomed) /\ JumpToVt(next)
         ELSE /\ displays' = l /\ phase' = doomed
              /\ JumpToVt(IF next = NoVt THEN TerminalId(l[Len(l)]) ELSE next)
              /\ UNCHANGED <<tries, auto, vt, sessionVt, token, firstLogins>>
      /\ UNCHANGED <<greeting, reuse, exit, ttyFailures, switches>>
  BY Zenon DEF DisplayStopped, Replaced
<1>2. d \in Ids /\ phase[d] \in {"stopped", "doomed"}
  BY <1>1 DEF IInv, Emitting
<1>3. /\ doomed \in [Ids -> Phase]
      /\ \A e \in Ids : doomed[e] = IF e = d THEN "doomed" ELSE phase[e]
  BY <1>2 DEF IInv, TypeOK, Phase
<1>4. /\ l \in Seq(Ids) /\ Distinct(l) /\ Len(l) <= Len(displays)
      /\ \A e \in Ids : Holds(l, e) <=> doomed[e] \in Wanted \cup {"stopped"}
  BY <1>2, TakenOut, Zenon DEF IInv
<1> HIDE DEF l, doomed, next
<1>5. active' \in Vts
  BY <1>1, JumpStays DEF IInv, TypeOK
<1>6. /\ emitting' \in [display : Ids \cup {0}, left : 0 .. 3]
      /\ emitting'.display = d /\ emitting'.left = emitting.left - 1
  BY <1>1 DEF IInv, TypeOK
<1> HIDE DEF d
<1>7. \A e \in Ids : phase[e] = "stopped" => e = d
  BY DEF IInv, Emitting, d
<1>8. CASE l # <<>>
  <2>1. displays' = l /\ phase' = doomed /\ UNCHANGED <<tries, auto, vt, sessionVt, token, firstLogins>>
    BY <1>1, <1>8
  <2>2. TypeOK'
    BY <1>1, <1>3, <1>4, <1>5, <1>6, <2>1 DEF IInv, TypeOK
  <2>3. Births'
    BY <1>2, <1>3, <2>1, SameUnborn DEF IInv
  <2>4. Listed'
    BY <1>4, <2>1, Zenon DEF Listed, Distinct, Holds
  <2>5. Emitting'
    BY <1>2, <1>3, <1>6, <1>7, <2>1 DEF Emitting
  <2>6. Terminals'
    <3>1. d \notin greeting
      BY <1>2 DEF IInv, Terminals
    <3>2. \A e \in Ids : e # d => phase'[e] = phase[e]
      BY <1>3, <2>1
    <3>3. phase'[d] = "doomed" /\ greeting' = greeting /\ greeting \subseteq Ids
      BY <1>1, <1>2, <1>3, <2>1 DEF IInv, TypeOK
    <3> QED
      BY <2>1, <3>1, <3>2, <3>3 DEF IInv, Terminals, Started
  <2>7. FirstLogin' /\ SeatIsServed'
    BY <1>8, <2>1 DEF IInv, FirstLogin, SeatIsServed
  <2>8. OneSuccessor'
    BY <1>1, <1>4, <2>1 DEF IInv, TypeOK, OneSuccessor
  <2> QED
    BY <2>2, <2>3, <2>4, <2>5, <2>6, <2>7, <2>8 DEF IInv
<1>9. CASE l = <<>>
  <2>1. CreateDisplay(l, doomed)
    BY <1>1, <1>9
  <2> DEFINE n == NewDisplay
  <2>2. \A e \in Ids : doomed[e] = "unborn" <=> phase[e] = "unborn"
    BY <1>2, <1>3
  <2>3. TypeOK /\ Births /\ FirstLogin
    BY DEF IInv
  <2>4. /\ n \in Ids /\ phase[n] = "unborn"
        /\ displays' \in Seq(Ids) /\ Len(displays') = Len(l) + 1
        /\ phase' \in [Ids -> Phase] /\ tries' \in [Ids -> 0 .. 2]
        /\ auto' \subseteq Ids /\ firstLogins' \subseteq Ids /\ token' \in BOOLEAN
        /\ vt' \in [Ids -> Vts \cup {0}] /\ sessionVt' \in [Ids -> Vts \cup {0}]
        /\ \A e \in Ids \ {n} : phase'[e] = doomed[e] /\ vt'[e] = vt[e] /\ sessionVt'[e] = sessionVt[e]
        /\ phase'[n] \in {"retrying", "autologin", "starting"}
        /\ phase'[n] # "retrying" => vt'[n] # 0
        /\ phase'[n] = "autologin" => sessionVt'[n] # 0
        /\ Births' /\ Listed' /\ FirstLogin'
    BY <1>3, <1>4, <2>1, <2>2, <2>3, Joined, Zenon
  <2> HIDE DEF n
  <2>5. Len(displays') = 1
    BY <1>9, <2>4
  <2>6. TypeOK'
    BY <1>1, <1>5, <1>6, <2>4 DEF IInv, TypeOK
  <2>7. Emitting'
    BY <1>2, <1>3, <1>6, <1>7, <2>4 DEF Emitting
  <2>8. Terminals'
    <3>1. d \notin greeting /\ n \notin greeting /\ n # d
      BY <1>2, <2>4 DEF IInv, Terminals
    <3>2. \A e \in Ids : e # d /\ e # n =>
             phase'[e] = phase[e] /\ vt'[e] = vt[e] /\ sessionVt'[e] = sessionVt[e]
      BY <1>3, <2>4
    <3>3. phase'[d] = "doomed" /\ greeting' = greeting /\ greeting \subseteq Ids
      BY <1>1, <1>2, <1>3, <2>4, <3>1 DEF IInv, TypeOK
    <3>4. phase'[n] \notin {"session", "reused"}
      BY <2>4
    <3> QED
      BY <2>4, <3>1, <3>2, <3>3, <3>4 DEF IInv, Terminals, Started
  <2>9. SeatIsServed' /\ OneSuccessor'
    <3>1. displays' # <<>> /\ switches' \in Nat /\ 1 <= 1 + switches'
      BY <1>1, <2>4, <2>5 DEF IInv, TypeOK
    <3> QED
      BY <2>5, <3>1 DEF SeatIsServed, OneSuccessor
  <2> QED
    BY <2>4, <2>6, <2>7, <2>8, <2>9 DEF IInv
<1> QED
  BY <1>8, <1>9

LEMMA SwitchToGreeterKeeps == ASSUME IInv, SwitchToGreeter PROVE IInv'
<1>1. emitting.left = 0 /\ switches' = switches + 1 /\ UNCHANGED <<emitting, exit, ttyFailures>>
  BY DEF SwitchToGreeter, Quiet
<1>2. CASE (\E d \in greeting : active' = vt[d]) /\ UNCHANGED <<seatVars, displayVars>>
  <2>1. PICK d \in greeting : active' = vt[d]
    BY <1>2
  <2>2. d \in Ids /\ phase[d] \in Started
    BY DEF IInv, TypeOK, Terminals, Started
  <2>3. active' \in Vts
    BY <2>1, <2>2 DEF IInv, TypeOK, Terminals
  <2>4. TypeOK' /\ Terminals'
    BY <1>1, <1>2, <2>3 DEF IInv, TypeOK, Terminals, seatVars, displayVars
  <2>5. Lists'
    BY <1>1, <1>2, Still DEF IInv, TypeOK, seatVars, displayVars
  <2> QED
    BY <2>4, <2>5 DEF IInv, Lists
<1>3. CASE CreateDisplay(displays, phase) /\ UNCHANGED <<greeting, reuse, active>>
  <2> DEFINE n == NewDisplay
  <2>1. /\ displays \in Seq(Ids) /\ phase \in [Ids -> Phase] /\ Distinct(displays)
        /\ \A e \in Ids : Holds(displays, e) <=> phase[e] \in Wanted \cup {"stopped"}
        /\ TypeOK /\ Births /\ FirstLogin
    BY DEF IInv, TypeOK, Listed
  <2>2. /\ n \in Ids /\ phase[n] = "unborn"
        /\ displays' \in Seq(Ids) /\ Len(displays') = Len(displays) + 1
        /\ phase' \in [Ids -> Phase] /\ tries' \in [Ids -> 0 .. 2]
        /\ auto' \subseteq Ids /\ firstLogins' \subseteq Ids /\ token' \in BOOLEAN
        /\ vt' \in [Ids -> Vts \cup {0}] /\ sessionVt' \in [Ids -> Vts \cup {0}]
        /\ \A e \in Ids \ {n} : phase'[e] = phase[e] /\ vt'[e] = vt[e] /\ sessionVt'[e] = sessionVt[e]
        /\ phase'[n] \in {"retrying", "autologin", "starting"}
        /\ phase'[n] # "retrying" => vt'[n] # 0
        /\ phase'[n] = "autologin" => sessionVt'[n] # 0
        /\ Births' /\ Listed' /\ FirstLogin'
    BY <1>3, <2>1, Joined, Zenon
  <2> HIDE DEF n
  <2>3. TypeOK'
    BY <1>1, <1>3, <2>2 DEF IInv, TypeOK
  <2>4. Emitting'
    BY <1>1, <2>2 DEF IInv, Emitting
  <2>5. Terminals'
    <3>1. n \notin greeting /\ greeting' = greeting /\ greeting \subseteq Ids
      BY <1>3, <2>2 DEF IInv, TypeOK, Terminals
    <3>2. \A e \in Ids : e # n =>
             phase'[e] = phase[e] /\ vt'[e] = vt[e] /\ sessionVt'[e] = sessionVt[e]
      BY <2>2
    <3>3. phase'[n] \notin {"session", "reused"}
      BY <2>2
    <3> QED
      BY <2>2, <3>1, <3>2, <3>3 DEF IInv, Terminals, Started
  <2>6. SeatIsServed' /\ OneSuccessor'
    <3>1. Len(displays') = Len(displays) + 1 /\ Len(displays) \in Nat /\ switches \in Nat
      BY <2>1, <2>2 DEF IInv, TypeOK
    <3> QED
      BY <1>1, <3>1 DEF IInv, SeatIsServed, OneSuccessor
  <2> QED
    BY <2>2, <2>3, <2>4, <2>5, <2>6 DEF IInv
<1> QED
  BY <1>2, <1>3 DEF SwitchToGreeter

LEMMA SwitchVtKeeps == ASSUME IInv, SwitchVt PROVE IInv'
<1>1. active' \in Vts
  BY DEF SwitchVt, Held, IInv, TypeOK
<1>2. UNCHANGED <<seatVars, displayVars, emitting, exit, ttyFailures, switches>>
  BY DEF SwitchVt
<1>3. TypeOK' /\ Terminals'
  BY <1>1, <1>2 DEF IInv, TypeOK, Terminals, seatVars, displayVars
<1>4. Lists'
  BY <1>2, Still DEF IInv, TypeOK, seatVars, displayVars
<1> QED
  BY <1>3, <1>4 DEF IInv, Lists

LEMMA NextKeeps == IInv /\ [Next]_vars => IInv'
<1> SUFFICES ASSUME IInv, [Next]_vars PROVE IInv'
  OBVIOUS
<1>1. CASE UNCHANGED vars
  <2>1. UNCHANGED <<displayVars, seatVars, emitting, active, exit, ttyFailures, switches>>
    BY <1>1 DEF vars
  <2>2. TypeOK' /\ Terminals'
    BY <2>1 DEF IInv, TypeOK, Terminals, seatVars, displayVars
  <2>3. Lists'
    BY <2>1, Still DEF IInv, TypeOK, seatVars, displayVars
  <2> QED
    BY <2>2, <2>3 DEF IInv, Lists
<1>2. ASSUME NEW d \in Ids, RetryStart(d) PROVE IInv'
  BY <1>2, RetryStartKeeps
<1>3. ASSUME NEW d \in Ids, GreeterUp(d) \/ GreeterGone(d) PROVE IInv'
  BY <1>3, GreeterUpKeeps, GreeterGoneKeeps
<1>4. ASSUME NEW d \in Ids, LoginFails(d) \/ OpenSession(d) \/ AutologinFails(d) PROVE IInv'
  BY <1>4, LoginFailsKeeps, OpenSessionKeeps, AutologinFailsKeeps
<1>5. ASSUME NEW d \in Ids, DisplayStops(d) \/ TtyFailed(d) PROVE IInv'
  BY <1>5, DisplayStopsKeeps, TtyFailedKeeps
<1>6. ASSUME NEW d \in Ids, DisplayServerFailed(d) \/ DeleteDisplay(d) PROVE IInv'
  BY <1>6, DisplayServerFailedKeeps, DeleteDisplayKeeps
<1>7. ASSUME NEW d \in Ids, NEW e \in Ids, ReuseSession(d, e) PROVE IInv'
  BY <1>7, ReuseSessionKeeps
<1>8. CASE DisplayStopped \/ SwitchToGreeter \/ SwitchVt
  BY <1>8, DisplayStoppedKeeps, SwitchToGreeterKeeps, SwitchVtKeeps
<1> QED
  BY <1>1, <1>2, <1>3, <1>4, <1>5, <1>6, <1>7, <1>8 DEF Next

-----------------------------------------------------------------------------
(* In every state of every run of the seat (Seat.cpp), whatever the number *)
(* of displays and terminals and whatever the configuration says.          *)
THEOREM Invariant == Spec => []IInv
<1>1. Init => IInv
  BY InitIInv
<1>2. IInv /\ [Next]_vars => IInv'
  BY NextKeeps
<1> QED
  BY <1>1, <1>2, PTL DEF Spec

(* Every variable has its type.                                            *)
THEOREM TypeCorrect == Spec => []TypeOK
BY Invariant, PTL DEF IInv

(* However a display ends, and however often it says so, the seat has a    *)
(* display or the daemon exits.                                            *)
THEOREM SeatServed == Spec => []SeatIsServed
BY Invariant, PTL DEF IInv

(* m_displays has each usable display once and none that waits for its     *)
(* deletion.                                                               *)
THEOREM ListedOnce == Spec => []ListedOnceWhileWanted
<1>1. IInv => ListedOnceWhileWanted
  <2> SUFFICES ASSUME IInv, emitting.left = 0, NEW d \in Ids
               PROVE  Cardinality({i \in DOMAIN displays : displays[i] = d})
                        = IF phase[d] \in Wanted THEN 1 ELSE 0
    BY DEF ListedOnceWhileWanted
  <2> DEFINE at == {i \in DOMAIN displays : displays[i] = d}
  <2>1. DOMAIN displays = 1 .. Len(displays) /\ Distinct(displays)
    BY DEF IInv, TypeOK, Listed
  <2>2. Holds(displays, d) <=> phase[d] \in Wanted
    BY DEF IInv, Listed, Emitting
  <2>3. CASE phase[d] \in Wanted
    <3>1. PICK i \in 1 .. Len(displays) : displays[i] = d
      BY <2>2, <2>3 DEF Holds
    <3>2. at = {i}
      BY <2>1, <3>1 DEF Distinct
    <3> HIDE DEF at
    <3>3. Cardinality(at) = 1
      BY <3>2, FS_Singleton
    <3> QED
      BY <2>3, <3>3 DEF at
  <2>4. CASE phase[d] \notin Wanted
    <3>1. at = {}
      BY <2>1, <2>2, <2>4 DEF Holds
    <3> HIDE DEF at
    <3>2. Cardinality(at) = 0
      BY <3>1, FS_EmptySet
    <3> QED
      BY <2>4, <3>2 DEF at
  <2> QED
    BY <2>3, <2>4
<1> QED
  BY <1>1, Invariant, PTL

(* The repeated stopped() of a display have one successor at most.         *)
THEOREM Successor == Spec => []OneSuccessor
BY Invariant, PTL DEF IInv

(* A seat has one first login.                                             *)
THEOREM OneFirstLogin == Spec => []FirstLoginOnce
<1>1. IInv => FirstLoginOnce
  <2> SUFFICES ASSUME FirstLogin PROVE FirstLoginOnce
    BY DEF IInv
  <2>1. CASE firstLogins = {}
    BY <2>1, FS_EmptySet DEF FirstLoginOnce
  <2>2. CASE \E x \in Ids : firstLogins = {x}
    <3>1. PICK x \in Ids : firstLogins = {x}
      BY <2>2
    <3>2. Cardinality(firstLogins) = 1
      BY <3>1, FS_Singleton
    <3> QED
      BY <3>2 DEF FirstLoginOnce
  <2> QED
    BY <2>1, <2>2 DEF FirstLogin
<1> QED
  BY <1>1, Invariant, PTL
================================================================================
