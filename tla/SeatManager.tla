---------------------------- MODULE SeatManager ----------------------------
(***************************************************************************)
(* How the daemon follows logind's seats (src/daemon/SeatManager.cpp): a   *)
(* LogindSeat watches every seat, a Seat with its displays exists for the  *)
(* graphical ones, and the DisplayManager publishes those on the bus.      *)
(*                                                                         *)
(* logind and the bus are the environment.  What logind sends arrives in   *)
(* the order it was sent: signals, and replies that tell what was true     *)
(* when logind answered.  Seats and the DisplayManager's objects for them  *)
(* are made together and share a number.                                   *)
(*                                                                         *)
(* Not modelled: a system without logind, where seat0 is created once and  *)
(* nothing changes, and what a Seat does (see Seat).                       *)
(***************************************************************************)
EXTENDS Naturals, Sequences, FiniteSets

CONSTANTS
  Names,              \* names of seats
  DaemonKeepsUp,      \* seats neither come and go during initialize() nor
                      \* come back while their removal is on its way
  MatchesInTime,      \* the matches are in place before logind answers
                      \* ListSeats, which initialize() doesn't wait for
  MaxWatchers,        \* bound: LogindSeat objects
  MaxSeats,           \* bound: Seat objects
  MaxChanges          \* bound: changes of logind's state

ASSUME SeatManagerAssumption ==
  /\ DaemonKeepsUp \in BOOLEAN /\ MatchesInTime \in BOOLEAN
  /\ MaxWatchers \in Nat /\ MaxSeats \in Nat /\ MaxChanges \in Nat

VARIABLES
  known,        \* logind's seats
  graphical,    \* those that can do graphics
  changes,      \* changes so far
  listing,      \* ListSeats: asked, answered or done
  subscribed,   \* the matches for SeatNew and SeatRemoved are in place
  asking,       \* LogindSeats whose Get has not been answered
  bus,          \* messages on their way to the daemon
  watchers,     \* the LogindSeat objects
  watched,      \* name and m_canGraphical of each of them
  systemSeats,  \* m_systemSeats: the LogindSeat of a name, 0 without
  alive,        \* the Seat objects
  nameOf,       \* the name of each Seat
  seats,        \* SeatManager::m_seats: the Seat of a name, 0 without
  published     \* DisplayManager::m_seats

logindVars == <<known, graphical, changes>>
busVars    == <<listing, subscribed, asking, bus>>
watchVars  == <<watchers, watched, systemSeats>>
seatVars   == <<alive, nameOf, seats, published>>
vars == <<logindVars, busVars, watchVars, seatVars>>

Watchers == 1 .. MaxWatchers
SeatIds  == 1 .. MaxSeats

Msg == [type : {"new", "removed"}, name : Names]
       \cup [type : {"changed"}, name : Names, value : BOOLEAN]
       \cup [type : {"list"}, names : SUBSET Names]
       \cup [type : {"got"}, watcher : Watchers, value : BOOLEAN, valid : BOOLEAN]

Init ==
  /\ known \in SUBSET Names /\ graphical \in SUBSET known /\ changes = 0
  /\ listing = "asked" /\ subscribed = FALSE /\ asking = {} /\ bus = <<>>
  /\ watchers = {} /\ watched = <<>> /\ systemSeats = [n \in Names |-> 0]
  /\ alive = {} /\ nameOf = <<>> /\ seats = [n \in Names |-> 0] /\ published = <<>>

-----------------------------------------------------------------------------
(* logind and the bus.                                                     *)

(* A signal reaches the daemon if a match for it is in place.              *)
Signal(m, heard) == bus' = IF heard THEN Append(bus, m) ELSE bus

Watching(n) == \E w \in watchers : watched[w].name = n

MayChange == changes < MaxChanges /\ changes' = changes + 1

Removal(n) == [type |-> "removed", name |-> n]
Initialized == listing = "done" /\ subscribed
MayCome(n)  == DaemonKeepsUp => Initialized /\ \A i \in DOMAIN bus : bus[i] # Removal(n)
MayGo       == DaemonKeepsUp => Initialized

SeatAppears(n) ==
  /\ MayChange /\ MayCome(n) /\ n \notin known
  /\ known' = known \cup {n}
  /\ graphical' \in {graphical, graphical \cup {n}}
  /\ Signal([type |-> "new", name |-> n], subscribed)
  /\ UNCHANGED <<listing, subscribed, asking, watchVars, seatVars>>

SeatVanishes(n) ==
  /\ MayChange /\ MayGo /\ n \in known
  /\ known' = known \ {n} /\ graphical' = graphical \ {n}
  /\ Signal(Removal(n), subscribed)
  /\ UNCHANGED <<listing, subscribed, asking, watchVars, seatVars>>

(* A graphics device comes or goes.  logind also says that there is none   *)
(* when some other device goes.                                            *)
DevicesChange(n) ==
  /\ MayChange /\ n \in known
  /\ graphical' \in {graphical \cup {n}, graphical \ {n}}
  /\ n \in graphical' => n \notin graphical
  /\ Signal([type |-> "changed", name |-> n, value |-> n \in graphical'], Watching(n))
  /\ UNCHANGED <<known, listing, subscribed, asking, watchVars, seatVars>>

(* The matches are asked for after ListSeats was sent, so logind may have   *)
(* answered by then: what comes or goes in between is never heard of.      *)
AnswerListSeats ==
  /\ listing = "asked" /\ listing' = "answered"
  /\ MatchesInTime => subscribed
  /\ bus' = Append(bus, [type |-> "list", names |-> known])
  /\ UNCHANGED <<logindVars, subscribed, asking, watchVars, seatVars>>

Subscribe ==
  /\ ~subscribed /\ subscribed' = TRUE
  /\ UNCHANGED <<logindVars, listing, asking, bus, watchVars, seatVars>>

AnswerGet(w) ==
  /\ w \in asking /\ asking' = asking \ {w}
  /\ LET n == watched[w].name IN
     bus' = Append(bus, [type |-> "got", watcher |-> w, value |-> n \in graphical,
                         valid |-> n \in known])
  /\ UNCHANGED <<logindVars, listing, subscribed, watchVars, seatVars>>

-----------------------------------------------------------------------------
(* createSeat() k times: one Seat each, the last one in m_seats.           *)
CreateSeats(n, k) ==
  LET first == Len(nameOf) + 1 IN
  /\ first + k - 1 <= MaxSeats
  /\ nameOf' = nameOf \o [i \in 1 .. k |-> n]
  /\ alive' = alive \cup (first .. first + k - 1)
  /\ seats' = [seats EXCEPT ![n] = IF k = 0 THEN @ ELSE first + k - 1]
  /\ published' = published \o [i \in 1 .. k |-> first + i - 1]

(* DisplayManager::RemoveSeat() walks the list it shortens, up to the end  *)
(* it had before.  a.list keeps what is behind its new end a.size.         *)
Drop(a, x) ==
  LET at == {i \in 1 .. a.size : a.list[i] = x} IN
  IF at = {} THEN a
  ELSE [list |-> [i \in DOMAIN a.list |->
                    IF i < a.size /\ \E p \in at : i >= p THEN a.list[i + 1] ELSE a.list[i]],
        size |-> a.size - 1]

(* Mutant: RemoveSeat() only removes the seat when it is the first.        *)
RemoveFirst(l, n) == IF l # <<>> /\ nameOf[Head(l)] = n THEN Tail(l) ELSE l

RemoveNamed(l, n) ==
  LET walk[i \in 0 .. Len(l)] ==
        IF i = 0 THEN [list |-> l, size |-> Len(l)]
        ELSE LET a == walk[i - 1] IN
             IF nameOf[a.list[i]] = n THEN Drop(a, a.list[i]) ELSE a
      end == walk[Len(l)]
  IN  SubSeq(end.list, 1, end.size)

(* removeSeat().                                                           *)
RemoveSeat(n) ==
  IF seats[n] = 0 THEN UNCHANGED seatVars
  ELSE /\ seats' = [seats EXCEPT ![n] = 0]
       /\ alive' = alive \ {seats[n]}
       /\ published' = RemoveNamed(published, n)
       /\ UNCHANGED nameOf

(* The slot of canGraphicalChanged(), once for each of k LogindSeats.      *)
CanGraphicalChanged(n, value, k) == IF value THEN CreateSeats(n, k) ELSE RemoveSeat(n)

(* logindSeatAdded(): a LogindSeat that asks for CanGraphical.             *)
LogindSeatAdded(n) ==
  LET w == Len(watched) + 1 IN
  /\ w <= MaxWatchers
  /\ watchers' = watchers \cup {w}
  /\ watched' = Append(watched, [name |-> n, value |-> FALSE])
  /\ systemSeats' = [systemSeats EXCEPT ![n] = w]
  /\ asking' = asking \cup {w}
  /\ UNCHANGED <<listing, seatVars>>

(* Mutant: the LogindSeat is deleted but stays in m_systemSeats.           *)
LogindSeatRemovedStays(n) ==
  /\ watchers' = watchers \ {systemSeats[n]}
  /\ RemoveSeat(n)
  /\ UNCHANGED <<watched, systemSeats, asking, listing>>

(* Mutant: the Seat is left to the LogindSeat that is gone.                *)
LogindSeatRemovedOnly(n) ==
  /\ watchers' = watchers \ {systemSeats[n]}
  /\ systemSeats' = [systemSeats EXCEPT ![n] = 0]
  /\ UNCHANGED <<watched, asking, listing, seatVars>>

(* logindSeatRemoved().                                                    *)
LogindSeatRemoved(n) ==
  /\ watchers' = watchers \ {systemSeats[n]}
  /\ systemSeats' = [systemSeats EXCEPT ![n] = 0]
  /\ RemoveSeat(n)
  /\ UNCHANGED <<watched, asking, listing>>

(* LogindSeat::propertiesChanged(), in every LogindSeat of the name,       *)
(* whether or not the value is a new one.                                  *)
PropertiesChanged(n, value) ==
  LET told == {w \in watchers : watched[w].name = n} IN
  /\ watched' = [w \in DOMAIN watched |->
                   IF w \in told THEN [watched[w] EXCEPT !.value = value] ELSE watched[w]]
  /\ IF told = {} THEN UNCHANGED seatVars
     ELSE CanGraphicalChanged(n, value, Cardinality(told))
  /\ UNCHANGED <<watchers, systemSeats, asking, listing>>

(* Mutant: the reply is taken whatever is known by now.                    *)
GotAnyway(m) ==
  LET w == m.watcher IN
  /\ IF w \in watchers /\ m.valid
     THEN CanGraphicalChanged(watched[w].name, m.value, 1)
     ELSE UNCHANGED seatVars
  /\ UNCHANGED <<watchVars, asking, listing>>

(* The reply to Get.                                                       *)
Got(m) ==
  LET w == m.watcher IN
  /\ IF w \in watchers /\ m.valid /\ m.value # watched[w].value
     THEN /\ watched' = [watched EXCEPT ![w].value = m.value]
          /\ CanGraphicalChanged(watched[w].name, m.value, 1)
     ELSE UNCHANGED <<watched, seatVars>>
  /\ UNCHANGED <<watchers, systemSeats, asking, listing>>

(* The reply to ListSeats is handled one seat after the other.             *)
Listed(m) ==
  IF m.names = {}
  THEN listing' = "done" /\ bus' = Tail(bus) /\ UNCHANGED <<asking, watchVars, seatVars>>
  ELSE \E n \in m.names :
         /\ LogindSeatAdded(n)
         /\ bus' = [bus EXCEPT ![1].names = @ \ {n}]

HandleMessage ==
  /\ bus # <<>>
  /\ LET m == Head(bus) IN
     IF m.type = "list" THEN Listed(m)
     ELSE /\ bus' = Tail(bus)
          /\ CASE m.type = "new"     -> LogindSeatAdded(m.name)
               [] m.type = "removed" -> LogindSeatRemoved(m.name)
               [] m.type = "changed" -> PropertiesChanged(m.name, m.value)
               [] OTHER -> Got(m)
  /\ UNCHANGED <<logindVars, subscribed>>

-----------------------------------------------------------------------------
Logind == \/ \E n \in Names : SeatAppears(n) \/ SeatVanishes(n) \/ DevicesChange(n)
          \/ AnswerListSeats
          \/ \E w \in Watchers : AnswerGet(w)

Next == Logind \/ Subscribe \/ HandleMessage

Spec == Init /\ [][Next]_vars

-----------------------------------------------------------------------------
(* Every variable has its type, and the pointers in m_systemSeats and      *)
(* m_seats lead to objects of that name that have not been deleted.        *)
TypeOK ==
  /\ graphical \subseteq known /\ known \subseteq Names
  /\ bus \in Seq(Msg) /\ asking \subseteq Watchers
  /\ watched \in Seq([name : Names, value : BOOLEAN])
  /\ nameOf \in Seq(Names) /\ published \in Seq(SeatIds)
  /\ \A n \in Names :
       /\ systemSeats[n] # 0 => systemSeats[n] \in watchers /\ watched[systemSeats[n]].name = n
       /\ seats[n] # 0 => seats[n] \in alive /\ nameOf[seats[n]] = n

(* Nothing is on its way between logind and the daemon.                    *)
Settled == listing = "done" /\ bus = <<>> /\ asking = {}

(* Once everything that logind sent is handled, in whatever order signals  *)
(* and replies crossed, the daemon has a Seat for the seats that are       *)
(* graphical and for no other.                                             *)
SeatsFollowLogind == Settled => \A n \in Names : seats[n] # 0 <=> n \in graphical

(* A seat has one Seat object at a time, so one set of displays: none is   *)
(* left behind when its entry in m_seats is overwritten or removed.        *)
NoStraySeat == alive = {seats[n] : n \in Names} \ {0}

(* The bus objects are those of the seats in use, each once.               *)
PublishedAsUsed ==
  /\ {published[i] : i \in DOMAIN published} = {seats[n] : n \in Names} \ {0}
  /\ \A i, j \in DOMAIN published : published[i] = published[j] => i = j

(* SeatManager.h:48: Seats exist only for graphical seats.                 *)
SeatsOnlyForGraphical == Settled => \A s \in alive : nameOf[s] \in graphical

=============================================================================
