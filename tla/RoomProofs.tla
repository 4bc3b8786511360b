----------------------------- MODULE RoomProofs -----------------------------
(***************************************************************************)
(* Proofs about the room, for any number of seats, accounts and sockets:   *)
(* seats, sessions, sockets, readiness and host agree after any order of   *)
(* logins, takeovers, kicks, lost connections and timeouts; who lost the   *)
(* connection has a timeout; the host is on the clock only in a lobby that *)
(* is ready; and a running game takes nobody in and keeps its host.        *)
(***************************************************************************)
EXTENDS Room, WellFoundedInduction, TLAPS

-----------------------------------------------------------------------------
(* The inductive invariant. *)

\* A seat's socket is open and bound to this seat: no socket has two seats.
SocketIsBound ==
  \A s \in Seats : seats[s].socket \in Sockets =>
    seats[s].socket \in open /\ bound[seats[s].socket] = s

\* Only an open socket is bound, and none that waits to be logged in.
BoundIsOpen ==
  \A k \in Sockets :
    /\ bound[k] # None => k \in open
    /\ login[k] # None => bound[k] = None /\ k \notin AdminSockets

\* Who is no person has neither player nor socket, and what is held is lost.
OthersAreBare ==
  \A s \in Seats :
    /\ seats[s].kind # "human" => seats[s].player = None /\ seats[s].socket = None
    /\ seats[s].hold => seats[s].socket = None

\* Who sits where.
Seating ==
  /\ SessionIffSeated /\ BoundSocketOwnsSeat /\ LostSeatIsHeld
  /\ SocketIsBound /\ BoundIsOpen /\ OthersAreBare

\* Who is host, who is ready, and the host's clock.
Leading == HostIsSeated /\ NobodyInheritsReady /\ HostTimerIsCurrent

RoomInv == TypeOK /\ Seating /\ Leading

-----------------------------------------------------------------------------
(* Constants, and the first of a set of seats. *)

LEMMA Distinct ==
  /\ None \notin Seats /\ None \notin Sockets /\ None \notin Players /\ None \notin Accounts
  /\ Gone \notin Sockets /\ None # Gone
  /\ Admin \in Players /\ Accounts \subseteq Players /\ 1 \in Seats
       /\ AdminSockets \subseteq Sockets
  BY RoomAssumption DEF Players, Seats

LEMMA FirstOfSeats ==
  ASSUME NEW S \in SUBSET Seats
  PROVE  (FirstOf(S) = None /\ S = {}) \/ FirstOf(S) \in S
  <1>1. CASE S = {}
    BY <1>1 DEF FirstOf
  <1>2. CASE S # {}
    <2>1. S \subseteq Nat
      BY RoomAssumption DEF Seats
    <2>2. PICK s \in S : \A t \in S : ~ (<<t, s>> \in OpToRel(<, Nat))
      BY <1>2, <2>1, NatLessThanWellFounded, WFMin
    <2>3. \A t \in S : s <= t
      <3> SUFFICES ASSUME NEW t \in S PROVE s <= t
        OBVIOUS
      <3>1. s \in Nat /\ t \in Nat
        BY <2>1, <2>2
      <3>2. ~(t < s)
        BY <2>2, <3>1 DEF OpToRel
      <3> QED
        BY <3>1, <3>2
    <2>4. (CHOOSE u \in S : \A t \in S : u <= t) \in S
      BY <2>2, <2>3
    <2> QED
      BY <1>2, <2>4 DEF FirstOf
  <1> QED
    BY <1>1, <1>2

\* Another host is a connected person in another seat.
LEMMA HostWithoutSeat ==
  ASSUME TypeOK, HostIsSeated, NEW s \in Seats
  PROVE  HostWithout(s) = None \/ HostWithout(s) \in Humans(seats) \ {s}
  <1>1. Connected(seats) \ {s} \in SUBSET Seats /\ Connected(seats) \subseteq Humans(seats)
    BY DEF Connected, Humans
  <1> QED
    BY <1>1, FirstOfSeats DEF HostWithout, HostIsSeated

-----------------------------------------------------------------------------
(* What the operators do to a seat. *)

LEMMA FreshFields ==
  /\ FreshSeat.kind = "empty" /\ FreshSeat.player = None /\ FreshSeat.socket = None
  /\ FreshSeat.hold = FALSE /\ FreshSeat \in SeatRecord
  BY DEF FreshSeat, SeatRecord

LEMMA RecordFields ==
  ASSUME NEW r \in SeatRecord
  PROVE  /\ r.kind \in {"empty", "human", "agent"} /\ r.player \in Players \cup {None}
         /\ r.socket \in Sockets \cup {Gone, None} /\ r.hold \in BOOLEAN
  BY DEF SeatRecord

\* A seat given up, with its hold or without.
Vacated(st, after, s) ==
  /\ after \in [Seats -> SeatRecord]
  /\ \A t \in Seats \ {s} : after[t] = st[t]
  /\ after[s].kind = "empty" /\ after[s].player = None /\ after[s].socket = None

LEMMA ReleasedVacates ==
  ASSUME NEW st \in [Seats -> SeatRecord], NEW s \in Seats
  PROVE  Vacated(st, Released(st, s), s)
  <1> DEFINE r == [FreshSeat EXCEPT !.hold = st[s].hold]
  <1>1. r = [kind |-> "empty", player |-> None, socket |-> None, hold |-> st[s].hold]
    BY DEF FreshSeat
  <1>2. st[s].hold \in BOOLEAN
    BY RecordFields
  <1>3. r \in SeatRecord /\ r.kind = "empty" /\ r.player = None /\ r.socket = None
    BY <1>1, <1>2 DEF SeatRecord
  <1>4. Released(st, s) = [st EXCEPT ![s] = r]
    BY DEF Released
  <1> HIDE DEF r
  <1> QED
    BY <1>3, <1>4 DEF Vacated

LEMMA FreshVacates ==
  ASSUME NEW st \in [Seats -> SeatRecord], NEW s \in Seats
  PROVE  Vacated(st, [st EXCEPT ![s] = FreshSeat], s)
  BY FreshFields DEF Vacated

LEMMA LostFields ==
  ASSUME NEW st \in [Seats -> SeatRecord], NEW s \in Seats
  PROVE  /\ Lost(st, s) \in [Seats -> SeatRecord]
         /\ \A t \in Seats \ {s} : Lost(st, s)[t] = st[t]
         /\ Lost(st, s)[s].kind = st[s].kind /\ Lost(st, s)[s].player = st[s].player
         /\ Lost(st, s)[s].socket = None /\ Lost(st, s)[s].hold = TRUE
  <1> DEFINE r == [st[s] EXCEPT !.socket = None, !.hold = TRUE]
  <1>1. st[s] \in SeatRecord
    OBVIOUS
  <1>2. /\ r \in SeatRecord /\ r.kind = st[s].kind /\ r.player = st[s].player
        /\ r.socket = None /\ r.hold = TRUE
    BY <1>1 DEF SeatRecord
  <1>3. Lost(st, s) = [st EXCEPT ![s] = r]
    BY <1>1 DEF Lost, SeatRecord
  <1> HIDE DEF r
  <1> QED
    BY <1>2, <1>3

LEMMA AttachedFields ==
  ASSUME NEW st \in [Seats -> SeatRecord], NEW s \in Seats, NEW k \in Sockets, NEW p \in Players
  PROVE  /\ Attached(st, s, k, p) \in [Seats -> SeatRecord]
         /\ \A t \in Seats \ {s} : Attached(st, s, k, p)[t] = st[t]
         /\ Attached(st, s, k, p)[s].kind = "human" /\ Attached(st, s, k, p)[s].player = p
         /\ Attached(st, s, k, p)[s].socket = IF k \in open THEN k ELSE Gone
         /\ Attached(st, s, k, p)[s].hold = FALSE
  <1> DEFINE r == [kind |-> "human", player |-> p,
                   socket |-> IF k \in open THEN k ELSE Gone, hold |-> FALSE]
  <1>1. /\ r \in SeatRecord /\ r.kind = "human" /\ r.player = p
        /\ r.socket = (IF k \in open THEN k ELSE Gone) /\ r.hold = FALSE
    BY DEF SeatRecord
  <1>2. Attached(st, s, k, p) = [st EXCEPT ![s] = r]
    BY DEF Attached
  <1> HIDE DEF r
  <1> QED
    BY <1>1, <1>2

-----------------------------------------------------------------------------
(* Who sits where, kept by what happens to one seat. *)

SeatVars == <<seats, open, bound, login, session>>

LEMMA SeatingStays ==
  ASSUME Seating, UNCHANGED SeatVars
  PROVE  Seating'
  BY DEF Seating, SeatVars, SessionIffSeated, BoundSocketOwnsSeat, LostSeatIsHeld, SocketIsBound,
         BoundIsOpen, OthersAreBare, Humans

\* A seat is given up, its sessions are revoked and its socket, if any, is
\* unbound and may be closed.
LEMMA SeatingVacated ==
  ASSUME TypeOK, Seating, NEW s \in Seats, Vacated(seats, seats', s),
         session' = RevokeBySeat(s),
         bound' = [k \in Sockets |-> IF k = seats[s].socket THEN None ELSE bound[k]],
         open' = open \/ open' = open \ {seats[s].socket},
         login' = login
  PROVE  Seating'
  <1>1. /\ seats \in [Seats -> SeatRecord] /\ open \subseteq Sockets
        /\ session \in [Players -> Seats \cup {None}]
        /\ bound \in [Sockets -> Seats \cup {None}]
    BY DEF TypeOK
  <1>2. /\ \A t \in Seats \ {s} : seats'[t] = seats[t]
        /\ seats'[s].kind = "empty" /\ seats'[s].player = None /\ seats'[s].socket = None
    BY DEF Vacated
  <1>3. /\ SessionIffSeated /\ BoundSocketOwnsSeat /\ LostSeatIsHeld
        /\ SocketIsBound /\ BoundIsOpen /\ OthersAreBare
    BY DEF Seating
  <1>4. \A k \in Sockets : bound'[k] = IF k = seats[s].socket THEN None ELSE bound[k]
    OBVIOUS
  <1>5. \A t \in Seats \ {s} : seats[t].socket \in Sockets => seats[t].socket # seats[s].socket
    BY <1>3 DEF SocketIsBound
  <1>6. SessionIffSeated'
    <2>1. \A p \in Players : session'[p] = IF session[p] = s THEN None ELSE session[p]
      BY DEF RevokeBySeat
    <2> QED
      BY <1>2, <1>3, <2>1, Distinct DEF SessionIffSeated
  <1>7. BoundSocketOwnsSeat'
    <2> SUFFICES ASSUME NEW k \in open', bound'[k] # None
                 PROVE  seats'[bound'[k]].kind = "human" /\ seats'[bound'[k]].socket = k
      BY DEF BoundSocketOwnsSeat
    <2>1. k \in open /\ k \in Sockets /\ k # seats[s].socket /\ bound'[k] = bound[k]
      BY <1>1, <1>4
    <2>2. seats[bound[k]].kind = "human" /\ seats[bound[k]].socket = k /\ bound[k] \in Seats
      BY <1>1, <1>3, <2>1 DEF BoundSocketOwnsSeat
    <2> QED
      BY <1>2, <2>1, <2>2
  <1>8. LostSeatIsHeld' /\ OthersAreBare'
    BY <1>2, <1>3 DEF LostSeatIsHeld, OthersAreBare, Humans
  <1>9. SocketIsBound'
    <2> SUFFICES ASSUME NEW t \in Seats, seats'[t].socket \in Sockets
                 PROVE  seats'[t].socket \in open' /\ bound'[seats'[t].socket] = t
      BY DEF SocketIsBound
    <2>1. t # s /\ seats'[t] = seats[t]
      BY <1>2, Distinct
    <2>2. seats[t].socket \in open /\ bound[seats[t].socket] = t
      BY <1>3, <2>1 DEF SocketIsBound
    <2> QED
      BY <1>4, <1>5, <2>1, <2>2
  <1>10. BoundIsOpen'
    <2> SUFFICES ASSUME NEW k \in Sockets
                 PROVE  /\ bound'[k] # None => k \in open'
                        /\ login'[k] # None => bound'[k] = None /\ k \notin AdminSockets
      BY DEF BoundIsOpen
    <2> QED
      BY <1>3, <1>4 DEF BoundIsOpen
  <1> QED
    BY <1>6, <1>7, <1>8, <1>9, <1>10 DEF Seating

\* Socket k, which has no seat, takes seat s for player p, who sits nowhere
\* else; whoever had the seat has lost it.
LEMMA SeatingTaken ==
  ASSUME TypeOK, Seating, NEW s \in Seats, NEW k \in Sockets, NEW p \in Players,
         bound[k] = None, seats' = Attached(seats, s, k, p),
         open' = open \ ({seats[s].socket} \ {k}),
         bound' = [j \in Sockets |-> IF j = k /\ k \in open THEN s
                                     ELSE IF j = seats[s].socket THEN None ELSE bound[j]],
         session' = [RevokeBySeat(s) EXCEPT ![p] = s],
         login' = [login EXCEPT ![k] = None],
         session[p] \in {s, None}
  PROVE  Seating'
  <1>1. /\ seats \in [Seats -> SeatRecord] /\ open \subseteq Sockets
        /\ session \in [Players -> Seats \cup {None}]
        /\ bound \in [Sockets -> Seats \cup {None}]
        /\ login \in [Sockets -> Accounts \cup {None}]
    BY DEF TypeOK
  <1>2. /\ \A t \in Seats \ {s} : seats'[t] = seats[t]
        /\ seats'[s].kind = "human" /\ seats'[s].player = p
        /\ seats'[s].socket = (IF k \in open THEN k ELSE Gone) /\ seats'[s].hold = FALSE
    <2> DEFINE r == [kind |-> "human", player |-> p,
                     socket |-> IF k \in open THEN k ELSE Gone, hold |-> FALSE]
    <2>1. seats' = [seats EXCEPT ![s] = r]
      BY DEF Attached
    <2>2. r.kind = "human" /\ r.player = p /\ r.hold = FALSE
      OBVIOUS
    <2>3. r.socket = IF k \in open THEN k ELSE Gone
      OBVIOUS
    <2> HIDE DEF r
    <2> QED
      BY <1>1, <2>1, <2>2, <2>3
  <1>3. /\ SessionIffSeated /\ BoundSocketOwnsSeat /\ LostSeatIsHeld
        /\ SocketIsBound /\ BoundIsOpen /\ OthersAreBare
    BY DEF Seating
  <1>4. \A j \in Sockets : bound'[j] = IF j = k /\ k \in open THEN s
                                       ELSE IF j = seats[s].socket THEN None ELSE bound[j]
    OBVIOUS
  <1>5. \A t \in Seats : seats[t].socket # k
    BY <1>3, Distinct DEF SocketIsBound
  <1>6. \A t \in Seats \ {s} : seats[t].socket \in Sockets => seats[t].socket # seats[s].socket
    BY <1>3 DEF SocketIsBound
  <1>7. SessionIffSeated'
    <2>1. \A q \in Players : session'[q] = IF q = p THEN s
                                           ELSE IF session[q] = s THEN None ELSE session[q]
      BY DEF RevokeBySeat
    <2> SUFFICES ASSUME NEW q \in Players, NEW t \in Seats
                 PROVE  session'[q] = t <=> seats'[t].kind = "human" /\ seats'[t].player = q
      BY DEF SessionIffSeated
    <2>2. session[q] = t <=> seats[t].kind = "human" /\ seats[t].player = q
      BY <1>3 DEF SessionIffSeated
    <2>3. CASE t = s
      BY <1>2, <2>1, <2>3, Distinct
    <2>4. CASE t # s
      BY <1>2, <2>1, <2>2, <2>4, Distinct
    <2> QED
      BY <2>3, <2>4
  <1>8. BoundSocketOwnsSeat'
    <2> SUFFICES ASSUME NEW j \in open', bound'[j] # None
                 PROVE  seats'[bound'[j]].kind = "human" /\ seats'[bound'[j]].socket = j
      BY DEF BoundSocketOwnsSeat
    <2>1. j \in open /\ j \in Sockets
      BY <1>1
    <2>2. CASE j = k
      BY <1>2, <1>4, <2>1, <2>2
    <2>3. CASE j # k
      <3>1. bound'[j] = bound[j] /\ j # seats[s].socket
        BY <1>4, <2>1, <2>3
      <3>2. bound[j] \in Seats /\ seats[bound[j]].kind = "human" /\ seats[bound[j]].socket = j
        BY <1>1, <1>3, <2>1, <3>1 DEF BoundSocketOwnsSeat
      <3> QED
        BY <1>2, <3>1, <3>2
    <2> QED
      BY <2>2, <2>3
  <1>9. LostSeatIsHeld' /\ OthersAreBare'
    <2>1. seats'[s].socket # None
      BY <1>2, Distinct
    <2> QED
      BY <1>2, <1>3, <2>1 DEF LostSeatIsHeld, OthersAreBare, Humans
  <1>10. SocketIsBound'
    <2> SUFFICES ASSUME NEW t \in Seats, seats'[t].socket \in Sockets
                 PROVE  seats'[t].socket \in open' /\ bound'[seats'[t].socket] = t
      BY DEF SocketIsBound
    <2>1. CASE t = s
      <3>1. seats'[t].socket = k /\ k \in open
        BY <1>2, <2>1, Distinct
      <3> QED
        BY <1>4, <2>1, <3>1
    <2>2. CASE t # s
      <3>1. seats'[t] = seats[t]
        BY <1>2, <2>2
      <3>2. seats[t].socket \in open /\ bound[seats[t].socket] = t
        BY <1>3, <3>1 DEF SocketIsBound
      <3> QED
        BY <1>4, <1>5, <1>6, <2>2, <3>1, <3>2
    <2> QED
      BY <2>1, <2>2
  <1>11. BoundIsOpen'
    <2> SUFFICES ASSUME NEW j \in Sockets
                 PROVE  /\ bound'[j] # None => j \in open'
                        /\ login'[j] # None => bound'[j] = None /\ j \notin AdminSockets
      BY DEF BoundIsOpen
    <2>1. login'[j] = IF j = k THEN None ELSE login[j]
      BY <1>1
    <2> QED
      BY <1>3, <1>4, <2>1, Distinct DEF BoundIsOpen
  <1> QED
    BY <1>7, <1>8, <1>9, <1>10, <1>11 DEF Seating

\* The room is emptied: nobody but perhaps the admin in the first seat.
LEMMA SeatingReset ==
  ASSUME Seating, TypeOK, seats' = [s \in Seats |-> FreshSeat], session' = NoSessions,
         login' = login, open' = open,
         bound' = Unbound \/ (bound' = bound /\ \A k \in Sockets : bound[k] = None)
  PROVE  Seating'
  <1>1. \A s \in Seats : seats'[s] = FreshSeat
    OBVIOUS
  <1>2. \A k \in Sockets : bound'[k] = None
    BY DEF Unbound
  <1>3. \A p \in Players : session'[p] = None
    BY DEF NoSessions
  <1>4. SessionIffSeated'
    BY <1>1, <1>3, FreshFields, Distinct DEF SessionIffSeated
  <1>5. BoundIsOpen'
    BY <1>2 DEF Seating, BoundIsOpen
  <1>6. BoundSocketOwnsSeat' /\ LostSeatIsHeld' /\ SocketIsBound' /\ OthersAreBare'
    <2>1. open' \subseteq Sockets
      BY DEF TypeOK
    <2> QED
      BY <1>1, <1>2, <2>1, FreshFields, Distinct
         DEF BoundSocketOwnsSeat, LostSeatIsHeld, SocketIsBound, OthersAreBare, Humans
  <1> QED
    BY <1>4, <1>5, <1>6 DEF Seating

-----------------------------------------------------------------------------
(* Host, readiness and types, kept by what happens to one seat. *)

LEMMA LeadingNow ==
  ASSUME host' # None => host' \in Humans(seats'),
         \A t \in Seats : ready'[t] => t \in Occupied(seats'),
         HostTimerIsCurrent'
  PROVE  Leading'
  BY DEF Leading, HostIsSeated, NobodyInheritsReady, Humans, Occupied

\* refreshHostStartTimer arms the timer for who is host, or for nobody.
LEMMA RefreshedIsCurrent ==
  ASSUME RefreshHostTimer \/ hostTimer' = None
  PROVE  HostTimerIsCurrent'
  BY DEF RefreshHostTimer, HostTimerIsCurrent

\* No timer runs outside the lobby, so a step there cannot make it wrong.
LEMMA UntouchedIsCurrent ==
  ASSUME HostTimerIsCurrent, hostTimer' = hostTimer,
         phase # "waiting" \/ UNCHANGED <<seats, ready, host, phase>>
  PROVE  HostTimerIsCurrent'
  <1>1. CASE phase # "waiting"
    BY <1>1 DEF HostTimerIsCurrent, AllConnectedPlayersReady
  <1>2. CASE UNCHANGED <<seats, ready, host, phase>>
    BY <1>2 DEF HostTimerIsCurrent, AllConnectedPlayersReady, Occupied, Humans
  <1> QED
    BY <1>1, <1>2

\* A timer that is current is the host's, so its type is the host's.
LEMMA TypesNow ==
  ASSUME seats' \in [Seats -> SeatRecord], ready' \in [Seats -> BOOLEAN],
         host' \in Seats \cup {None}, phase' \in Phases, dealt' \in BOOLEAN,
         open' \subseteq Sockets, bound' \in [Sockets -> Seats \cup {None}],
         login' \in [Sockets -> Accounts \cup {None}],
         session' \in [Players -> Seats \cup {None}], HostTimerIsCurrent'
  PROVE  TypeOK'
  BY DEF TypeOK, HostTimerIsCurrent

LEMMA Parts ==
  ASSUME RoomInv
  PROVE  /\ TypeOK /\ Seating /\ Leading
         /\ SessionIffSeated /\ BoundSocketOwnsSeat /\ LostSeatIsHeld
         /\ SocketIsBound /\ BoundIsOpen /\ OthersAreBare
         /\ HostIsSeated /\ NobodyInheritsReady /\ HostTimerIsCurrent
  BY DEF RoomInv, Seating, Leading

LEMMA Types ==
  ASSUME RoomInv
  PROVE  /\ seats \in [Seats -> SeatRecord] /\ ready \in [Seats -> BOOLEAN]
         /\ host \in Seats \cup {None} /\ phase \in Phases /\ dealt \in BOOLEAN
         /\ hostTimer \in Seats \cup {None} /\ open \subseteq Sockets
         /\ bound \in [Sockets -> Seats \cup {None}]
         /\ login \in [Sockets -> Accounts \cup {None}]
         /\ session \in [Players -> Seats \cup {None}]
  BY DEF RoomInv, TypeOK

\* Who gives up a seat, wanted or not, leaves a room that agrees.
LEMMA VacatedKeeps ==
  ASSUME RoomInv, NEW s \in Seats, Vacated(seats, seats', s),
         session' = RevokeBySeat(s),
         bound' = [k \in Sockets |-> IF k = seats[s].socket THEN None ELSE bound[k]],
         open' = open \/ open' = open \ {seats[s].socket},
         login' = login, phase' \in Phases, dealt' \in BOOLEAN,
         host' = None \/ host' \in Humans(seats) \ {s},
         ready' \in [Seats -> BOOLEAN], \A t \in Seats : ready'[t] => ready[t] /\ t # s,
         RefreshHostTimer \/ hostTimer' = None
  PROVE  RoomInv'
  <1>1. HostTimerIsCurrent'
    BY RefreshedIsCurrent
  <1>2. /\ seats' \in [Seats -> SeatRecord] /\ \A t \in Seats \ {s} : seats'[t] = seats[t]
    BY DEF Vacated
  <1>3. TypeOK /\ Seating /\ NobodyInheritsReady
    BY Parts
  <1>4. TypeOK'
    <2>1. session' \in [Players -> Seats \cup {None}]
      BY Types DEF RevokeBySeat
    <2>2. bound' \in [Sockets -> Seats \cup {None}] /\ open' \subseteq Sockets
      BY Types
    <2>3. host' \in Seats \cup {None}
      BY DEF Humans
    <2> QED
      BY <1>1, <1>2, <2>1, <2>2, <2>3, Types, TypesNow
  <1>5. Leading'
    <2>1. host' # None => host' \in Humans(seats')
      BY <1>2 DEF Humans
    <2>2. \A t \in Seats : ready'[t] => t \in Occupied(seats')
      BY <1>2, <1>3 DEF Occupied, NobodyInheritsReady
    <2> QED
      BY <1>1, <2>1, <2>2, LeadingNow
  <1>6. Seating'
    BY <1>3, SeatingVacated
  <1> QED
    BY <1>4, <1>5, <1>6 DEF RoomInv

\* A player who comes to a seat leaves a room that agrees.
LEMMA TakenKeeps ==
  ASSUME RoomInv, NEW s \in Seats, NEW k \in Sockets, NEW p \in Players,
         bound[k] = None, seats' = Attached(seats, s, k, p),
         open' = open \ ({seats[s].socket} \ {k}),
         bound' = [j \in Sockets |-> IF j = k /\ k \in open THEN s
                                     ELSE IF j = seats[s].socket THEN None ELSE bound[j]],
         session' = [RevokeBySeat(s) EXCEPT ![p] = s],
         login' = [login EXCEPT ![k] = None],
         session[p] \in {s, None},
         UNCHANGED <<ready, host, phase, dealt>>, RefreshHostTimer
  PROVE  RoomInv'
  <1>1. HostTimerIsCurrent'
    BY RefreshedIsCurrent
  <1>2. /\ seats' \in [Seats -> SeatRecord] /\ \A t \in Seats \ {s} : seats'[t] = seats[t]
        /\ seats'[s].kind = "human"
    <2> DEFINE r == [kind |-> "human", player |-> p,
                     socket |-> IF k \in open THEN k ELSE Gone, hold |-> FALSE]
    <2>1. seats' = [seats EXCEPT ![s] = r]
      BY DEF Attached
    <2>2. r.kind = "human" /\ r \in SeatRecord
      BY DEF SeatRecord
    <2> HIDE DEF r
    <2> QED
      BY Types, <2>1, <2>2
  <1>3. TypeOK /\ Seating /\ NobodyInheritsReady /\ HostIsSeated
    BY Parts
  <1>4. TypeOK'
    <2>1. session' \in [Players -> Seats \cup {None}]
      BY Types DEF RevokeBySeat
    <2>2. bound' \in [Sockets -> Seats \cup {None}] /\ open' \subseteq Sockets
      BY Types
    <2>3. login' \in [Sockets -> Accounts \cup {None}]
      BY Types
    <2> QED
      BY <1>1, <1>2, <2>1, <2>2, <2>3, Types, TypesNow
  <1>5. Leading'
    <2>1. host' # None => host' \in Humans(seats')
      BY <1>2, <1>3 DEF Humans, HostIsSeated
    <2>2. \A t \in Seats : ready'[t] => t \in Occupied(seats')
      BY <1>2, <1>3 DEF Occupied, NobodyInheritsReady
    <2> QED
      BY <1>1, <2>1, <2>2, LeadingNow
  <1>6. Seating'
    BY <1>3, SeatingTaken
  <1> QED
    BY <1>4, <1>5, <1>6 DEF RoomInv

\* Nobody is left in the room: no host, nobody ready, no sessions.
LEMMA ResetKeeps ==
  ASSUME RoomInv, SoftReset, login' = login, open' = open,
         bound' = Unbound \/ (bound' = bound /\ \A k \in Sockets : bound[k] = None),
         RefreshHostTimer \/ hostTimer' = None
  PROVE  RoomInv'
  <1>1. HostTimerIsCurrent'
    BY RefreshedIsCurrent
  <1>2. TypeOK'
    <2>1. /\ seats' \in [Seats -> SeatRecord] /\ ready' \in [Seats -> BOOLEAN]
          /\ host' = None /\ phase' \in Phases /\ dealt' \in BOOLEAN
          /\ session' \in [Players -> Seats \cup {None}]
      BY FreshFields DEF SoftReset, NobodyReady, NoSessions, Phases
    <2>2. bound' \in [Sockets -> Seats \cup {None}]
      BY Types DEF Unbound
    <2> QED
      BY <1>1, <2>1, <2>2, Types, TypesNow
  <1>3. Leading'
    <2>1. host' = None /\ \A t \in Seats : ~ready'[t]
      BY DEF SoftReset, NobodyReady
    <2> QED
      BY <1>1, <2>1, LeadingNow
  <1>4. Seating'
    BY Parts, SeatingReset DEF SoftReset
  <1> QED
    BY <1>2, <1>3, <1>4 DEF RoomInv

\* Seats, sockets and sessions are left alone.
LEMMA StayingKeeps ==
  ASSUME RoomInv, UNCHANGED SeatVars,
         ready' \in [Seats -> BOOLEAN], phase' \in Phases, dealt' \in BOOLEAN,
         host' = None \/ host' \in Humans(seats),
         \A t \in Seats : ready'[t] => t \in Occupied(seats),
         HostTimerIsCurrent'
  PROVE  RoomInv'
  <1>1. TypeOK'
    <2>1. host' \in Seats \cup {None}
      BY DEF Humans
    <2> QED
      BY <2>1, Types, TypesNow DEF SeatVars
  <1>2. Leading'
    BY LeadingNow DEF SeatVars
  <1>3. Seating'
    BY Parts, SeatingStays
  <1> QED
    BY <1>1, <1>2, <1>3 DEF RoomInv

-----------------------------------------------------------------------------
(* Connections. *)

\* The seat behind a socket that acts.
LEMMA SeatOfSocket ==
  ASSUME RoomInv, NEW k \in Sockets, Sits(k)
  PROVE  bound[k] \in Humans(seats) /\ bound[k] \in Seats /\ seats[bound[k]].socket = k
  BY Types, Parts DEF Sits, BoundSocketOwnsSeat, Humans

LEMMA ConnectKeeps ==
  ASSUME RoomInv, NEW k \in Sockets, Connect(k)
  PROVE  RoomInv'
  <1>1. /\ UNCHANGED <<seats, ready, host, phase, dealt, hostTimer, bound, login, session>>
        /\ open' = open \cup {k} /\ k \notin open
    BY DEF Connect
  <1>2. HostTimerIsCurrent'
    BY <1>1, Parts, UntouchedIsCurrent
  <1>3. TypeOK'
    BY <1>1, <1>2, Types, TypesNow
  <1>4. Leading'
    BY <1>1, <1>2, Parts, LeadingNow DEF HostIsSeated, NobodyInheritsReady
  <1>5. Seating'
    <2>1. SessionIffSeated' /\ LostSeatIsHeld' /\ OthersAreBare'
      BY <1>1, Parts DEF SessionIffSeated, LostSeatIsHeld, OthersAreBare, Humans
    <2>2. SocketIsBound' /\ BoundIsOpen'
      BY <1>1, Parts DEF SocketIsBound, BoundIsOpen
    <2>3. BoundSocketOwnsSeat'
      <3>1. bound[k] = None
        BY <1>1, Parts DEF BoundIsOpen
      <3> QED
        BY <1>1, <3>1, Parts DEF BoundSocketOwnsSeat
    <2> QED
      BY <2>1, <2>2, <2>3 DEF Seating
  <1> QED
    BY <1>3, <1>4, <1>5 DEF RoomInv

LEMMA DisconnectKeeps ==
  ASSUME RoomInv, NEW k \in Sockets, Disconnect(k)
  PROVE  RoomInv'
  <1>1. /\ UNCHANGED <<ready, host, phase, dealt, login, session>>
        /\ open' = open \ {k} /\ bound' = [bound EXCEPT ![k] = None] /\ k \in open
    BY DEF Disconnect
  <1>2. \A j \in Sockets : bound'[j] = IF j = k THEN None ELSE bound[j]
    BY <1>1, Types
  \* Either the socket had a seat, which is held now, or no seat changes.
  <1>3. \A t \in Seats :
          IF Sits(k) /\ t = bound[k]
          THEN /\ seats'[t].kind = seats[t].kind /\ seats'[t].player = seats[t].player
               /\ seats'[t].socket = None /\ seats'[t].hold = TRUE
          ELSE seats'[t] = seats[t]
    <2>1. CASE Sits(k)
      <3>1. bound[k] \in Seats /\ seats' = Lost(seats, bound[k])
        BY <2>1, SeatOfSocket DEF Disconnect
      <3>2. PICK b \in Seats : b = bound[k]
        BY <3>1
      <3> DEFINE r == [seats[b] EXCEPT !.socket = None, !.hold = TRUE]
      <3>3. seats[b] \in SeatRecord
        BY Types
      <3>4. r.kind = seats[b].kind /\ r.player = seats[b].player /\ r.socket = None /\ r.hold = TRUE
        BY <3>3 DEF SeatRecord
      <3>5. seats' = [seats EXCEPT ![b] = r]
        BY <3>1, <3>2, <3>3, Types DEF Lost, SeatRecord
      <3> HIDE DEF r
      <3> QED
        BY <2>1, <3>2, <3>4, <3>5, Types
    <2>2. CASE ~Sits(k)
      <3>1. seats' = seats
        BY <2>2 DEF Disconnect
      <3> QED
        BY <2>2, <3>1
    <2> QED
      BY <2>1, <2>2
  <1>4. seats' \in [Seats -> SeatRecord]
    <2>1. CASE Sits(k)
      <3>1. bound[k] \in Seats /\ seats' = Lost(seats, bound[k])
        BY <2>1, SeatOfSocket DEF Disconnect
      <3>2. PICK b \in Seats : b = bound[k]
        BY <3>1
      <3>3. PICK st \in [Seats -> SeatRecord] : st = seats
        BY Types
      <3>4. Lost(st, b) \in [Seats -> SeatRecord]
        BY LostFields
      <3> QED
        BY <3>1, <3>2, <3>3, <3>4
    <2>2. CASE ~Sits(k)
      BY <2>2, Types DEF Disconnect
    <2> QED
      BY <2>1, <2>2
  <1>5. Humans(seats') = Humans(seats) /\ Occupied(seats') = Occupied(seats)
    BY <1>3 DEF Humans, Occupied
  <1>6. HostTimerIsCurrent'
    <2>1. CASE phase = "waiting"
      BY <2>1, RefreshedIsCurrent DEF Disconnect
    <2>2. CASE phase # "waiting"
      <3>1. hostTimer' = hostTimer
        BY <2>2 DEF Disconnect
      <3> QED
        BY <2>2, <3>1, Parts, UntouchedIsCurrent
    <2> QED
      BY <2>1, <2>2
  <1>7. TypeOK'
    <2>1. bound' \in [Sockets -> Seats \cup {None}] /\ open' \subseteq Sockets
      BY <1>1, Types
    <2> QED
      BY <1>1, <1>4, <1>6, <2>1, Types, TypesNow
  <1>8. Leading'
    BY <1>1, <1>5, <1>6, Parts, LeadingNow DEF HostIsSeated, NobodyInheritsReady
  <1>9. Seating'
    <2>1. SessionIffSeated'
      BY <1>1, <1>3, Parts DEF SessionIffSeated
    <2>2. LostSeatIsHeld' /\ OthersAreBare'
      BY <1>3, <1>5, Parts DEF LostSeatIsHeld, OthersAreBare, Humans
    <2>3. BoundIsOpen'
      BY <1>1, <1>2, Parts DEF BoundIsOpen
    <2>4. BoundSocketOwnsSeat'
      <3> SUFFICES ASSUME NEW j \in open', bound'[j] # None
                   PROVE  seats'[bound'[j]].kind = "human" /\ seats'[bound'[j]].socket = j
        BY DEF BoundSocketOwnsSeat
      <3>1. j \in open /\ j \in Sockets /\ j # k /\ bound'[j] = bound[j]
        BY <1>1, <1>2, Types
      <3>2. bound[j] \in Seats /\ seats[bound[j]].kind = "human" /\ seats[bound[j]].socket = j
        BY <3>1, Parts, Types DEF BoundSocketOwnsSeat
      <3>3. Sits(k) => bound[j] # bound[k]
        BY <3>1, <3>2, SeatOfSocket
      <3>4. seats'[bound[j]] = seats[bound[j]]
        BY <1>3, <3>2, <3>3
      <3> QED
        BY <3>1, <3>2, <3>4
    <2>5. SocketIsBound'
      <3> SUFFICES ASSUME NEW t \in Seats, seats'[t].socket \in Sockets
                   PROVE  seats'[t].socket \in open' /\ bound'[seats'[t].socket] = t
        BY DEF SocketIsBound
      <3>1. ~(Sits(k) /\ t = bound[k]) /\ seats'[t] = seats[t]
        BY <1>3, Distinct
      <3>2. seats[t].socket \in open /\ bound[seats[t].socket] = t
        BY <3>1, Parts DEF SocketIsBound
      <3>3. seats[t].socket # k
        BY <1>1, <3>1, <3>2, Distinct DEF Sits
      <3> QED
        BY <1>1, <1>2, <3>1, <3>2, <3>3
    <2> QED
      BY <2>1, <2>2, <2>3, <2>4, <2>5 DEF Seating
  <1> QED
    BY <1>7, <1>8, <1>9 DEF RoomInv

\* A password to check changes nothing about who sits where.
LEMMA LoginKeeps ==
  ASSUME RoomInv, NEW k \in Sockets,
         LoginFails(k) \/ \E p \in Accounts : LoginStart(k, p)
  PROVE  RoomInv'
  <1>1. UNCHANGED <<seats, ready, host, phase, dealt, hostTimer, open, bound, session>>
    BY DEF LoginFails, LoginStart
  <1>2. /\ login' \in [Sockets -> Accounts \cup {None}]
        /\ \A j \in Sockets : \/ login'[j] = login[j]
                              \/ login'[j] = None
                              \/ bound[j] = None /\ j \notin AdminSockets
    BY Types DEF LoginFails, LoginStart
  <1>3. HostTimerIsCurrent'
    BY <1>1, Parts, UntouchedIsCurrent
  <1>4. TypeOK'
    BY <1>1, <1>2, <1>3, Types, TypesNow
  <1>5. Leading'
    BY <1>1, <1>3, Parts, LeadingNow DEF HostIsSeated, NobodyInheritsReady
  <1>6. Seating'
    <2>1. BoundIsOpen'
      BY <1>1, <1>2, Parts DEF BoundIsOpen
    <2>2. /\ SessionIffSeated' /\ LostSeatIsHeld' /\ OthersAreBare' /\ SocketIsBound'
          /\ BoundSocketOwnsSeat'
      BY <1>1, Parts DEF SessionIffSeated, LostSeatIsHeld, OthersAreBare, Humans, SocketIsBound,
                         BoundSocketOwnsSeat
    <2> QED
      BY <2>1, <2>2 DEF Seating
  <1> QED
    BY <1>4, <1>5, <1>6 DEF RoomInv

\* The player of a session, the player of an own seat and a newcomer each come
\* to a seat of a socket that has none.
LEMMA ResumeKeeps ==
  ASSUME RoomInv, NEW k \in Sockets, NEW p \in Players, ResumeSession(k, p)
  PROVE  RoomInv'
  <1>1. PICK s \in Seats : s = session[p]
    BY Types DEF ResumeSession
  <1>2. /\ bound[k] = None /\ seats' = Attached(seats, s, k, p)
        /\ open' = open \ ({seats[s].socket} \ {k})
        /\ bound' = [j \in Sockets |-> IF j = k /\ k \in open THEN s
                                       ELSE IF j = seats[s].socket THEN None ELSE bound[j]]
        /\ UNCHANGED <<ready, host, phase, dealt>> /\ RefreshHostTimer
    BY <1>1 DEF ResumeSession, SwitchSocket
  <1>3. session' = [RevokeBySeat(s) EXCEPT ![p] = s]
    <2>1. \A q \in Players : session[q] = s => q = p
      BY <1>1, Parts DEF SessionIffSeated
    <2>2. \A q \in Players : [RevokeBySeat(s) EXCEPT ![p] = s][q] = session[q]
      BY <1>1, <2>1 DEF RevokeBySeat
    <2>3. session \in [Players -> Seats \cup {None}] /\ session' = session
      BY Types DEF ResumeSession
    <2>4. [RevokeBySeat(s) EXCEPT ![p] = s] \in [Players -> Seats \cup {None}]
      BY <2>3 DEF RevokeBySeat
    <2> QED
      BY <2>2, <2>3, <2>4
  <1>4. login' = [login EXCEPT ![k] = None]
    <2>1. login' = login /\ login[k] = None
      BY DEF ResumeSession
    <2> QED
      BY <2>1, Types
  <1> QED
    BY <1>1, <1>2, <1>3, <1>4, TakenKeeps

LEMMA OwnSeatKeeps ==
  ASSUME RoomInv, NEW k \in Sockets, LoginToOwnSeat(k)
  PROVE  RoomInv'
  <1>1. PICK s \in Seats :
          /\ seats[s].kind = "human" /\ login[k] # None /\ seats[s].player = login[k]
          /\ SwitchSocket(s, k, login[k])
          /\ session' = [RevokeBySeat(s) EXCEPT ![login[k]] = s]
          /\ login' = [login EXCEPT ![k] = None]
          /\ UNCHANGED <<ready, host, phase, dealt>> /\ RefreshHostTimer
    BY DEF LoginToOwnSeat, Humans
  <1>3. PICK p \in Players : p = login[k]
    BY <1>1, Types, Distinct
  <1>4. session[p] = s /\ bound[k] = None
    BY <1>1, <1>3, Parts DEF SessionIffSeated, BoundIsOpen
  <1>5. /\ seats' = Attached(seats, s, k, p)
        /\ open' = open \ ({seats[s].socket} \ {k})
        /\ bound' = [j \in Sockets |-> IF j = k /\ k \in open THEN s
                                       ELSE IF j = seats[s].socket THEN None ELSE bound[j]]
        /\ session' = [RevokeBySeat(s) EXCEPT ![p] = s]
    BY <1>1, <1>3 DEF SwitchSocket
  <1>6. /\ login' = [login EXCEPT ![k] = None]
        /\ UNCHANGED <<ready, host, phase, dealt>> /\ RefreshHostTimer
    BY <1>1
  <1> QED
    BY <1>4, <1>5, <1>6, TakenKeeps

LEMMA FreeSeatKeeps ==
  ASSUME RoomInv, NEW k \in Sockets, LoginToFreeSeat(k)
  PROVE  RoomInv'
  <1>1. PICK s \in Seats : s = FirstOf(Seats \ Occupied(seats)) /\ s \notin Occupied(seats)
    BY FirstOfSeats DEF LoginToFreeSeat
  <1>2. s \notin Occupied(seats)
    BY <1>1
  <1>3. seats[s].kind = "empty" /\ seats[s].socket = None
    BY <1>2, Types, Parts, RecordFields DEF Occupied, OthersAreBare
  <1>4. PICK p \in Players : p = login[k]
    BY Types, Distinct DEF LoginToFreeSeat
  <1>5. /\ login[k] # None /\ \A t \in Humans(seats) : seats[t].player # p
        /\ seats' = Attached(seats, s, k, p)
        /\ bound' = IF k \in open THEN [bound EXCEPT ![k] = s] ELSE bound
        /\ session' = [RevokeBySeat(s) EXCEPT ![p] = s]
        /\ login' = [login EXCEPT ![k] = None]
        /\ UNCHANGED <<ready, host, phase, dealt, open>> /\ RefreshHostTimer
    BY <1>1, <1>4 DEF LoginToFreeSeat
  <1>6. session[p] = None
    BY <1>5, Parts, Types DEF SessionIffSeated, Humans
  <1>7. bound[k] = None
    BY <1>5, Parts DEF BoundIsOpen
  <1>8. open' = open \ ({seats[s].socket} \ {k})
    BY <1>3, <1>5, Types, Distinct
  <1>9. bound' = [j \in Sockets |-> IF j = k /\ k \in open THEN s
                                    ELSE IF j = seats[s].socket THEN None ELSE bound[j]]
    BY <1>3, <1>5, Types, Distinct
  <1>10. session[p] \in {s, None}
    BY <1>6
  <1> QED
    BY <1>5, <1>10, <1>7, <1>8, <1>9, TakenKeeps

-----------------------------------------------------------------------------
(* Leaving, wanted and unwanted. *)

LEMMA LeaveKeeps ==
  ASSUME RoomInv, NEW k \in Sockets, PlayerLeave(k)
  PROVE  RoomInv'
  <1>1. PICK s \in Seats : s = bound[k]
    BY SeatOfSocket DEF PlayerLeave
  <1>2. seats[s].socket = k
    BY <1>1, SeatOfSocket DEF PlayerLeave
  <1>3. /\ phase' = IF phase \in {"discussion", "placing"} THEN "result" ELSE phase
        /\ host' = HostWithout(s) /\ seats' = Released(seats, s)
        /\ ready' = [ready EXCEPT ![s] = FALSE] /\ session' = RevokeBySeat(s)
        /\ bound' = [bound EXCEPT ![k] = None]
        /\ UNCHANGED <<dealt, open, login>> /\ RefreshHostTimer
    BY <1>1 DEF PlayerLeave
  <1>4. Vacated(seats, seats', s)
    BY <1>3, Types, ReleasedVacates
  <1>5. bound' = [j \in Sockets |-> IF j = seats[s].socket THEN None ELSE bound[j]]
    BY <1>2, <1>3, Types
  <1>6. host' = None \/ host' \in Humans(seats) \ {s}
    BY <1>3, Parts, HostWithoutSeat
  <1>7. /\ ready' \in [Seats -> BOOLEAN]
        /\ \A t \in Seats : ready'[t] => ready[t] /\ t # s
    BY <1>3, Types
  <1>8. phase' \in Phases /\ dealt' \in BOOLEAN
    BY <1>3, Types DEF Phases
  <1> QED
    BY <1>3, <1>4, <1>5, <1>6, <1>7, <1>8, VacatedKeeps

\* A session of the player in a seat is a session for this seat.
LEMMA SessionsOfSeat ==
  ASSUME RoomInv, NEW s \in Seats
  PROVE  /\ seats[s].kind = "human" =>
              RevokeBySeat(s) = [session EXCEPT ![seats[s].player] = None]
         /\ seats[s].kind # "human" => RevokeBySeat(s) = session
  <1>1. session \in [Players -> Seats \cup {None}]
    BY Types
  <1>2. \A p \in Players : session[p] = s <=> seats[s].kind = "human" /\ seats[s].player = p
    BY Parts DEF SessionIffSeated
  <1>3. CASE seats[s].kind # "human"
    <2>1. \A p \in Players : session[p] # s
      BY <1>2, <1>3
    <2> QED
      BY <1>1, <1>3, <2>1 DEF RevokeBySeat
  <1>4. CASE seats[s].kind = "human"
    BY <1>1, <1>2, <1>4 DEF RevokeBySeat
  <1> QED
    BY <1>3, <1>4

LEMMA RemoveAgentKeeps ==
  ASSUME RoomInv, NEW k \in Sockets, NEW s \in Seats, HostRemoveAgent(k, s)
  PROVE  RoomInv'
  <1>1. /\ s \in AgentSeats(seats) /\ seats' = Released(seats, s)
        /\ ready' = [ready EXCEPT ![s] = FALSE]
        /\ UNCHANGED <<host, phase, dealt, open, bound, login, session>> /\ RefreshHostTimer
    BY DEF HostRemoveAgent
  <1>2. seats[s].kind = "agent" /\ seats[s].kind # "human"
    BY <1>1 DEF AgentSeats
  <1>3. session' = RevokeBySeat(s)
    BY <1>1, <1>2, SessionsOfSeat
  <1>4. Vacated(seats, seats', s)
    BY <1>1, Types, ReleasedVacates
  <1>5. bound' = [j \in Sockets |-> IF j = seats[s].socket THEN None ELSE bound[j]]
    <2>1. seats[s].socket = None
      BY <1>2, Parts DEF OthersAreBare
    <2> QED
      BY <1>1, <2>1, Types, Distinct
  <1>6. host' = None \/ host' \in Humans(seats) \ {s}
    BY <1>1, <1>2, Parts DEF HostIsSeated, Humans
  <1>7. /\ ready' \in [Seats -> BOOLEAN]
        /\ \A t \in Seats : ready'[t] => ready[t] /\ t # s
    BY <1>1, Types
  <1>8. phase' \in Phases /\ dealt' \in BOOLEAN
    BY <1>1, Types
  <1> QED
    BY <1>1, <1>3, <1>4, <1>5, <1>6, <1>7, <1>8, VacatedKeeps

\* Who is cut off is unbound; the rest of a kick is a seat given up.
LEMMA KickKeeps ==
  ASSUME RoomInv, NEW k \in Sockets, NEW s \in Seats, AdminKickPlayer(k, s)
  PROVE  RoomInv'
  <1>1. /\ k \in open /\ s # bound[k] /\ seats' = Released(seats, s)
        /\ ready' = IF phase = "waiting" THEN [ready EXCEPT ![s] = FALSE] ELSE NobodyReady
        /\ host' = IF bound[k] # None THEN bound[k] ELSE HostWithout(s)
        /\ phase' = "waiting" /\ dealt' = FALSE /\ session' = RevokeBySeat(s)
        /\ CutOff(s) /\ login' = login /\ RefreshHostTimer
    BY DEF AdminKickPlayer
  <1>2. Vacated(seats, seats', s)
    BY <1>1, Types, ReleasedVacates
  <1>3. host' = None \/ host' \in Humans(seats) \ {s}
    <2>1. CASE bound[k] # None
      <3>1. bound[k] \in Humans(seats)
        BY <1>1, <2>1, SeatOfSocket DEF Sits
      <3> QED
        BY <1>1, <2>1, <3>1
    <2>2. CASE bound[k] = None
      BY <1>1, <2>2, Parts, HostWithoutSeat
    <2> QED
      BY <2>1, <2>2
  <1>4. /\ ready' \in [Seats -> BOOLEAN]
        /\ \A t \in Seats : ready'[t] => ready[t] /\ t # s
    BY <1>1, Types DEF NobodyReady
  <1>5. /\ bound' = [j \in Sockets |-> IF j = seats[s].socket THEN None ELSE bound[j]]
        /\ open' = open \ {seats[s].socket}
    BY <1>1 DEF CutOff
  <1>6. phase' \in Phases /\ dealt' \in BOOLEAN
    BY <1>1 DEF Phases
  <1> QED
    BY <1>1, <1>2, <1>3, <1>4, <1>5, <1>6, VacatedKeeps

LEMMA RemovePresenceKeeps ==
  ASSUME RoomInv, NEW k \in Sockets, NEW p \in Accounts, RemoveAccountPresence(k, p)
  PROVE  RoomInv'
  <1>1. PICK s \in Seats :
          /\ seats[s].kind = "human" /\ seats[s].player = p
          /\ ready' = [r \in Seats |-> r # s /\ phase = "waiting" /\ ready[r]]
          /\ phase' = "waiting" /\ dealt' = FALSE /\ host' = HostWithout(s)
          /\ seats' = Released(seats, s) /\ CutOff(s)
    BY DEF RemoveAccountPresence, Humans
  <1>2. session' = RevokeBySeat(s) /\ login' = login /\ RefreshHostTimer
    <2>1. session' = [session EXCEPT ![p] = None] /\ login' = login /\ RefreshHostTimer
      BY DEF RemoveAccountPresence
    <2>2. RevokeBySeat(s) = [session EXCEPT ![seats[s].player] = None]
      BY <1>1, SessionsOfSeat
    <2> QED
      BY <1>1, <2>1, <2>2
  <1>3. Vacated(seats, seats', s)
    BY <1>1, Types, ReleasedVacates
  <1>4. host' = None \/ host' \in Humans(seats) \ {s}
    BY <1>1, Parts, HostWithoutSeat
  <1>5. /\ ready' \in [Seats -> BOOLEAN]
        /\ \A t \in Seats : ready'[t] => ready[t] /\ t # s
    BY <1>1, Types
  <1>6. /\ bound' = [j \in Sockets |-> IF j = seats[s].socket THEN None ELSE bound[j]]
        /\ open' = open \ {seats[s].socket}
    BY <1>1 DEF CutOff
  <1>7. phase' \in Phases /\ dealt' \in BOOLEAN
    BY <1>1 DEF Phases
  <1> QED
    BY <1>2, <1>3, <1>4, <1>5, <1>6, <1>7, VacatedKeeps

\* A seat that is held has no socket, so nobody is bound to it.
LEMMA HoldKeeps ==
  ASSUME RoomInv, NEW s \in Seats, HoldExpires(s)
  PROVE  RoomInv'
  <1>1. /\ seats[s].hold /\ seats[s].socket = None
        /\ UNCHANGED <<open, login>>
    BY Parts DEF HoldExpires, OthersAreBare
  <1>2. CASE phase \in {"discussion", "placing", "reveal"}
    <2>1. SoftReset /\ bound' = Unbound /\ hostTimer' = None
      BY <1>2 DEF HoldExpires, EndGameAndResetRoom
    <2>2. open' = open /\ login' = login
      BY <1>1
    <2> QED
      BY <2>1, <2>2, ResetKeeps
  <1>3. CASE /\ phase \notin {"discussion", "placing", "reveal"}
             /\ phase = "waiting" /\ Occupied(seats) \subseteq {s}
    <2>1. SoftReset /\ RefreshHostTimer /\ bound' = bound
      BY <1>3 DEF HoldExpires
    <2>2. \A k \in Sockets : bound[k] = None
      <3> SUFFICES ASSUME NEW k \in Sockets, bound[k] # None PROVE FALSE
        OBVIOUS
      <3>1. Sits(k)
        BY Parts DEF Sits, BoundIsOpen
      <3>2. bound[k] \in Seats /\ seats[bound[k]].kind = "human" /\ seats[bound[k]].socket = k
        BY <3>1, SeatOfSocket DEF Humans
      <3>3. bound[k] = s
        BY <1>3, <3>2 DEF Occupied
      <3> QED
        BY <1>1, <3>2, <3>3, Distinct
    <2> QED
      BY <1>1, <2>1, <2>2, ResetKeeps
  <1>4. CASE /\ phase \notin {"discussion", "placing", "reveal"}
             /\ ~(phase = "waiting" /\ Occupied(seats) \subseteq {s})
    <2>1. /\ seats' = [seats EXCEPT ![s] = FreshSeat] /\ host' = HostWithout(s)
          /\ ready' = [ready EXCEPT ![s] = FALSE] /\ session' = RevokeBySeat(s)
          /\ phase' = "waiting" /\ dealt' = FALSE /\ RefreshHostTimer /\ bound' = bound
      BY <1>4 DEF HoldExpires
    <2>2. Vacated(seats, seats', s)
      BY <2>1, Types, FreshVacates
    <2>3. host' = None \/ host' \in Humans(seats) \ {s}
      BY <2>1, Parts, HostWithoutSeat
    <2>4. /\ ready' \in [Seats -> BOOLEAN]
          /\ \A t \in Seats : ready'[t] => ready[t] /\ t # s
      BY <2>1, Types
    <2>5. bound' = [j \in Sockets |-> IF j = seats[s].socket THEN None ELSE bound[j]]
      BY <1>1, <2>1, Types, Distinct
    <2>6. phase' \in Phases /\ dealt' \in BOOLEAN
      BY <2>1 DEF Phases
    <2>7. /\ session' = RevokeBySeat(s) /\ RefreshHostTimer
          /\ open' = open /\ login' = login
      BY <1>1, <2>1
    <2> QED
      BY <2>2, <2>3, <2>4, <2>5, <2>6, <2>7, VacatedKeeps
  <1> QED
    BY <1>2, <1>3, <1>4

LEMMA HostTimerKeeps ==
  ASSUME RoomInv, HostTimerFires
  PROVE  RoomInv'
  <1>1. hostTimer' = None /\ UNCHANGED <<phase, dealt, open, login>>
    BY DEF HostTimerFires
  <1>2. CASE host = hostTimer /\ AllConnectedPlayersReady
    <2>1. PICK s \in Seats : s = host
      BY <1>2, Parts, Types DEF HostTimerFires
    <2>2. /\ host' = None \/ host' \in Connected(seats) \ {s}
          /\ seats' = Released(seats, s) /\ ready' = [ready EXCEPT ![s] = FALSE]
          /\ session' = RevokeBySeat(s)
          /\ bound' = [k \in Sockets |-> IF k = seats[s].socket THEN None ELSE bound[k]]
      BY <1>2, <2>1 DEF HostTimerFires
    <2>3. Vacated(seats, seats', s)
      BY <2>2, Types, ReleasedVacates
    <2>4. host' = None \/ host' \in Humans(seats) \ {s}
      BY <2>2 DEF Connected
    <2>5. /\ ready' \in [Seats -> BOOLEAN]
          /\ \A t \in Seats : ready'[t] => ready[t] /\ t # s
      BY <2>2, Types
    <2>6. phase' \in Phases /\ dealt' \in BOOLEAN
      BY <1>1, Types
    <2> QED
      BY <1>1, <2>2, <2>3, <2>4, <2>5, <2>6, VacatedKeeps
  <1>3. CASE ~(host = hostTimer /\ AllConnectedPlayersReady)
    <2>1. UNCHANGED <<host, seats, ready, session, bound>>
      BY <1>3 DEF HostTimerFires
    <2> QED
      BY <1>1, <2>1, Types, Parts, RefreshedIsCurrent, StayingKeeps
         DEF SeatVars, HostIsSeated, NobodyInheritsReady
  <1> QED
    BY <1>2, <1>3

-----------------------------------------------------------------------------
(* The lobby and the phases of a game. *)

LEMMA ReadyKeeps ==
  ASSUME RoomInv, NEW k \in Sockets, PlayerReady(k)
  PROVE  RoomInv'
  <1>1. PICK s \in Seats : s = bound[k] /\ s \in Humans(seats)
    BY SeatOfSocket DEF PlayerReady
  <1>2. /\ ready' = [ready EXCEPT ![s] = ~@]
        /\ host' = IF ready'[s] /\ host = None THEN s ELSE host
        /\ UNCHANGED <<seats, phase, dealt, open, bound, login, session>> /\ RefreshHostTimer
    BY <1>1 DEF PlayerReady
  <1>3. s \in Occupied(seats)
    BY <1>1 DEF Humans, Occupied
  <1>4. /\ ready' \in [Seats -> BOOLEAN]
        /\ \A t \in Seats : ready'[t] => t \in Occupied(seats)
    BY <1>2, <1>3, Types, Parts DEF NobodyInheritsReady
  <1>5. host' = None \/ host' \in Humans(seats)
    BY <1>1, <1>2, Parts DEF HostIsSeated
  <1>6. UNCHANGED SeatVars /\ phase' \in Phases /\ dealt' \in BOOLEAN
    BY <1>2, Types DEF SeatVars
  <1> QED
    BY <1>2, <1>4, <1>5, <1>6, RefreshedIsCurrent, StayingKeeps

LEMMA AddAgentKeeps ==
  ASSUME RoomInv, NEW k \in Sockets, HostAddAgent(k)
  PROVE  RoomInv'
  <1>1. PICK s \in Seats : s = FirstOf(Seats \ Occupied(seats)) /\ s \notin Occupied(seats)
    BY FirstOfSeats DEF HostAddAgent
  <1> DEFINE r == [FreshSeat EXCEPT !.kind = "agent"]
  <1>2. r.kind = "agent" /\ r.player = None /\ r.socket = None /\ r.hold = FALSE /\ r \in SeatRecord
    BY DEF FreshSeat, SeatRecord
  <1>3. /\ seats' = [seats EXCEPT ![s] = r] /\ ready' = [ready EXCEPT ![s] = TRUE]
        /\ UNCHANGED <<host, phase, dealt, open, bound, login, session>> /\ RefreshHostTimer
    BY <1>1 DEF HostAddAgent
  <1> HIDE DEF r
  <1>4. seats[s].kind = "empty"
    BY <1>1 DEF Occupied
  <1>5. /\ seats' \in [Seats -> SeatRecord] /\ \A t \in Seats \ {s} : seats'[t] = seats[t]
        /\ seats'[s].kind = "agent" /\ seats'[s].player = None
        /\ seats'[s].socket = None /\ seats'[s].hold = FALSE
    BY <1>2, <1>3, Types
  <1>6. Humans(seats') = Humans(seats) /\ Occupied(seats) \subseteq Occupied(seats')
    BY <1>4, <1>5 DEF Humans, Occupied
  <1>7. HostTimerIsCurrent'
    BY <1>3, RefreshedIsCurrent
  <1>8. TypeOK'
    <2>1. ready' \in [Seats -> BOOLEAN]
      BY <1>3, Types
    <2> QED
      BY <1>3, <1>5, <1>7, <2>1, Types, TypesNow
  <1>9. Leading'
    <2>1. host' # None => host' \in Humans(seats')
      BY <1>3, <1>6, Parts DEF HostIsSeated
    <2>2. \A t \in Seats : ready'[t] => t \in Occupied(seats')
      <3> SUFFICES ASSUME NEW t \in Seats, ready'[t] PROVE t \in Occupied(seats')
        OBVIOUS
      <3>1. CASE t = s
        BY <1>5, <3>1 DEF Occupied
      <3>2. CASE t # s
        BY <1>3, <1>6, <3>2, Types, Parts DEF NobodyInheritsReady
      <3> QED
        BY <3>1, <3>2
    <2> QED
      BY <1>7, <2>1, <2>2, LeadingNow
  <1>10. Seating'
    <2>1. SessionIffSeated' /\ LostSeatIsHeld' /\ OthersAreBare'
      BY <1>3, <1>4, <1>5, <1>6, Parts
         DEF SessionIffSeated, LostSeatIsHeld, OthersAreBare, Humans
    <2>2. BoundIsOpen'
      BY <1>3, Parts DEF BoundIsOpen
    <2>3. SocketIsBound'
      BY <1>3, <1>5, Distinct, Parts DEF SocketIsBound
    <2>4. BoundSocketOwnsSeat'
      <3> SUFFICES ASSUME NEW j \in open, bound[j] # None
                   PROVE  seats'[bound[j]].kind = "human" /\ seats'[bound[j]].socket = j
        BY <1>3 DEF BoundSocketOwnsSeat
      <3>1. bound[j] \in Seats /\ seats[bound[j]].kind = "human" /\ seats[bound[j]].socket = j
        BY Types, Parts DEF BoundSocketOwnsSeat
      <3> QED
        BY <1>4, <1>5, <3>1
    <2> QED
      BY <2>1, <2>2, <2>3, <2>4 DEF Seating
  <1> QED
    BY <1>8, <1>9, <1>10 DEF RoomInv

\* The phases of a game move without a seat, a host or a flag being touched,
\* and with the host's clock stopped or not running.
PhaseMoves ==
  /\ UNCHANGED <<seats, ready, host, open, bound, login, session>>
  /\ phase' \in Phases /\ dealt' \in BOOLEAN
  /\ hostTimer' = None \/ (hostTimer' = hostTimer /\ phase # "waiting")

LEMMA PhaseKeeps ==
  ASSUME RoomInv, PhaseMoves
  PROVE  RoomInv'
  <1>1. HostTimerIsCurrent'
    BY Parts, RefreshedIsCurrent, UntouchedIsCurrent DEF PhaseMoves
  <1>2. host' = None \/ host' \in Humans(seats)
    BY Parts DEF PhaseMoves, HostIsSeated
  <1>3. \A t \in Seats : ready'[t] => t \in Occupied(seats)
    BY Parts DEF PhaseMoves, NobodyInheritsReady
  <1>4. /\ UNCHANGED SeatVars /\ ready' \in [Seats -> BOOLEAN]
        /\ phase' \in Phases /\ dealt' \in BOOLEAN
    BY Types DEF PhaseMoves, SeatVars
  <1> QED
    BY <1>1, <1>2, <1>3, <1>4, StayingKeeps

LEMMA PhasesMove ==
  ASSUME RoomInv,
         \/ \E k \in Sockets : \/ GameStart(k) \/ HostBackToLevelSelect(k)
                             \/ HostSelectLevel(k) \/ ContinueToResult(k)
         \/ AutoSelectRandomLevel \/ BeginPlacement \/ PlacingEnds
  PROVE  PhaseMoves
  <1>1. ASSUME NEW k \in Sockets, GameStart(k)
        PROVE  PhaseMoves
    BY <1>1, Types DEF PhaseMoves, GameStart, Phases
  <1>2. ASSUME NEW k \in Sockets, HostBackToLevelSelect(k)
        PROVE  PhaseMoves
    BY <1>2, Types DEF PhaseMoves, HostBackToLevelSelect, Phases
  <1>3. ASSUME NEW k \in Sockets, HostSelectLevel(k)
        PROVE  PhaseMoves
    BY <1>3, Types DEF PhaseMoves, HostSelectLevel, EnterDiscussion, Phases
  <1>4. ASSUME NEW k \in Sockets, ContinueToResult(k)
        PROVE  PhaseMoves
    BY <1>4, Types DEF PhaseMoves, ContinueToResult, Phases
  <1>5. CASE AutoSelectRandomLevel \/ PlacingEnds
    BY <1>5, Types DEF PhaseMoves, AutoSelectRandomLevel, PlacingEnds, EnterDiscussion, Phases
  <1>6. CASE BeginPlacement
    <2>1. dealt' = (Cardinality(Occupied(seats)) >= 2)
      BY <1>6 DEF BeginPlacement
    <2>2. dealt' \in BOOLEAN
      BY <2>1
    <2> QED
      BY <1>6, <2>2 DEF PhaseMoves, BeginPlacement, Phases
  <1> QED
    BY <1>1, <1>2, <1>3, <1>4, <1>5, <1>6

LEMMA GameEndKeeps ==
  ASSUME RoomInv, NEW k \in Sockets, GameEnd(k)
  PROVE  RoomInv'
  <1>1. /\ UNCHANGED <<seats, open, bound, login, session>> /\ host' = None
        /\ ready' = AgentsReady /\ hostTimer' = None
    BY DEF GameEnd
  <1>2. /\ ready' \in [Seats -> BOOLEAN]
        /\ \A t \in Seats : ready'[t] => t \in Occupied(seats)
    BY <1>1 DEF AgentsReady, Occupied
  <1>3. UNCHANGED SeatVars /\ phase' \in Phases /\ dealt' \in BOOLEAN
    BY Types DEF SeatVars, GameEnd, Phases
  <1> QED
    BY <1>1, <1>2, <1>3, RefreshedIsCurrent, StayingKeeps

-----------------------------------------------------------------------------
(* The admin takes the room. *)

LEMMA SeizeKeeps ==
  ASSUME RoomInv, NEW k \in open \cap AdminSockets, SeizeRoom(k)
  PROVE  RoomInv'
  <1> DEFINE kicked == {seats[s].socket : s \in Seats} \ {k}
  <1>1. k \in Sockets /\ k \in open /\ 1 \in Seats
    BY Types, Distinct
  <1> DEFINE r == [kind |-> "human", player |-> Admin, socket |-> k, hold |-> FALSE]
  <1>2. r \in SeatRecord /\ r.kind = "human" /\ r.player = Admin /\ r.socket = k
        /\ r.hold = FALSE
    BY <1>1, Distinct DEF SeatRecord
  <1>3. /\ seats' = [s \in Seats |-> IF s = 1 THEN r ELSE FreshSeat]
        /\ ready' = NobodyReady /\ host' = 1 /\ phase' = "waiting" /\ dealt' = FALSE
        /\ hostTimer' = None /\ session' = [NoSessions EXCEPT ![Admin] = 1]
        /\ bound' = [Unbound EXCEPT ![k] = 1] /\ open' = open \ kicked /\ login' = login
    BY DEF SeizeRoom
  <1> HIDE DEF r
  <1>4. /\ seats' \in [Seats -> SeatRecord] /\ \A t \in Seats \ {1} : seats'[t] = FreshSeat
        /\ seats'[1].kind = "human" /\ seats'[1].player = Admin /\ seats'[1].socket = k
        /\ seats'[1].hold = FALSE
    BY <1>1, <1>2, <1>3, FreshFields
  <1>5. \A j \in Sockets : bound'[j] = IF j = k THEN 1 ELSE None
    BY <1>3 DEF Unbound
  <1>6. \A p \in Players : session'[p] = IF p = Admin THEN 1 ELSE None
    BY <1>3 DEF NoSessions
  <1>7. k \in open' /\ open' \subseteq open
    BY <1>1, <1>3
  <1> HIDE DEF kicked
  <1>8. HostTimerIsCurrent'
    BY <1>3, RefreshedIsCurrent
  <1>9. TypeOK'
    <2>1. session' \in [Players -> Seats \cup {None}] /\ bound' \in [Sockets -> Seats \cup {None}]
      BY <1>1, <1>3, Distinct DEF NoSessions, Unbound
    <2>2. /\ ready' \in [Seats -> BOOLEAN] /\ host' \in Seats \cup {None}
          /\ phase' \in Phases /\ dealt' \in BOOLEAN /\ open' \subseteq Sockets
          /\ login' \in [Sockets -> Accounts \cup {None}]
      BY <1>1, <1>3, <1>7, Types DEF NobodyReady, Phases
    <2> QED
      BY <1>4, <1>8, <2>1, <2>2, TypesNow
  <1>10. Leading'
    <2>1. host' \in Humans(seats') /\ \A t \in Seats : ~ready'[t]
      BY <1>1, <1>3, <1>4 DEF Humans, NobodyReady
    <2> QED
      BY <1>8, <2>1, LeadingNow
  <1>11. Seating'
    <2>1. SessionIffSeated'
      BY <1>1, <1>4, <1>6, FreshFields, Distinct DEF SessionIffSeated
    <2>2. LostSeatIsHeld' /\ OthersAreBare'
      BY <1>1, <1>4, FreshFields, Distinct DEF LostSeatIsHeld, OthersAreBare, Humans
    <2>3. SocketIsBound'
      BY <1>1, <1>4, <1>5, <1>7, FreshFields, Distinct DEF SocketIsBound
    <2>4. BoundSocketOwnsSeat'
      BY <1>1, <1>4, <1>5, <1>7, Types, Distinct DEF BoundSocketOwnsSeat
    <2>5. BoundIsOpen'
      BY <1>1, <1>3, <1>5, <1>7, Parts, Distinct DEF BoundIsOpen
    <2> QED
      BY <2>1, <2>2, <2>3, <2>4, <2>5 DEF Seating
  <1> QED
    BY <1>9, <1>10, <1>11 DEF RoomInv

-----------------------------------------------------------------------------
(* The theorems. *)

LEMMA InvInitially ==
  ASSUME Init
  PROVE  RoomInv
  <1>1. /\ \A s \in Seats : seats[s] = FreshSeat /\ ~ready[s]
        /\ \A k \in Sockets : bound[k] = None /\ login[k] = None
        /\ \A p \in Players : session[p] = None
        /\ host = None /\ hostTimer = None /\ open = {}
    BY DEF Init, NobodyReady, Unbound, NoSessions
  <1>2. TypeOK
    BY FreshFields DEF Init, TypeOK, NobodyReady, Unbound, NoSessions, Phases
  <1>3. Seating
    BY <1>1, FreshFields, Distinct
       DEF Seating, SessionIffSeated, BoundSocketOwnsSeat, LostSeatIsHeld, SocketIsBound,
           BoundIsOpen, OthersAreBare, Humans
  <1>4. Leading
    BY <1>1 DEF Leading, HostIsSeated, NobodyInheritsReady, HostTimerIsCurrent
  <1> QED
    BY <1>2, <1>3, <1>4 DEF RoomInv

LEMMA StutterKeeps ==
  ASSUME RoomInv, UNCHANGED vars
  PROVE  RoomInv'
  BY Types, Parts, UntouchedIsCurrent, StayingKeeps
     DEF vars, SeatVars, HostIsSeated, NobodyInheritsReady

LEMMA StepKeeps ==
  ASSUME RoomInv, Next
  PROVE  RoomInv'
  <1>1. ASSUME NEW k \in Sockets, Connect(k) \/ Disconnect(k)
        PROVE  RoomInv'
    BY <1>1, ConnectKeeps, DisconnectKeeps
  <1>2. ASSUME NEW k \in Sockets,
               \/ \E p \in Players : ResumeSession(k, p)
               \/ \E p \in Accounts : LoginStart(k, p)
               \/ LoginFails(k) \/ LoginToOwnSeat(k) \/ LoginToFreeSeat(k)
        PROVE  RoomInv'
    BY <1>2, ResumeKeeps, LoginKeeps, OwnSeatKeeps, FreeSeatKeeps
  <1>3. ASSUME NEW k \in Sockets,
               \/ PlayerLeave(k) \/ PlayerReady(k) \/ HostAddAgent(k) \/ GameEnd(k)
               \/ \E s \in Seats : HostRemoveAgent(k, s)
        PROVE  RoomInv'
    BY <1>3, LeaveKeeps, ReadyKeeps, AddAgentKeeps, GameEndKeeps, RemoveAgentKeeps
  <1>4. ASSUME NEW k \in Sockets,
               \/ GameStart(k) \/ HostSelectLevel(k) \/ ContinueToResult(k)
               \/ HostBackToLevelSelect(k)
        PROVE  RoomInv'
    BY <1>4, PhasesMove, PhaseKeeps
  <1>5. ASSUME NEW k \in Sockets, AdminEnterRoom(k) \/ AdminSeizeRoom(k)
        PROVE  RoomInv'
    <2>1. k \in open \cap AdminSockets /\ SeizeRoom(k)
      BY <1>5 DEF AdminEnterRoom, AdminSeizeRoom
    <2> QED
      BY <2>1, SeizeKeeps
  <1>6. ASSUME NEW k \in Sockets,
               \/ \E s \in Seats : AdminKickPlayer(k, s)
               \/ \E p \in Accounts : RemoveAccountPresence(k, p)
        PROVE  RoomInv'
    BY <1>6, KickKeeps, RemovePresenceKeeps
  <1>7. ASSUME NEW s \in Seats, HoldExpires(s)
        PROVE  RoomInv'
    BY <1>7, HoldKeeps
  <1>8. CASE HostTimerFires
    BY <1>8, HostTimerKeeps
  <1>9. CASE AutoSelectRandomLevel \/ BeginPlacement \/ PlacingEnds
    BY <1>9, PhasesMove, PhaseKeeps
  <1> QED
    BY <1>1, <1>2, <1>3, <1>4, <1>5, <1>6, <1>7, <1>8, <1>9 DEF Next

\* The inductive invariant: seats, sockets, sessions and holds fit together
\* between two handlers (socket/registerHandlers.ts).
THEOREM RoomInvariant == Spec => []RoomInv
  <1>1. Init => RoomInv
    BY InvInitially
  <1>2. RoomInv /\ [Next]_vars => RoomInv'
    BY StepKeeps, StutterKeeps
  <1> QED
    BY <1>1, <1>2, PTL DEF Spec

\* The room, the sessions, the sockets and the host tell the same story about
\* who sits where, after any order of logins, takeovers, kicks and timeouts.
THEOREM RoomAgrees == Spec => []SeatsAgree
  <1>1. RoomInv => SeatsAgree
    BY Parts DEF SeatsAgree
  <1> QED
    BY <1>1, RoomInvariant, PTL

\* Who lost the connection has a timeout that will free the seat.
THEOREM LostSeatsAreHeld == Spec => []LostSeatIsHeld
  <1>1. RoomInv => LostSeatIsHeld
    BY Parts
  <1> QED
    BY <1>1, RoomInvariant, PTL

\* Whoever is on the clock is the present host of a lobby that is ready.
THEOREM HostClockIsCurrent == Spec => []HostTimerIsCurrent
  <1>1. RoomInv => HostTimerIsCurrent
    BY Parts
  <1> QED
    BY <1>1, RoomInvariant, PTL

-----------------------------------------------------------------------------
(* What a step in a running game may not do. *)

\* Outside the lobby a socket comes to a seat that is taken only.
LEMMA TakenWasOccupied ==
  ASSUME RoomInv, NEW s \in Seats, NEW k \in Sockets, NEW p \in Players,
         s \in Occupied(seats), seats' = Attached(seats, s, k, p)
  PROVE  Occupied(seats') \subseteq Occupied(seats)
  <1>1. \A t \in Seats \ {s} : seats'[t] = seats[t]
    BY Types DEF Attached
  <1> QED
    BY <1>1 DEF Occupied

LEMMA VacatedWasOccupied ==
  ASSUME RoomInv, NEW s \in Seats,
         seats' = Released(seats, s) \/ seats' = [seats EXCEPT ![s] = FreshSeat]
  PROVE  Occupied(seats') \subseteq Occupied(seats)
  <1>1. Vacated(seats, seats', s)
    BY Types, ReleasedVacates, FreshVacates
  <1> QED
    BY <1>1 DEF Occupied, Vacated

LEMMA NobodySitsDown ==
  ASSUME RoomInv, Next, phase # "waiting", phase' # "waiting"
  PROVE  Occupied(seats') \subseteq Occupied(seats)
  <1>1. ASSUME NEW k \in Sockets, Disconnect(k)
        PROVE  Occupied(seats') \subseteq Occupied(seats)
    <2>1. CASE Sits(k)
      <3>1. bound[k] \in Seats /\ bound[k] \in Humans(seats)
        BY <2>1, SeatOfSocket
      <3>2. \A t \in Seats \ {bound[k]} : seats'[t] = seats[t]
        BY <1>1, <2>1, <3>1, Types DEF Disconnect, Lost
      <3> QED
        BY <3>1, <3>2 DEF Occupied, Humans
    <2>2. CASE ~Sits(k)
      BY <1>1, <2>2 DEF Disconnect
    <2> QED
      BY <2>1, <2>2
  <1>2. ASSUME NEW k \in Sockets, NEW p \in Players, ResumeSession(k, p)
        PROVE  Occupied(seats') \subseteq Occupied(seats)
    <2>1. PICK s \in Seats : s = session[p]
      BY <1>2, Types DEF ResumeSession
    <2>2. seats' = Attached(seats, s, k, p) /\ s \in Occupied(seats)
      BY <1>2, <2>1 DEF ResumeSession, SwitchSocket, Occupied
    <2> QED
      BY <2>2, TakenWasOccupied
  <1>3. ASSUME NEW k \in Sockets, LoginToOwnSeat(k)
        PROVE  Occupied(seats') \subseteq Occupied(seats)
    <2>1. PICK s \in Seats : /\ seats[s].kind = "human" /\ login[k] # None
                             /\ SwitchSocket(s, k, login[k])
      BY <1>3 DEF LoginToOwnSeat, Humans
    <2>2. PICK p \in Players : p = login[k]
      BY <2>1, Types, Distinct
    <2>3. seats' = Attached(seats, s, k, p) /\ s \in Occupied(seats)
      BY <2>1, <2>2 DEF SwitchSocket, Occupied
    <2> QED
      BY <2>3, TakenWasOccupied
  <1>4. ASSUME NEW k \in Sockets, PlayerLeave(k)
        PROVE  Occupied(seats') \subseteq Occupied(seats)
    <2>1. PICK s \in Seats : s = bound[k]
      BY <1>4, SeatOfSocket DEF PlayerLeave
    <2>2. seats' = Released(seats, s)
      BY <1>4, <2>1 DEF PlayerLeave
    <2> QED
      BY <2>2, VacatedWasOccupied
  <1>5. CASE HostTimerFires
    BY <1>5, Parts DEF HostTimerFires, HostTimerIsCurrent, AllConnectedPlayersReady
  <1>6. ASSUME NEW k \in Sockets,
               \/ AdminEnterRoom(k) \/ AdminSeizeRoom(k) \/ GameEnd(k)
               \/ \E s \in Seats : AdminKickPlayer(k, s)
               \/ \E p \in Accounts : RemoveAccountPresence(k, p)
        PROVE  phase' = "waiting"
    BY <1>6 DEF AdminEnterRoom, AdminSeizeRoom, SeizeRoom, GameEnd, AdminKickPlayer,
                RemoveAccountPresence
  <1>7. ASSUME NEW k \in Sockets,
               \/ LoginToFreeSeat(k) \/ PlayerReady(k) \/ HostAddAgent(k) \/ GameStart(k)
               \/ \E s \in Seats : HostRemoveAgent(k, s)
        PROVE  phase = "waiting"
    BY <1>7 DEF LoginToFreeSeat, RoomIsOpen, PlayerReady, HostAddAgent, GameStart,
                HostRemoveAgent, AllConnectedPlayersReady
  <1>8. ASSUME NEW s \in Seats, HoldExpires(s)
        PROVE  phase' = "waiting"
    BY <1>8 DEF HoldExpires, EndGameAndResetRoom, SoftReset
  <1>9. ASSUME NEW k \in Sockets,
               \/ Connect(k) \/ LoginFails(k) \/ \E p \in Accounts : LoginStart(k, p)
               \/ HostSelectLevel(k) \/ ContinueToResult(k) \/ HostBackToLevelSelect(k)
        PROVE  seats' = seats
    BY <1>9 DEF Connect, LoginFails, LoginStart, HostSelectLevel, ContinueToResult,
                HostBackToLevelSelect, EnterDiscussion
  <1>10. CASE AutoSelectRandomLevel \/ BeginPlacement \/ PlacingEnds
    BY <1>10 DEF AutoSelectRandomLevel, BeginPlacement, PlacingEnds, EnterDiscussion
  <1> QED
    BY <1>1, <1>2, <1>3, <1>4, <1>5, <1>6, <1>7, <1>8, <1>9, <1>10 DEF Next

\* Nobody new sits down at a running game, although a login that began in the
\* lobby may end in it.
THEOREM NobodyNewInGame == Spec => NoNewSeatInGame
  <1>1. RoomInv /\ [Next]_vars
          => [phase # "waiting" /\ phase' # "waiting"
                => Occupied(seats') \subseteq Occupied(seats)]_vars
    BY NobodySitsDown
  <1> QED
    BY <1>1, RoomInvariant, PTL DEF Spec, NoNewSeatInGame

LEMMA HostGoesWithSeat ==
  ASSUME RoomInv, Next, host # None, host' # host, phase # "waiting", phase' # "waiting"
  PROVE  seats'[host].kind = "empty"
  <1>1. ASSUME NEW k \in Sockets, PlayerLeave(k)
        PROVE  seats'[host].kind = "empty"
    <2>1. PICK s \in Seats : s = bound[k]
      BY <1>1, SeatOfSocket DEF PlayerLeave
    <2>2. seats' = Released(seats, s) /\ host' = HostWithout(s)
      BY <1>1, <2>1 DEF PlayerLeave
    <2>3. host = s
      BY <2>2 DEF HostWithout
    <2>4. Vacated(seats, seats', s)
      BY <2>2, Types, ReleasedVacates
    <2> QED
      BY <2>3, <2>4 DEF Vacated
  <1>2. CASE HostTimerFires
    BY <1>2, Parts DEF HostTimerFires, HostTimerIsCurrent, AllConnectedPlayersReady
  <1>3. ASSUME NEW k \in Sockets,
               \/ AdminEnterRoom(k) \/ AdminSeizeRoom(k) \/ GameEnd(k)
               \/ \E s \in Seats : AdminKickPlayer(k, s)
               \/ \E p \in Accounts : RemoveAccountPresence(k, p)
        PROVE  phase' = "waiting"
    BY <1>3 DEF AdminEnterRoom, AdminSeizeRoom, SeizeRoom, GameEnd, AdminKickPlayer,
                RemoveAccountPresence
  <1>4. ASSUME NEW k \in Sockets, PlayerReady(k)
        PROVE  phase = "waiting"
    BY <1>4 DEF PlayerReady
  <1>5. ASSUME NEW s \in Seats, HoldExpires(s)
        PROVE  phase' = "waiting"
    BY <1>5 DEF HoldExpires, EndGameAndResetRoom, SoftReset
  <1>6. ASSUME NEW k \in Sockets,
               \/ Connect(k) \/ Disconnect(k) \/ \E p \in Players : ResumeSession(k, p)
               \/ LoginFails(k) \/ \E p \in Accounts : LoginStart(k, p)
               \/ LoginToOwnSeat(k) \/ LoginToFreeSeat(k)
               \/ HostAddAgent(k) \/ GameStart(k) \/ \E s \in Seats : HostRemoveAgent(k, s)
               \/ HostSelectLevel(k) \/ ContinueToResult(k) \/ HostBackToLevelSelect(k)
        PROVE  host' = host
    BY <1>6 DEF Connect, Disconnect, ResumeSession, LoginFails, LoginStart, LoginToOwnSeat,
                LoginToFreeSeat, HostAddAgent, GameStart, HostRemoveAgent, HostSelectLevel,
                ContinueToResult, HostBackToLevelSelect, EnterDiscussion
  <1>7. CASE AutoSelectRandomLevel \/ BeginPlacement \/ PlacingEnds
    BY <1>7 DEF AutoSelectRandomLevel, BeginPlacement, PlacingEnds, EnterDiscussion
  <1> QED
    BY <1>1, <1>2, <1>3, <1>4, <1>5, <1>6, <1>7 DEF Next

\* A running game does not lose its host to a lost connection: the host
\* changes with the seat, a game that ends, or an admin.
THEOREM HostKeepsSeat == Spec => HostKeepsSeatWhileHeld
  <1>1. RoomInv /\ [Next]_vars
          => [host # None /\ host' # host /\ phase # "waiting" /\ phase' # "waiting"
                => seats'[host].kind = "empty"]_vars
    BY HostGoesWithSeat
  <1> QED
    BY <1>1, RoomInvariant, PTL DEF Spec, HostKeepsSeatWhileHeld

=============================================================================
