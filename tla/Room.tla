-------------------------------- MODULE Room --------------------------------
(***************************************************************************)
(* The one room of the server: who sits where, over which socket and under *)
(* which session, who is host, and what a lost connection, a late login, a *)
(* kick or an expired seat does to a game (server/src/socket/              *)
(* registerHandlers.ts, game/seating.ts, game/room.ts, game/timers.ts,     *)
(* auth/playerSessions.ts).                                                *)
(*                                                                         *)
(* Actions are the handlers of one event.  Only a login spans two of them: *)
(* the password is hashed between LoginStart and LoginEnd.  The play of an *)
(* attempt is reduced to its phases (module Table has the rest), and a     *)
(* socket that holds a seat does not log in or resume another one.         *)
(***************************************************************************)
EXTENDS Naturals, FiniteSets

CONSTANTS
  NSeats,        \* seats of the room; the code has four
  MaxAgents,     \* agents a host may add; the code has three
  Accounts,      \* registered accounts (playerId)
  Sockets,       \* connections, each reused once it is closed
  AdminSockets,  \* the connections that pass admin:login
  Admin,         \* the player behind the admin's session
  None,          \* undefined, null
  Gone           \* the id of a socket that is already closed

Seats == 1..NSeats
Players == Accounts \cup {Admin}

ASSUME RoomAssumption ==
  /\ NSeats \in Nat \ {0, 1}
  /\ MaxAgents \in Nat
  /\ AdminSockets \subseteq Sockets
  /\ Admin \notin Accounts
  /\ None \notin Accounts \cup Sockets \cup Seats \cup {Admin, Gone}
  /\ Gone \notin Sockets

VARIABLES
  seats,      \* room.seats: kind (nick = null is "empty"), player, socket, hold
  ready,      \* room.ready
  host,       \* room.host
  phase,      \* room.phase
  dealt,      \* hands were dealt for this placing
  hostTimer,  \* the host room.timers.hostStart was armed for
  open,       \* connected sockets
  bound,      \* socket.data.seatId
  login,      \* the account whose password a socket waits to have checked
  session     \* PlayerSessionStore: the seat of a player's record

vars == <<seats, ready, host, phase, dealt, hostTimer, open, bound, login, session>>

Phases == {"waiting", "levelSelect", "discussion", "placing", "reveal", "result"}
GameFlowPhases == Phases \ {"waiting"}

\* hold stands for holdUntil together with the timeout that will look at it.
\* For people, connected is the same as having a socket.
SeatRecord ==
  [kind : {"empty", "human", "agent"}, player : Players \cup {None},
   socket : Sockets \cup {Gone, None}, hold : BOOLEAN]

FreshSeat == [kind |-> "empty", player |-> None, socket |-> None, hold |-> FALSE]

TypeOK ==
  /\ seats \in [Seats -> SeatRecord]
  /\ ready \in [Seats -> BOOLEAN]
  /\ host \in Seats \cup {None}
  /\ phase \in Phases
  /\ dealt \in BOOLEAN
  /\ hostTimer \in Seats \cup {None}
  /\ open \in SUBSET Sockets
  /\ bound \in [Sockets -> Seats \cup {None}]
  /\ login \in [Sockets -> Accounts \cup {None}]
  /\ session \in [Players -> Seats \cup {None}]

-----------------------------------------------------------------------------
(* Seats, host and sessions. *)

Occupied(st) == {s \in Seats : st[s].kind # "empty"}
Humans(st) == {s \in Seats : st[s].kind = "human"}
AgentSeats(st) == {s \in Seats : st[s].kind = "agent"}
Connected(st) == {s \in Humans(st) : st[s].socket # None}

FirstOf(S) == IF S = {} THEN None ELSE CHOOSE s \in S : \A t \in S : s <= t

\* transferHostToConnectedSeat, as the seats are before s is given up.
HostWithout(s) == IF host = s THEN FirstOf(Connected(seats) \ {s}) ELSE host

\* releaseSeat leaves holdUntil alone.
Released(st, s) == [st EXCEPT ![s] = [FreshSeat EXCEPT !.hold = st[s].hold]]

\* Fault ("Fault" marks plausible bugs of the definition that follows; no
\* specification uses them, see mutants in PROJECT.json): no timeout for a seat
\* whose connection is lost.
LostWithoutHold(st, s) == [st EXCEPT ![s].socket = None]

\* The seat of a lost connection is held for its player.
Lost(st, s) == [st EXCEPT ![s].socket = None, ![s].hold = TRUE]

\* attachSeat for player p on socket k, which may be closed by now.
Attached(st, s, k, p) ==
  [st EXCEPT ![s] = [kind |-> "human", player |-> p,
                     socket |-> IF k \in open THEN k ELSE Gone, hold |-> FALSE]]

RevokeBySeat(s) == [p \in Players |-> IF session[p] = s THEN None ELSE session[p]]
NoSessions == [p \in Players |-> None]
Unbound == [k \in Sockets |-> None]

\* The ready flags of a lobby that somebody was sent back to by game:end.
AgentsReady == [s \in Seats |-> seats[s].kind = "agent"]
NobodyReady == [s \in Seats |-> FALSE]

AllConnectedPlayersReady ==
  /\ phase = "waiting"
  /\ Cardinality(Occupied(seats)) \in 2..4
  /\ Humans(seats) # {}
  /\ \A s \in Humans(seats) : seats[s].socket # None /\ ready[s]

\* Fault: the timer of a lobby that is not ready any more is not cleared.
RefreshOnlyArms ==
  hostTimer' = IF AllConnectedPlayersReady' /\ host' # None THEN host' ELSE hostTimer

\* refreshHostStartTimer, last thing in most handlers.
RefreshHostTimer ==
  hostTimer' = IF AllConnectedPlayersReady' /\ host' # None THEN host' ELSE None

\* The seat of a socket's player, and whether the socket is the host's.
Sits(k) == k \in open /\ bound[k] # None
HostSits(k) == Sits(k) /\ host = bound[k]

Init ==
  /\ seats = [s \in Seats |-> FreshSeat]
  /\ ready = NobodyReady
  /\ host = None
  /\ phase = "waiting"
  /\ dealt = FALSE
  /\ hostTimer = None
  /\ open = {}
  /\ bound = Unbound
  /\ login = [k \in Sockets |-> None]
  /\ session = NoSessions

-----------------------------------------------------------------------------
(* Connections and entering the room. *)

Connect(k) ==
  /\ k \notin open
  /\ login[k] = None
  /\ open' = open \cup {k}
  /\ UNCHANGED <<seats, ready, host, phase, dealt, hostTimer, bound, login, session>>

\* Socket k takes seat s from whichever socket had it: the old one is
\* disconnected, and its disconnect handler finds it does not own the seat.
SwitchSocket(s, k, p) ==
  LET stale == seats[s].socket
  IN  /\ seats' = Attached(seats, s, k, p)
      /\ open' = open \ ({stale} \ {k})
      /\ bound' = [j \in Sockets |-> IF j = k /\ k \in open THEN s
                                     ELSE IF j = stale THEN None ELSE bound[j]]

\* takeOverSeat, by session token: in the handshake or as player:join.
ResumeSession(k, p) ==
  /\ k \in open /\ bound[k] = None /\ login[k] = None
  /\ k \in AdminSockets <=> p = Admin
  /\ session[p] # None
  /\ seats[session[p]].kind # "empty"
  /\ SwitchSocket(session[p], k, p)
  /\ UNCHANGED <<ready, host, phase, dealt, login, session>>
  /\ RefreshHostTimer

LoginStart(k, p) ==
  /\ k \in open \ AdminSockets /\ bound[k] = None /\ login[k] = None
  /\ login' = [login EXCEPT ![k] = p]
  /\ UNCHANGED <<seats, ready, host, phase, dealt, hostTimer, open, bound, session>>

\* A wrong password, or a room that cannot be entered (any more).
LoginFails(k) ==
  /\ login[k] # None
  /\ login' = [login EXCEPT ![k] = None]
  /\ UNCHANGED <<seats, ready, host, phase, dealt, hostTimer, open, bound, session>>

\* enterRoomWithAccount, back in the own seat: the hash took its time, and
\* the socket may be closed by now.
LoginToOwnSeat(k) ==
  \E s \in Humans(seats) :
    /\ login[k] # None
    /\ seats[s].player = login[k]
    /\ SwitchSocket(s, k, login[k])
    /\ session' = [RevokeBySeat(s) EXCEPT ![login[k]] = s]
    /\ login' = [login EXCEPT ![k] = None]
    /\ UNCHANGED <<ready, host, phase, dealt>>
    /\ RefreshHostTimer

\* Fault: the phase was looked at before the password was hashed.
RoomWasOpen == TRUE

\* roomBlockReason: a newcomer only enters a room that waits.
RoomIsOpen == phase = "waiting"

\* enterRoomWithAccount, into the first empty seat of a room that waits.
LoginToFreeSeat(k) ==
  LET s == FirstOf(Seats \ Occupied(seats))
  IN  /\ login[k] # None
      /\ \A t \in Humans(seats) : seats[t].player # login[k]
      /\ RoomIsOpen
      /\ s # None
      /\ seats' = Attached(seats, s, k, login[k])
      /\ bound' = IF k \in open THEN [bound EXCEPT ![k] = s] ELSE bound
      /\ session' = [RevokeBySeat(s) EXCEPT ![login[k]] = s]
      /\ login' = [login EXCEPT ![k] = None]
      /\ UNCHANGED <<ready, host, phase, dealt, open>>
      /\ RefreshHostTimer

-----------------------------------------------------------------------------
(* Leaving the room: wanted, lost, expired. *)

\* player:leave; an attempt in play is failed first.
PlayerLeave(k) ==
  LET s == bound[k]
  IN  /\ Sits(k)
      /\ phase' = IF phase \in {"discussion", "placing"} THEN "result" ELSE phase
      /\ host' = HostWithout(s)
      /\ seats' = Released(seats, s)
      /\ ready' = [ready EXCEPT ![s] = FALSE]
      /\ session' = RevokeBySeat(s)
      /\ bound' = [bound EXCEPT ![k] = None]
      /\ UNCHANGED <<dealt, open, login>>
      /\ RefreshHostTimer

\* Fault: the host is passed on as soon as the connection is lost.
DisconnectPassesHost(k) ==
  /\ k \in open
  /\ open' = open \ {k}
  /\ bound' = [bound EXCEPT ![k] = None]
  /\ IF Sits(k) THEN seats' = Lost(seats, bound[k]) /\ host' = HostWithout(bound[k])
                ELSE UNCHANGED <<seats, host>>
  /\ UNCHANGED <<ready, phase, dealt, login, session>>
  /\ IF phase = "waiting" THEN RefreshHostTimer ELSE UNCHANGED hostTimer

\* disconnect: the seat is held for its player; the host stays host.
Disconnect(k) ==
  /\ k \in open
  /\ open' = open \ {k}
  /\ bound' = [bound EXCEPT ![k] = None]
  /\ IF Sits(k) /\ seats[bound[k]].socket = k
     THEN seats' = Lost(seats, bound[k])
     ELSE UNCHANGED seats
  /\ UNCHANGED <<ready, host, phase, dealt, login, session>>
  /\ IF phase = "waiting" THEN RefreshHostTimer ELSE UNCHANGED hostTimer

\* softResetRoom and what goes with it.
SoftReset ==
  /\ seats' = [s \in Seats |-> FreshSeat]
  /\ ready' = NobodyReady
  /\ host' = None
  /\ phase' = "waiting"
  /\ dealt' = FALSE
  /\ session' = NoSessions

\* endGameAndResetRoom: everybody goes.
EndGameAndResetRoom ==
  /\ SoftReset
  /\ bound' = Unbound
  /\ hostTimer' = None

\* The timeout of the disconnect handler.  It looks at the seat object, not
\* at whether the player who lost the connection is still meant by it.
HoldExpires(s) ==
  /\ seats[s].hold
  /\ IF phase \in {"discussion", "placing", "reveal"}
     THEN EndGameAndResetRoom
     ELSE /\ IF phase = "waiting" /\ Occupied(seats) \subseteq {s}
             THEN SoftReset
             ELSE /\ seats' = [seats EXCEPT ![s] = FreshSeat]
                  /\ host' = HostWithout(s)
                  /\ ready' = [ready EXCEPT ![s] = FALSE]
                  /\ session' = RevokeBySeat(s)
                  /\ phase' = "waiting"
                  /\ dealt' = FALSE
          /\ RefreshHostTimer
          /\ UNCHANGED bound
  /\ UNCHANGED <<open, login>>

-----------------------------------------------------------------------------
(* The lobby. *)

PlayerReady(k) ==
  LET s == bound[k]
  IN  /\ Sits(k)
      /\ phase = "waiting"
      /\ ready' = [ready EXCEPT ![s] = ~@]
      /\ host' = IF ready'[s] /\ host = None THEN s ELSE host
      /\ UNCHANGED <<seats, phase, dealt, open, bound, login, session>>
      /\ RefreshHostTimer

HostAddAgent(k) ==
  LET s == FirstOf(Seats \ Occupied(seats))
  IN  /\ HostSits(k)
      /\ phase = "waiting"
      /\ Cardinality(AgentSeats(seats)) < MaxAgents
      /\ s # None
      /\ seats' = [seats EXCEPT ![s] = [FreshSeat EXCEPT !.kind = "agent"]]
      /\ ready' = [ready EXCEPT ![s] = TRUE]
      /\ UNCHANGED <<host, phase, dealt, open, bound, login, session>>
      /\ RefreshHostTimer

HostRemoveAgent(k, s) ==
  /\ HostSits(k)
  /\ phase = "waiting"
  /\ s \in AgentSeats(seats)
  /\ seats' = Released(seats, s)
  /\ ready' = [ready EXCEPT ![s] = FALSE]
  /\ UNCHANGED <<host, phase, dealt, open, bound, login, session>>
  /\ RefreshHostTimer

\* canStartGame and enterLevelSelect.
GameStart(k) ==
  /\ HostSits(k)
  /\ AllConnectedPlayersReady
  /\ phase' = "levelSelect"
  /\ hostTimer' = None
  /\ UNCHANGED <<seats, ready, host, dealt, open, bound, login, session>>

\* The grace time of the host ends: kickTimedOutHost, or nothing if the host
\* the timer was armed for is not the host of a ready lobby any more.
HostTimerFires ==
  LET candidates == {s \in Connected(seats) \ {host} : ready[s]}
  IN  /\ hostTimer # None
      /\ hostTimer' = None
      /\ IF host = hostTimer /\ AllConnectedPlayersReady
         THEN /\ IF candidates = {} THEN host' = None ELSE host' \in candidates
              /\ seats' = Released(seats, host)
              /\ ready' = [ready EXCEPT ![host] = FALSE]
              /\ session' = RevokeBySeat(host)
              /\ bound' = [k \in Sockets |-> IF k = seats[host].socket THEN None ELSE bound[k]]
         ELSE UNCHANGED <<host, seats, ready, session, bound>>
      /\ UNCHANGED <<phase, dealt, open, login>>

-----------------------------------------------------------------------------
(* The game, by its phases. *)

\* A level is picked, retried or followed by the next one, by the host; or
\* by the timer that runs while levels are selected.
EnterDiscussion ==
  /\ phase' = "discussion"
  /\ dealt' = FALSE
  /\ UNCHANGED <<seats, ready, host, hostTimer, open, bound, login, session>>

HostSelectLevel(k) ==
  HostSits(k) /\ phase \in {"levelSelect", "result"} /\ EnterDiscussion

AutoSelectRandomLevel == phase = "levelSelect" /\ EnterDiscussion

\* beginPlacement sets the phase before dealHands, which throws with fewer
\* than two seats; a deal that fails 500 shuffles is left out.
BeginPlacement ==
  /\ phase = "discussion"
  /\ phase' = "placing"
  /\ dealt' = (Cardinality(Occupied(seats)) >= 2)
  /\ UNCHANGED <<seats, ready, host, hostTimer, open, bound, login, session>>

\* The cards are played and scored, or the time runs out; neither without
\* hands: nobody can play and no turn timer was started.
PlacingEnds ==
  /\ phase = "placing" /\ dealt
  /\ phase' \in {"reveal", "result"}
  /\ UNCHANGED <<seats, ready, host, dealt, hostTimer, open, bound, login, session>>

ContinueToResult(k) ==
  /\ HostSits(k)
  /\ phase = "reveal"
  /\ phase' = "result"
  /\ UNCHANGED <<seats, ready, host, dealt, hostTimer, open, bound, login, session>>

\* endGameAndReturnToLobby, by anybody who sits.
GameEnd(k) ==
  /\ Sits(k)
  /\ phase \in GameFlowPhases
  /\ phase' = "waiting"
  /\ dealt' = FALSE
  /\ host' = None
  /\ ready' = AgentsReady
  /\ hostTimer' = None
  /\ UNCHANGED <<seats, open, bound, login, session>>

HostBackToLevelSelect(k) ==
  /\ HostSits(k)
  /\ phase \in GameFlowPhases \ {"levelSelect"}
  /\ phase' = "levelSelect"
  /\ dealt' = FALSE
  /\ hostTimer' = None
  /\ UNCHANGED <<seats, ready, host, open, bound, login, session>>

-----------------------------------------------------------------------------
(* Administration. *)

\* seizeRoomByAdmin: everybody out, the room rebuilt, the admin host in the
\* first seat, and only then the old sockets disconnected.
SeizeRoom(k) ==
  LET kicked == {seats[s].socket : s \in Seats} \ {k}
  IN  /\ seats' = [s \in Seats |->
                     IF s = 1 THEN [kind |-> "human", player |-> Admin,
                                    socket |-> k, hold |-> FALSE]
                     ELSE FreshSeat]
      /\ ready' = NobodyReady
      /\ host' = 1
      /\ phase' = "waiting"
      /\ dealt' = FALSE
      /\ hostTimer' = None
      /\ session' = [NoSessions EXCEPT ![Admin] = 1]
      /\ bound' = [Unbound EXCEPT ![k] = 1]
      /\ open' = open \ kicked
      /\ UNCHANGED login

\* requestAdminRoomEntry into a room without people; with people the admin is
\* asked to confirm and comes back with AdminSeizeRoom.
AdminEnterRoom(k) ==
  /\ k \in open \cap AdminSockets
  /\ session[Admin] = None
  /\ Humans(seats) = {}
  /\ SeizeRoom(k)

\* The confirmed stateVersion makes the seizure one step with what was shown.
AdminSeizeRoom(k) ==
  /\ k \in open \cap AdminSockets
  /\ SeizeRoom(k)

\* Fault: the seat is released under its socket.
CutOffNothing(s) == UNCHANGED <<open, bound>>

\* The socket of a seat that is given up is unbound and disconnected.
CutOff(s) ==
  /\ open' = open \ {seats[s].socket}
  /\ bound' = [k \in Sockets |-> IF k = seats[s].socket THEN None ELSE bound[k]]

\* admin:kickPlayer ends a running game for everybody; who stays is not ready.
AdminKickPlayer(k, s) ==
  /\ k \in open \cap AdminSockets
  /\ s \in Humans(seats) \ {bound[k]}
  /\ seats' = Released(seats, s)
  /\ ready' = IF phase = "waiting" THEN [ready EXCEPT ![s] = FALSE] ELSE NobodyReady
  /\ host' = IF bound[k] # None THEN bound[k] ELSE HostWithout(s)
  /\ phase' = "waiting"
  /\ dealt' = FALSE
  /\ session' = RevokeBySeat(s)
  /\ CutOff(s)
  /\ UNCHANGED login
  /\ RefreshHostTimer

\* removeAccountPresence: an account is logged out, disabled or deleted.
RemoveAccountPresence(k, p) ==
  /\ k \in open \cap AdminSockets
  /\ session' = [session EXCEPT ![p] = None]
  /\ \E s \in Humans(seats) :
       /\ seats[s].player = p
       /\ ready' = [r \in Seats |-> r # s /\ phase = "waiting" /\ ready[r]]
       /\ phase' = "waiting"
       /\ dealt' = FALSE
       /\ host' = HostWithout(s)
       /\ seats' = Released(seats, s)
       /\ CutOff(s)
  /\ UNCHANGED login
  /\ RefreshHostTimer

-----------------------------------------------------------------------------

Next ==
  \/ \E k \in Sockets :
       \/ Connect(k) \/ Disconnect(k)
       \/ \E p \in Players : ResumeSession(k, p)
       \/ \E p \in Accounts : LoginStart(k, p)
       \/ LoginFails(k) \/ LoginToOwnSeat(k) \/ LoginToFreeSeat(k)
       \/ PlayerLeave(k) \/ PlayerReady(k) \/ HostAddAgent(k) \/ GameStart(k)
       \/ \E s \in Seats : HostRemoveAgent(k, s)
       \/ HostSelectLevel(k) \/ ContinueToResult(k) \/ GameEnd(k)
       \/ HostBackToLevelSelect(k)
       \/ AdminEnterRoom(k) \/ AdminSeizeRoom(k)
       \/ \E s \in Seats : AdminKickPlayer(k, s)
       \/ \E p \in Accounts : RemoveAccountPresence(k, p)
  \/ \E s \in Seats : HoldExpires(s)
  \/ HostTimerFires \/ AutoSelectRandomLevel \/ BeginPlacement \/ PlacingEnds

Spec == Init /\ [][Next]_vars

\* Timeouts fire; nothing is assumed of people.
FairSpec == Spec /\ \A s \in Seats : WF_vars(HoldExpires(s))

-----------------------------------------------------------------------------
(* Properties. *)

\* architecture.md 2.1: sessions are for seats that are held.  Whoever leaves,
\* is kicked, expires or is seized has no session left, and whoever sits can
\* come back: the record and the seat name each other.
SessionIffSeated ==
  \A p \in Players, s \in Seats :
    session[p] = s <=> seats[s].kind = "human" /\ seats[s].player = p

\* A handler trusts socket.data.seatId: an open socket bound to a seat is the
\* socket of that seat, across takeovers, late logins and kicks.
BoundSocketOwnsSeat ==
  \A k \in open : bound[k] # None =>
    seats[bound[k]].kind = "human" /\ seats[bound[k]].socket = k

\* The host is a person who sits (perhaps with a lost connection).
HostIsSeated == host # None => host \in Humans(seats)

\* A seat that nobody sits in is not ready: a newcomer inherits nothing.
NobodyInheritsReady == \A s \in Seats : ready[s] => s \in Occupied(seats)

\* The room, the sessions, the sockets and the host tell the same story about
\* who sits where, after any order of logins, takeovers, kicks and timeouts.
SeatsAgree ==
  /\ TypeOK
  /\ SessionIffSeated
  /\ BoundSocketOwnsSeat
  /\ HostIsSeated
  /\ NobodyInheritsReady

\* A player whose connection was lost has a timeout that will free the seat.
LostSeatIsHeld ==
  \A s \in Humans(seats) : seats[s].socket = None => seats[s].hold

\* The host is only on the clock as the present host of a lobby that is ready.
HostTimerIsCurrent ==
  hostTimer # None => hostTimer = host /\ AllConnectedPlayersReady

\* Nobody new sits down at a running game, although a login that began in the
\* lobby may end in it.
NoNewSeatInGame ==
  [][phase # "waiting" /\ phase' # "waiting" =>
       Occupied(seats') \subseteq Occupied(seats)]_vars

\* A running game does not lose its host to a lost connection: the host
\* changes with the seat, a game that ends, or an admin.
HostKeepsSeatWhileHeld ==
  [][host # None /\ host' # host /\ phase # "waiting" /\ phase' # "waiting" =>
       seats'[host].kind = "empty"]_vars

\* A lost seat is not held for ever.
LostSeatSettles ==
  \A s \in Seats :
    (seats[s].kind = "human" /\ seats[s].socket = None) ~>
      (seats[s].kind # "human" \/ seats[s].socket # None)

=============================================================================
