------------------------------- MODULE Identity -------------------------------
(***************************************************************************)
(* Who may do what: account sessions and seat sessions of the browser tabs *)
(* of one account, the changes of accounts their owners and the admin make *)
(* and what is left of sessions, seats and connections afterwards          *)
(* (server/src/socket/registerHandlers.ts, auth/accountSessions.ts,        *)
(* auth/playerSessions.ts; lib/session.ts of the client).                  *)
(*                                                                         *)
(* The book is that of module Accounts, with one address and one nickname  *)
(* for every player id.  A client is a tab with its sessionStorage.  A     *)
(* token for a seat may be copied to other tabs; an account token is named *)
(* by the client it was given to.  The room is reduced to who sits in it   *)
(* (module Room has the rest); a socket that holds a seat neither logs in  *)
(* to another nor takes one over.                                          *)
(***************************************************************************)
EXTENDS Naturals, Sequences, FiniteSets

CONSTANTS
  Players, Passwords, None,   \* as in module Accounts
  Clients,     \* browser tabs
  Admin,       \* the admin's console
  Held,        \* in place of a socket: the connection is lost, the seat kept
  Gone,        \* in place of a socket: one that was closed before it got the seat
  MaxCalls,    \* bound on the calls to the store under way
  MaxVersion   \* bound on the changes of an account; the more it has changed
               \* the fewer calls are under way

ASSUME IdentityAssumption ==
  /\ None \notin Players \cup Passwords \cup Clients
  /\ {Admin, Held, Gone} \cap Clients = {}
  /\ {MaxCalls, MaxVersion} \subseteq Nat

VARIABLES
  book,     \* the accounts
  op,       \* per client and for the admin: the call to the store under way
  queue,    \* the order in which the store works
  open,     \* connected clients
  account,  \* socket.data.accountPlayerId
  stored,   \* the account a client keeps a token of
  record,   \* AccountSessionStore: the record of a client's token
  seatToken,\* the seat token a client keeps: whose, and current or previous
  seatRecord,\* PlayerSessionStore: the record of a player
  at,       \* the socket of a player's seat, None without a seat
  void,     \* observation: clients that keep a seat token which was revoked
  audit     \* the last entry this process wrote to the audit file if it is
            \* pending, else NoEntry

Book == INSTANCE Accounts WITH Emails <- Players, Nicknames <- Players, Keys <- {"key"}

storeVars == <<book, op, queue>>
sessionVars == <<stored, record, seatToken, seatRecord, void>>
vars == <<storeVars, open, account, sessionVars, at, audit>>

Owners == Clients \cup {Admin}

\* A session record; password is the one it was given for (a history value).
NoRecord == [player |-> None, version |-> 0, password |-> None]
Record(p, v, w) == [player |-> p, version |-> v, password |-> w]
NoToken == [player |-> None, rank |-> "dead"]

NoEntry == [player |-> None, action |-> "none"]

\* stage: "hashing" or "checking" outside the queue, "queued" or "answer" (the
\* store is done, its handler goes on).  here: the socket is still the one that
\* made the call; sits: it was closed, with socket.data.seatId at the seat.
Idle == [kind |-> "none", stage |-> "idle", player |-> None, version |-> 0,
         password |-> None, status |-> "none", ok |-> FALSE, here |-> FALSE, sits |-> FALSE]
Op(kind, stage, p, v, w, s) ==
  [kind |-> kind, stage |-> stage, player |-> p, version |-> v, password |-> w,
   status |-> s, ok |-> FALSE, here |-> TRUE, sits |-> FALSE]

\* A handler goes on in the turn of the event loop in which the store answers;
\* at most the next queued change comes first.
Quiet == \A o \in Owners : op[o].stage # "answer"

Active(p) == book[p].status = "active"

\* accountSessions.verify and the status of the account.
Restores(c, p) == /\ Active(p)
                  /\ record[c].player = p /\ record[c].version = book[p].version

\* resolveSessionSeat: the token is the current or the previous one.
Resumes(c, p) == /\ Active(p) /\ at[p] # None
                 /\ seatRecord[p].player = p /\ seatRecord[p].version = book[p].version
                 /\ seatToken[c].player = p /\ seatToken[c].rank # "dead"

Init ==
  /\ book = Book!EmptyBook
  /\ op = [o \in Owners |-> Idle] /\ queue = <<>>
  /\ open = {} /\ account = [c \in Clients |-> None]
  /\ stored = [c \in Clients |-> None]
  /\ record = [c \in Clients |-> NoRecord]
  /\ seatToken = [c \in Clients |-> NoToken]
  /\ seatRecord = [p \in Players |-> NoRecord]
  /\ at = [p \in Players |-> None]
  /\ void = {}
  /\ audit = NoEntry

-----------------------------------------------------------------------------
(* Sessions. *)

\* AccountSessionStore.revokePlayer
RevokePlayer(r, p) == [c \in Clients |-> IF r[c].player = p THEN NoRecord ELSE r[c]]

\* AccountSessionStore.revokeOthers
RevokeOthers(r, p, c) == [d \in Clients |-> IF r[d].player = p /\ d # c THEN NoRecord ELSE r[d]]

\* PlayerSessionStore.rotate: the new token reaches the clients in S.
Rotated(tokens, p, S) ==
  [c \in Clients |->
     IF c \in S THEN [player |-> p, rank |-> "new"]
     ELSE IF tokens[c].player # p THEN tokens[c]
     ELSE IF tokens[c].rank = "new" THEN [tokens[c] EXCEPT !.rank = "old"] ELSE NoToken]

\* Fault: a login leaves the earlier tokens of the player good.
IssuedBesides(tokens, p, S) ==
  [c \in Clients |-> IF c \in S THEN [player |-> p, rank |-> "new"] ELSE tokens[c]]

\* PlayerSessionStore.issue: no earlier token of the player is good any more.
Issued(tokens, p, S) ==
  [c \in Clients |-> IF c \in S THEN [player |-> p, rank |-> "new"]
                     ELSE IF tokens[c].player = p THEN NoToken ELSE tokens[c]]

\* What is observed when the sessions of a player are revoked: of the tokens
\* that clients keep, all are void but the ones just given to those in S.
Voided(tokens, p, S) ==
  {c \in Clients \ S : tokens[c].player = p \/ (c \in void /\ tokens[c] # NoToken)}

\* The server closes a socket that lost its seat, or the connection is lost.
\* stale is a set of clients; what they wait for is answered to nobody.
Closed(ops, stale) ==
  [o \in Owners |->
     IF o \in stale
     THEN [ops[o] EXCEPT !.here = FALSE,
                         !.sits = \/ ops[o].sits
                                  \/ /\ ops[o].kind = "change" /\ ops[o].here
                                     /\ at[ops[o].player] = o]
     ELSE ops[o]]
SignedOff(stale) == [c \in Clients |-> IF c \in stale THEN None ELSE account[c]]

\* requireActiveAccount lets the request of a client pass.
Requires(c) == c \in open /\ account[c] # None /\ Restores(c, account[c])

\* It does not: the sessions of the whole account are revoked, also those of
\* other devices, and the client forgets its token.
StaleRequest(c) ==
  LET p == account[c]
  IN  /\ Quiet /\ c \in open /\ p # None /\ ~Restores(c, p)
      /\ record' = RevokePlayer(record, p)
      /\ seatRecord' = IF Active(p) THEN seatRecord ELSE [seatRecord EXCEPT ![p] = NoRecord]
      /\ stored' = [stored EXCEPT ![c] = None]
      /\ void' = IF Active(p) THEN void ELSE Voided(seatToken, p, {})
      /\ UNCHANGED <<storeVars, open, account, seatToken, at, audit>>

-----------------------------------------------------------------------------
(* Connections. *)

\* autoRestoreAccountFromAuth: a bad token revokes all sessions of its account
\* and is forgotten by the client.
RestoredRecords(c) ==
  IF stored[c] # None /\ ~Restores(c, stored[c]) THEN RevokePlayer(record, stored[c]) ELSE record

RestoredAccount(c) == IF stored[c] # None /\ Restores(c, stored[c]) THEN stored[c] ELSE None

\* A seat token, or none, that does not resume a seat: the client forgets it,
\* and a session of another version of the account is revoked.
SeatRefused(c) ==
  LET p == seatToken[c].player
      revokes == p # None /\ seatRecord[p].version # book[p].version
  IN  /\ \A q \in Players : ~Resumes(c, q)
      /\ seatToken' = [seatToken EXCEPT ![c] = NoToken]
      /\ seatRecord' = IF revokes THEN [seatRecord EXCEPT ![p] = NoRecord] ELSE seatRecord
      /\ void' = IF revokes THEN Voided(seatToken', p, {c}) ELSE void \ {c}

ConnectWithoutSeat(c) ==
  /\ Quiet /\ c \notin open
  /\ open' = open \cup {c}
  /\ SeatRefused(c)
  /\ record' = RestoredRecords(c)
  /\ account' = [account EXCEPT ![c] = RestoredAccount(c)]
  /\ stored' = [stored EXCEPT ![c] = RestoredAccount(c)]
  /\ UNCHANGED <<storeVars, at, audit>>

\* takeOverSeat: the seat goes to this client with a new token, and its earlier
\* socket is closed last.  heard: whether the token arrives.
TakeOverSeat(c, p, seat, heard) ==
  LET stale == {at[p]} \cap (Clients \ {c})
      learns == IF heard THEN {c} ELSE {}
  IN  /\ Resumes(c, p)
      /\ at' = [at EXCEPT ![p] = seat]
      /\ open' = (open \ stale) \cup ({seat} \cap Clients)
      /\ op' = Closed(op, stale)
      /\ seatToken' = Rotated(seatToken, p, learns)
      /\ void' = {d \in void \ learns : seatToken'[d] # NoToken}
      /\ account' = [SignedOff(stale) EXCEPT ![c] = IF c \in open THEN @ ELSE IF heard THEN p ELSE None]
      /\ UNCHANGED <<book, queue, seatRecord, audit>>

\* autoReconnectFromAuth: a client without account session gets one.  When the
\* token does not arrive, the connection is lost again.
ConnectToSeat(c, p, heard) ==
  /\ Quiet /\ c \notin open
  /\ TakeOverSeat(c, p, IF heard THEN c ELSE Held, heard)
  /\ record' = IF RestoredAccount(c) # p /\ heard
               THEN [RestoredRecords(c) EXCEPT ![c] = Record(p, book[p].version, seatRecord[p].password)]
               ELSE RestoredRecords(c)
  /\ stored' = [stored EXCEPT ![c] = IF heard THEN p ELSE stored[c]]

\* player:join with a session on a socket that is open.  A token that does not
\* arrive is still under way, or lost with the connection.
PlayerJoin(c, p, heard) ==
  /\ Quiet /\ c \in open
  /\ \A q \in Players \ {p} : at[q] # c
  /\ op[c].here => op[c].kind = "change" \/ (op[c].kind = "login" /\ op[c].player = p)
  /\ TakeOverSeat(c, p, c, heard)
  /\ UNCHANGED <<record, stored>>

PlayerJoinRefused(c) ==
  /\ Quiet /\ c \in open /\ seatToken[c] # NoToken
  /\ SeatRefused(c)
  /\ UNCHANGED <<storeVars, open, account, stored, record, at, audit>>

\* A tab is duplicated, or its session handed to one that has none.
CopySession(c, d) ==
  /\ Quiet /\ seatToken[c] # NoToken /\ seatToken[d] = NoToken
  /\ seatToken' = [seatToken EXCEPT ![d] = seatToken[c]]
  /\ void' = IF c \in void THEN void \cup {d} ELSE void \ {d}
  /\ UNCHANGED <<storeVars, open, account, stored, record, seatRecord, at, audit>>

Disconnect(c) ==
  /\ Quiet /\ c \in open
  /\ open' = open \ {c}
  /\ account' = SignedOff({c})
  /\ op' = Closed(op, {c})
  /\ at' = [p \in Players |-> IF at[p] = c THEN Held ELSE at[p]]
  /\ UNCHANGED <<book, queue, sessionVars, audit>>

\* ROTATION_GRACE_MS is over.
GraceEnds(c) ==
  /\ Quiet /\ seatToken[c].rank = "old"
  /\ seatToken' = [seatToken EXCEPT ![c] = NoToken]
  /\ void' = void \ {c}
  /\ UNCHANGED <<storeVars, open, account, stored, record, seatRecord, at, audit>>

\* A seat is given up, with its session: player:leave, or seatHoldMs is over.
FreeSeat(p) ==
  /\ at' = [at EXCEPT ![p] = None]
  /\ seatRecord' = [seatRecord EXCEPT ![p] = NoRecord]
  /\ void' = Voided(seatToken, p, {})
  /\ UNCHANGED <<storeVars, open, account, stored, record, seatToken, audit>>

PlayerLeave(p) == Quiet /\ at[p] \in open /\ FreeSeat(p)
HoldExpires(p) == Quiet /\ at[p] = Held /\ FreeSeat(p)

-----------------------------------------------------------------------------
(* Registration and login. *)

UnderWay == Cardinality({o \in Owners : op[o] # Idle})
CallsMore == /\ Quiet /\ UnderWay < MaxCalls
             /\ \A p \in Players : UnderWay + book[p].version <= MaxVersion
Free(c) == /\ CallsMore /\ c \in open /\ op[c] = Idle
           /\ \A p \in Players : UnderWay + book[p].version < MaxVersion

\* account:register up to the hash of the password.
AccountRegister(c, w) ==
  /\ Free(c)
  /\ \A p \in Players : at[p] # c
  /\ op' = [op EXCEPT ![c] = Op("register", "hashing", None, 0, w, "none")]
  /\ UNCHANGED <<book, queue, open, account, sessionVars, at, audit>>

RegisterHashed(c) ==
  /\ Quiet /\ op[c].stage = "hashing"
  /\ op' = [op EXCEPT ![c].stage = "queued"]
  /\ queue' = Append(queue, c)
  /\ UNCHANGED <<book, open, account, sessionVars, at, audit>>

\* account:login with the right password: authenticate reads the account and
\* then hashes.
AccountLogin(c, p) ==
  /\ Free(c) /\ Active(p)
  /\ \A q \in Players \ {p} : at[q] # c
  /\ op' = [op EXCEPT ![c] = Op("login", "checking", p, book[p].version, book[p].password, "none")]
  /\ UNCHANGED <<book, queue, open, account, sessionVars, at, audit>>

\* Fault: the session is given the version the account has by now.
EntersWithCurrentVersion(c, p, v, w) == \E free \in BOOLEAN :
  LET here == op[c].here
      stale == {at[p]} \cap (Clients \ {c})
      entry == at[p] # None \/ free
      now == Record(p, book[p].version, w)
      learns == IF here THEN {c} ELSE {}
  IN  /\ record' = IF here THEN [record EXCEPT ![c] = now] ELSE record
      /\ stored' = IF here THEN [stored EXCEPT ![c] = p] ELSE stored
      /\ at' = IF entry THEN [at EXCEPT ![p] = IF here THEN c ELSE Gone] ELSE at
      /\ seatRecord' = IF entry THEN [seatRecord EXCEPT ![p] = now] ELSE seatRecord
      /\ seatToken' = IF entry THEN Issued(seatToken, p, learns) ELSE seatToken
      /\ void' = IF entry THEN Voided(seatToken', p, learns) ELSE void
      /\ open' = IF entry THEN open \ stale ELSE open
      /\ account' = [SignedOff(IF entry THEN stale ELSE {}) EXCEPT ![c] = IF here THEN p ELSE @]
      /\ op' = [Closed(op, IF entry THEN stale ELSE {}) EXCEPT ![c] = Idle]
      /\ UNCHANGED <<book, queue, audit>>

\* issueAccountSession and enterRoomWithAccount with the account as it was
\* read.  When the room has no seat for a newcomer, or
\* plays (not free), only the account session is given.
Enters(c, p, v, w) == \E free \in BOOLEAN :
  LET here == op[c].here
      stale == {at[p]} \cap (Clients \ {c})
      entry == at[p] # None \/ free
      learns == IF here THEN {c} ELSE {}
  IN  /\ record' = IF here THEN [record EXCEPT ![c] = Record(p, v, w)] ELSE record
      /\ stored' = IF here THEN [stored EXCEPT ![c] = p] ELSE stored
      /\ at' = IF entry THEN [at EXCEPT ![p] = IF here THEN c ELSE Gone] ELSE at
      /\ seatRecord' = IF entry THEN [seatRecord EXCEPT ![p] = Record(p, v, w)] ELSE seatRecord
      /\ seatToken' = IF entry THEN Issued(seatToken, p, learns) ELSE seatToken
      /\ void' = IF entry THEN Voided(seatToken', p, learns) ELSE void
      /\ open' = IF entry THEN open \ stale ELSE open
      /\ account' = [SignedOff(IF entry THEN stale ELSE {}) EXCEPT ![c] = IF here THEN p ELSE @]
      /\ op' = [Closed(op, IF entry THEN stale ELSE {}) EXCEPT ![c] = Idle]
      /\ UNCHANGED <<book, queue, audit>>

LoginEnds(c) ==
  /\ Quiet /\ op[c].kind = "login"
  /\ Enters(c, op[c].player, op[c].version, op[c].password)

-----------------------------------------------------------------------------
(* Changes of accounts. *)

\* account:password:change and account:email:change.
AccountChange(c, w) ==
  LET p == account[c]
  IN  /\ Free(c) /\ Requires(c) /\ book[p].version + 1 < MaxVersion
      /\ op' = [op EXCEPT ![c] = Op("change", "queued", p, 0, w, "none")]
      /\ queue' = Append(queue, c)
      /\ UNCHANGED <<book, open, account, sessionVars, at, audit>>

\* account:sessions:revokeOthers
SessionsRevokeOthers(c) ==
  LET p == account[c]
  IN  /\ Free(c) /\ Requires(c)
      /\ record' = RevokeOthers(record, p, c)
      /\ IF at[p] = c
         THEN /\ seatRecord' = [seatRecord EXCEPT ![p] = Record(p, book[p].version, record[c].password)]
              /\ seatToken' = Issued(seatToken, p, {c})
              /\ void' = Voided(seatToken', p, {c})
         ELSE UNCHANGED <<seatRecord, seatToken, void>>
      /\ UNCHANGED <<storeVars, open, account, stored, at, audit>>

\* The store carries out the change at the head of its queue, or refuses it
\* (a wrong password, a taken name, an account that is not active any more, a
\* degraded store, a failed write).
Carried(o, p) == /\ queue' = Tail(queue)
                 /\ op' = [op EXCEPT ![o].stage = "answer", ![o].ok = TRUE, ![o].player = p,
                                     ![o].version = book'[p].version,
                                     ![o].password = book'[p].password]

StoreWorks(o) ==
  LET r == op[o]
      p == r.player
  IN  /\ queue # <<>> /\ Head(queue) = o
      /\ \/ /\ r.kind = "register"
            /\ \E q \in Players : Book!Register(q, q, q, r.password, "key") /\ Carried(o, q)
         \/ /\ r.kind = "change"
            /\ Book!ChangePassword(p, r.password) \/ Book!ChangeEmail(p, p, "key")
            /\ Carried(o, p)
         \/ r.kind = "status" /\ Book!SetStatus(p, r.status) /\ Carried(o, p)
         \/ /\ r.kind = "status" /\ book[p].status = r.status
            /\ UNCHANGED book /\ Carried(o, p)
         \/ r.kind = "delete" /\ Book!SoftDelete(p) /\ Carried(o, p)
      /\ UNCHANGED <<open, account, sessionVars, at, audit>>

StoreRefuses(o) ==
  /\ queue # <<>> /\ Head(queue) = o
  /\ queue' = Tail(queue)
  /\ op' = [op EXCEPT ![o].stage = "answer"]
  /\ UNCHANGED <<book, open, account, sessionVars, at, audit>>

\* A player's handler hears of a refusal.
AnswerRefusal(c) ==
  /\ c \in Clients /\ op[c].stage = "answer" /\ ~op[c].ok
  /\ op' = [op EXCEPT ![c] = Idle]
  /\ UNCHANGED <<book, queue, open, account, sessionVars, at, audit>>

AnswerRegister(c) ==
  /\ op[c].kind = "register" /\ op[c].stage = "answer" /\ op[c].ok
  /\ Enters(c, op[c].player, op[c].version, op[c].password)

\* issueAccountSession(_, true), and a seat session when this socket sits.
AnswerChange(c) ==
  LET r == op[c]
      p == r.player
      seated == at[p] # None /\ IF r.here THEN at[p] = c ELSE r.sits
  IN  /\ r.kind = "change" /\ r.stage = "answer" /\ r.ok
      /\ record' = IF r.here
                   THEN [RevokePlayer(record, p) EXCEPT ![c] = Record(p, r.version, r.password)]
                   ELSE RevokePlayer(record, p)
      /\ account' = IF r.here THEN [account EXCEPT ![c] = p] ELSE account
      /\ stored' = IF r.here THEN [stored EXCEPT ![c] = p] ELSE stored
      /\ IF seated
         THEN /\ seatRecord' = [seatRecord EXCEPT ![p] = Record(p, r.version, r.password)]
              /\ seatToken' = Issued(seatToken, p, IF r.here THEN {c} ELSE {})
              /\ void' = Voided(seatToken', p, IF r.here THEN {c} ELSE {})
         ELSE UNCHANGED <<seatRecord, seatToken, void>>
      /\ op' = [op EXCEPT ![c] = Idle]
      /\ UNCHANGED <<book, queue, open, at, audit>>

-----------------------------------------------------------------------------
(* The admin's accounts page. *)

\* A pending entry; completeAdminAudit closes it.
Entry(p, action) == [player |-> p, action |-> action]

\* removeAccountPresence
RemovePresence(p) ==
  LET stale == {at[p]} \cap open
  IN  /\ seatRecord' = [seatRecord EXCEPT ![p] = NoRecord]
      /\ record' = RevokePlayer(record, p)
      /\ void' = Voided(seatToken, p, {})
      /\ at' = [at EXCEPT ![p] = None]
      /\ open' = open \ stale
      /\ account' = SignedOff(stale)

AdminActs == CallsMore /\ op[Admin] = Idle

\* The entry of a forced logout is opened and closed before its effects; when
\* it cannot be written nothing happens.
AdminForceLogout(p) ==
  /\ AdminActs /\ Book!Live(book, p)
  /\ RemovePresence(p)
  /\ op' = [Closed(op, {at[p]} \cap open) EXCEPT ![Admin] = Idle]
  /\ UNCHANGED <<book, queue, stored, seatToken, audit>>

\* Fault: the entry is written once the store is done.
AdminCallUnaudited(p, kind, s) ==
  /\ AdminActs /\ book[p].status # "absent" /\ book[p].version < MaxVersion
  /\ op' = [op EXCEPT ![Admin] = Op(kind, "queued", p, 0, None, s)]
  /\ queue' = Append(queue, Admin)
  /\ UNCHANGED <<book, open, account, sessionVars, at, audit>>

\* admin:accounts:setStatus and softDelete up to the await.
AdminCall(p, kind, s) ==
  /\ AdminActs /\ book[p].status # "absent" /\ book[p].version < MaxVersion
  /\ audit' = Entry(p, s)
  /\ op' = [op EXCEPT ![Admin] = Op(kind, "queued", p, 0, None, s)]
  /\ queue' = Append(queue, Admin)
  /\ UNCHANGED <<book, open, account, sessionVars, at>>

AnswerAdmin ==
  LET r == op[Admin]
      p == r.player
  IN  /\ r.stage = "answer"
      /\ audit' = NoEntry
      /\ IF r.ok /\ r.status # "active"
         THEN /\ RemovePresence(p)
              /\ op' = [Closed(op, {at[p]} \cap open) EXCEPT ![Admin] = Idle]
         ELSE /\ op' = [op EXCEPT ![Admin] = Idle]
              /\ UNCHANGED <<open, account, record, seatRecord, void, at>>
      /\ UNCHANGED <<book, queue, stored, seatToken>>

\* The process starts again: sessions, seats and calls were in its memory.
Restart ==
  /\ op' = [o \in Owners |-> Idle] /\ queue' = <<>>
  /\ open' = {} /\ account' = [c \in Clients |-> None]
  /\ record' = [c \in Clients |-> NoRecord]
  /\ seatRecord' = [p \in Players |-> NoRecord]
  /\ at' = [p \in Players |-> None]
  /\ void' = {c \in Clients : seatToken[c] # NoToken}
  /\ audit' = NoEntry
  /\ UNCHANGED <<book, stored, seatToken>>

ClientNext(c) ==
  \/ StaleRequest(c) \/ ConnectWithoutSeat(c) \/ Disconnect(c) \/ GraceEnds(c)
  \/ \E p \in Players, heard \in BOOLEAN : ConnectToSeat(c, p, heard) \/ PlayerJoin(c, p, heard)
  \/ PlayerJoinRefused(c) \/ \E d \in Clients : CopySession(c, d)
  \/ \E w \in Passwords : AccountRegister(c, w) \/ AccountChange(c, w)
  \/ RegisterHashed(c) \/ AnswerRegister(c)
  \/ \E p \in Players : AccountLogin(c, p)
  \/ LoginEnds(c)
  \/ AnswerChange(c)
  \/ SessionsRevokeOthers(c) \/ AnswerRefusal(c)

Next ==
  \/ \E c \in Clients : ClientNext(c)
  \/ \E p \in Players : PlayerLeave(p) \/ HoldExpires(p) \/ AdminForceLogout(p)
                        \/ \E s \in {"active", "disabled"} : AdminCall(p, "status", s)
                        \/ AdminCall(p, "delete", "deleted")
  \/ \E o \in Owners : StoreWorks(o) \/ StoreRefuses(o)
  \/ AnswerAdmin \/ Restart

Spec == Init /\ [][Next]_vars

-----------------------------------------------------------------------------
(* Properties. *)

\* Types of the variables.
TypeOK ==
  /\ Book!TypeOK
  /\ open \subseteq Clients
  /\ account \in [Clients -> Players \cup {None}]
  /\ stored \in [Clients -> Players \cup {None}]
  /\ record \in [Clients -> [player : Players \cup {None}, version : Nat, password : Passwords \cup {None}]]
  /\ seatToken \in [Clients -> [player : Players \cup {None}, rank : {"new", "old", "dead"}]]
  /\ at \in [Players -> Clients \cup {None, Held, Gone}]
  /\ void \subseteq Clients
  /\ audit \in [player : Players, action : {"active", "disabled", "deleted"}] \cup {NoEntry}

\* A session of either kind that would be accepted was given for the password
\* the account has now, also when a login read the account before the password
\* was changed and ended after it.
OldPasswordOpensNothing ==
  /\ TypeOK
  /\ \A c \in Clients, p \in Players :
       /\ Restores(c, p) => record[c].password = book[p].password
       /\ Resumes(c, p) => seatRecord[p].password = book[p].password

\* A seat is taken over, also by a copy on another socket, with a session that
\* is still good only: one that was there before the player logged in again,
\* left, was removed or lost the seat, or before the tab at the seat changed
\* its credentials or revoked the others, opens the seat never again, also not
\* when the player sits again with the same version of the account.
SeatNeedsItsSession ==
  \A c \in void, p \in Players : ~Resumes(c, p)

\* A session that was not accepted stays so, also when the account is enabled
\* again, unless its own client signs in, resumes its seat or is answered.
NothingRevives ==
  [][\A c \in Clients, p \in Players :
       (~Restores(c, p) /\ Restores(c, p)') =>
          \/ LoginEnds(c) \/ AnswerRegister(c) \/ AnswerChange(c)
          \/ ConnectToSeat(c, p, TRUE)]_vars

\* Whatever the admin does to an account, the audit file ends with a pending
\* entry of it before the change, which a crash in between leaves behind.
AuditedFirst ==
  [][\A p \in Players :
       (book[p].status # "absent" /\ book'[p].status # book[p].status) =>
         audit = Entry(p, book'[p].status)]_vars

=============================================================================
