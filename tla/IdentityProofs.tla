---------------------------- MODULE IdentityProofs ----------------------------
(***************************************************************************)
(* Proofs about sessions and seats, for any number of accounts, tabs,      *)
(* passwords and calls: a session that opens anything was given for the    *)
(* password of now, one that was revoked opens no seat again, what was     *)
(* refused stays refused and what the admin does is in the audit file.     *)
(***************************************************************************)
EXTENDS Identity, TLAPS

-----------------------------------------------------------------------------
(* The inductive invariant. *)

Operation ==
  [kind : {"none", "register", "login", "change", "status", "delete"},
   stage : {"idle", "hashing", "checking", "queued", "answer"},
   player : Players \cup {None}, version : Nat, password : Passwords \cup {None},
   status : {"none", "active", "disabled", "deleted"},
   ok : BOOLEAN, here : BOOLEAN, sits : BOOLEAN]

SessionRecord == [player : Players \cup {None}, version : Nat, password : Passwords \cup {None}]

\* TypeOK, with what it leaves out.
Typed ==
  /\ TypeOK
  /\ op \in [Owners -> Operation]
  /\ seatRecord \in [Players -> SessionRecord]

\* Nothing was given for a version to come, and what was given for the version
\* of now was given for the password of now.
Fits(b, r) ==
  r.player \in Players =>
    /\ r.version <= b[r.player].version
    /\ r.version = b[r.player].version => r.password = b[r.player].password

\* So it is with sessions of both kinds and with whatever will become one: a
\* login that is being checked, and an answer of the store.
Credentials ==
  /\ \A c \in Clients : Fits(book, record[c])
  /\ \A p \in Players : Fits(book, seatRecord[p])
  /\ \A o \in Owners : op[o].kind = "login" \/ op[o].ok => op[o].player \in Players /\ Fits(book, op[o])

\* A socket that holds a seat is open, holds one seat only and does not wait
\* to be let in to another.
Seating ==
  /\ \A p \in Players : at[p] \in Clients => at[p] \in open
  /\ \A p, q \in Players : at[p] = at[q] /\ at[p] \in Clients => p = q
  /\ \A c \in Clients : op[c].here =>
       /\ c \in open
       /\ op[c].kind = "register" => \A q \in Players : at[q] # c
       /\ op[c].kind = "login" => \A q \in Players \ {op[c].player} : at[q] # c

HasToken(t, p) == t.player = p /\ t.rank # "dead"

\* A player whose token was revoked has no session, unless its token is not
\* kept any more.
Tokens ==
  \A c \in void, p \in Players : HasToken(seatToken[c], p) => seatRecord[p].player # p

\* Who calls for what, and the admin's call with its entry.
Calls ==
  /\ \A c \in Clients : op[c].kind \in {"none", "register", "login", "change"}
  /\ op[Admin].kind \in {"none", "status", "delete"}
  /\ \A o \in Owners : op[o].kind \in {"change", "status", "delete"} => op[o].player \in Players
  /\ op[Admin].kind # "none" => audit = Entry(op[Admin].player, op[Admin].status)
  /\ op[Admin].kind = "status" => op[Admin].status \in {"active", "disabled"}
  /\ op[Admin].kind = "delete" => op[Admin].status = "deleted"

IdentityInv == Typed /\ Credentials /\ Seating /\ Tokens /\ Calls

-----------------------------------------------------------------------------
(* Records and their fields. *)

LEMMA Distinct ==
  /\ None \notin Players /\ None \notin Passwords /\ None \notin Clients
  /\ Admin \notin Clients /\ Held \notin Clients /\ Gone \notin Clients
  /\ Admin \in Owners /\ Clients \subseteq Owners
  BY IdentityAssumption DEF Owners

LEMMA OperationFields ==
  ASSUME NEW x \in Operation
  PROVE  /\ x.kind \in {"none", "register", "login", "change", "status", "delete"}
         /\ x.stage \in {"idle", "hashing", "checking", "queued", "answer"}
         /\ x.player \in Players \cup {None} /\ x.version \in Nat
         /\ x.password \in Passwords \cup {None}
         /\ x.status \in {"none", "active", "disabled", "deleted"}
         /\ x.ok \in BOOLEAN /\ x.here \in BOOLEAN /\ x.sits \in BOOLEAN
  BY DEF Operation

LEMMA IdleOperation ==
  /\ Idle \in Operation
  /\ Idle.kind = "none" /\ Idle.stage = "idle" /\ Idle.ok = FALSE /\ Idle.here = FALSE
  BY DEF Idle, Operation

LEMMA StagedOperation ==
  ASSUME NEW x \in Operation, NEW g \in {"queued", "answer"}, NEW y, y = [x EXCEPT !.stage = g]
  PROVE  /\ y \in Operation
         /\ y.kind = x.kind /\ y.player = x.player /\ y.version = x.version
         /\ y.password = x.password /\ y.status = x.status /\ y.ok = x.ok /\ y.here = x.here
  BY Zenon DEF Operation

\* Calls whose socket is closed are the same calls.
LEMMA ClosedCalls ==
  ASSUME op \in [Owners -> Operation], NEW S
  PROVE  /\ Closed(op, S) \in [Owners -> Operation]
         /\ \A o \in Owners :
              /\ Closed(op, S)[o].kind = op[o].kind /\ Closed(op, S)[o].player = op[o].player
              /\ Closed(op, S)[o].version = op[o].version
              /\ Closed(op, S)[o].password = op[o].password
              /\ Closed(op, S)[o].status = op[o].status /\ Closed(op, S)[o].ok = op[o].ok
              /\ Closed(op, S)[o].here => op[o].here /\ o \notin S
  <1>1. ASSUME NEW o \in Owners
        PROVE  /\ Closed(op, S)[o] \in Operation
               /\ Closed(op, S)[o].kind = op[o].kind /\ Closed(op, S)[o].player = op[o].player
               /\ Closed(op, S)[o].version = op[o].version
               /\ Closed(op, S)[o].password = op[o].password
               /\ Closed(op, S)[o].status = op[o].status /\ Closed(op, S)[o].ok = op[o].ok
               /\ Closed(op, S)[o].here => op[o].here /\ o \notin S
    <2> DEFINE b == \/ op[o].sits
                    \/ op[o].kind = "change" /\ op[o].here /\ at[op[o].player] = o
    <2>1. op[o] \in Operation
      OBVIOUS
    <2>2. b \in BOOLEAN
      BY <2>1, OperationFields
    <2>3. CASE o \in S
      <3>1. PICK v \in BOOLEAN : v = b
        BY <2>2
      <3>2. PICK x : x = op[o]
        OBVIOUS
      <3>3. PICK y : y = Closed(op, S)[o]
        OBVIOUS
      <3>4. y = [x EXCEPT !.here = FALSE, !.sits = v]
        BY <2>3, <3>1, <3>2, <3>3 DEF Closed
      <3> HIDE DEF b
      <3>5. /\ y \in Operation
            /\ y.kind = x.kind /\ y.player = x.player /\ y.version = x.version
            /\ y.password = x.password /\ y.status = x.status /\ y.ok = x.ok
            /\ y.here = FALSE
        BY Zenon, <2>1, <3>1, <3>2, <3>4 DEF Operation
      <3> QED
        BY <2>3, <3>2, <3>3, <3>5
    <2>4. CASE o \notin S
      BY <2>1, <2>4 DEF Closed
    <2> QED
      BY <2>3, <2>4
  <1>2. Closed(op, S) = [o \in Owners |-> Closed(op, S)[o]]
    BY DEF Closed
  <1> QED
    BY <1>1, <1>2

-----------------------------------------------------------------------------
(* What the store does to the book. *)

LEMMA AccountFields ==
  ASSUME NEW x \in Book!Account
  PROVE  /\ x.status \in {"active", "disabled", "deleted"}
         /\ x.password \in Passwords \cup {None}
         /\ x.version \in Nat /\ x.version + 1 \in Nat
         /\ x.email \in Players \cup {None} /\ x.nick \in Players \cup {None}
         /\ x.lock \in {"key"} \cup {None}
  BY DEF Book!Account

LEMMA BookFields ==
  ASSUME Book!TypeOK, NEW p \in Players
  PROVE  /\ book[p].version \in Nat
         /\ book[p].password \in Passwords \cup {None}
         /\ \/ book[p] \in Book!Account
            \/ book[p].status = "absent" /\ book[p].version = 0
  <1>1. book[p] \in Book!Account \/ book[p] = Book!Absent
    BY DEF Book!TypeOK, Book!Books
  <1>2. CASE book[p] \in Book!Account
    BY <1>2, AccountFields
  <1>3. CASE book[p] = Book!Absent
    BY <1>3 DEF Book!Absent
  <1> QED
    BY <1>1, <1>2, <1>3

LEMMA RepasswordedAccount ==
  ASSUME NEW x \in Book!Account, NEW w \in Passwords \cup {None}, NEW y,
         y = Book!Repassworded(x, w)
  PROVE  y \in Book!Account /\ y.status = x.status /\ y.version = x.version + 1 /\ y.password = w
  BY Zenon, AccountFields DEF Book!Account, Book!Repassworded

LEMMA ReaddressedAccount ==
  ASSUME NEW x \in Book!Account, NEW e \in Players, NEW y, y = Book!Readdressed(x, e, "key")
  PROVE  y \in Book!Account /\ y.status = x.status /\ y.version = x.version + 1
  BY Zenon, AccountFields DEF Book!Account, Book!Readdressed

LEMMA SwitchedAccount ==
  ASSUME NEW x \in Book!Account, NEW t \in {"active", "disabled"}, NEW y, y = Book!WithStatus(x, t)
  PROVE  y \in Book!Account /\ y.status = t /\ y.version = x.version + 1
  BY Zenon, AccountFields DEF Book!Account, Book!WithStatus

LEMMA ErasedAccount ==
  ASSUME NEW x \in Book!Account, NEW y, y = Book!Tombstone(x)
  PROVE  y \in Book!Account /\ y.status = "deleted" /\ y.version = x.version + 1
  BY Zenon, AccountFields DEF Book!Account, Book!Tombstone

LEMMA RegisteredAccount ==
  ASSUME NEW p \in Players, NEW w \in Passwords \cup {None}
  PROVE  /\ Book!Registered(p, p, w, "key") \in Book!Account
         /\ Book!Registered(p, p, w, "key").status = "active"
         /\ Book!Registered(p, p, w, "key").version = 1
  BY DEF Book!Registered, Book!Account

\* The account of p has changed, and its version with it.
Changed(p) ==
  /\ Book!TypeOK'
  /\ book'[p].version \in Nat /\ book'[p].version > book[p].version
  /\ \A q \in Players \ {p} : book'[q] = book[q]

LEMMA AccountChanges ==
  ASSUME Book!TypeOK, NEW p \in Players, NEW a \in Book!Account, a.version > book[p].version,
         book' = [book EXCEPT ![p] = a]
  PROVE  Changed(p) /\ book'[p] = a
  BY AccountFields DEF Book!TypeOK, Book!Books, Changed

LEMMA RegisterChanges ==
  ASSUME Book!TypeOK, NEW p \in Players, NEW w \in Passwords \cup {None},
         Book!Register(p, p, p, w, "key")
  PROVE  Changed(p) /\ book[p].status = "absent"
  <1>1. book[p].version = 0 /\ book[p].status = "absent"
    BY DEF Book!Register, Book!Absent
  <1>2. book' = [book EXCEPT ![p] = Book!Registered(p, p, w, "key")]
    BY DEF Book!Register
  <1>3. PICK a : a = Book!Registered(p, p, w, "key")
    OBVIOUS
  <1>4. a \in Book!Account /\ a.version > book[p].version
    BY <1>1, <1>3, RegisteredAccount
  <1>5. book' = [book EXCEPT ![p] = a]
    BY <1>2, <1>3
  <1> QED
    BY <1>1, <1>4, <1>5, AccountChanges

LEMMA OwnerChanges ==
  ASSUME Book!TypeOK, NEW p \in Players, NEW w \in Passwords \cup {None},
         Book!ChangePassword(p, w) \/ Book!ChangeEmail(p, p, "key")
  PROVE  Changed(p) /\ book'[p].status = book[p].status
  <1>1. book[p].status = "active" /\ book[p] \in Book!Account
    BY BookFields DEF Book!ChangePassword, Book!ChangeEmail
  <1>2. book[p].version \in Nat
    BY BookFields
  <1>3. PICK a : /\ a = Book!Repassworded(book[p], w) \/ a = Book!Readdressed(book[p], p, "key")
                 /\ book' = [book EXCEPT ![p] = a]
    BY DEF Book!ChangePassword, Book!ChangeEmail
  <1>4. a \in Book!Account /\ a.status = book[p].status /\ a.version = book[p].version + 1
    BY <1>1, <1>3, RepasswordedAccount, ReaddressedAccount
  <1>5. a.version > book[p].version
    BY <1>2, <1>4
  <1>6. book' = [book EXCEPT ![p] = a] /\ a \in Book!Account
    BY <1>3, <1>4
  <1>7. Changed(p) /\ book'[p] = a
    BY <1>5, <1>6, AccountChanges
  <1> QED
    BY <1>3, <1>4, <1>7

LEMMA AdminChanges ==
  ASSUME Book!TypeOK, NEW p \in Players, NEW t,
         \/ t \in {"active", "disabled"} /\ Book!SetStatus(p, t)
         \/ t = "deleted" /\ Book!SoftDelete(p)
  PROVE  Changed(p) /\ book'[p].status = t
  <1>1. book[p] \in Book!Account
    BY BookFields DEF Book!SetStatus, Book!SoftDelete, Book!Live
  <1>2. book[p].version \in Nat
    BY BookFields
  <1>3. PICK a : /\ \/ t \in {"active", "disabled"} /\ a = Book!WithStatus(book[p], t)
                    \/ t = "deleted" /\ a = Book!Tombstone(book[p])
                 /\ book' = [book EXCEPT ![p] = a]
    BY DEF Book!SetStatus, Book!SoftDelete
  <1>4. a \in Book!Account /\ a.status = t /\ a.version = book[p].version + 1
    BY <1>1, <1>3, SwitchedAccount, ErasedAccount
  <1>5. a.version > book[p].version
    BY <1>2, <1>4
  <1>6. book' = [book EXCEPT ![p] = a] /\ a \in Book!Account
    BY <1>3, <1>4
  <1>7. Changed(p) /\ book'[p] = a
    BY <1>5, <1>6, AccountChanges
  <1> QED
    BY <1>3, <1>4, <1>7

-----------------------------------------------------------------------------
(* Sessions and tokens. *)

TokenRecord == [player : Players \cup {None}, rank : {"new", "old", "dead"}]

LEMMA RecordFields ==
  /\ \A x \in SessionRecord : x.player \in Players \cup {None} /\ x.version \in Nat
                             /\ x.password \in Passwords \cup {None}
  /\ NoRecord \in SessionRecord /\ NoRecord.player = None
  /\ \A p \in Players, v \in Nat, w \in Passwords \cup {None} :
       /\ Record(p, v, w) \in SessionRecord
       /\ Record(p, v, w).player = p /\ Record(p, v, w).version = v
       /\ Record(p, v, w).password = w
  BY DEF SessionRecord, NoRecord, Record

LEMMA TokenFields ==
  /\ NoToken \in TokenRecord /\ \A q : ~HasToken(NoToken, q)
  /\ \A p \in Players : /\ [player |-> p, rank |-> "new"] \in TokenRecord
                       /\ \A q : HasToken([player |-> p, rank |-> "new"], q) => q = p
  BY DEF NoToken, HasToken, TokenRecord

\* No client but those of S has another session than before.
Fewer(r, S) ==
  /\ r \in [Clients -> SessionRecord]
  /\ \A d \in Clients \ S : r[d] \in {record[d], NoRecord}

LEMMA RevokingLeavesFewer ==
  ASSUME record \in [Clients -> SessionRecord], NEW S
  PROVE  /\ Fewer(record, S)
         /\ \A p : Fewer(RevokePlayer(record, p), S)
         /\ \A p, c : Fewer(RevokeOthers(record, p, c), S)
         /\ \A c : Fewer(RestoredRecords(c), S)
  <1>1. NoRecord \in SessionRecord
    BY RecordFields
  <1>2. Fewer(record, S)
    BY DEF Fewer
  <1>3. ASSUME NEW p PROVE Fewer(RevokePlayer(record, p), S)
    BY <1>1 DEF Fewer, RevokePlayer
  <1>4. ASSUME NEW p, NEW c PROVE Fewer(RevokeOthers(record, p, c), S)
    BY <1>1 DEF Fewer, RevokeOthers
  <1>5. ASSUME NEW c PROVE Fewer(RestoredRecords(c), S)
    BY <1>2, <1>3 DEF RestoredRecords
  <1> QED
    BY <1>2, <1>3, <1>4, <1>5

LEMMA GrantedSession ==
  ASSUME NEW r, NEW c \in Clients, Fewer(r, {}), NEW x \in SessionRecord
  PROVE  Fewer([r EXCEPT ![c] = x], {c}) /\ [r EXCEPT ![c] = x][c] = x
  BY DEF Fewer

\* The tokens of the seat of p that are issued are those of S, and no other
\* token is touched but that they take the place of.
LEMMA IssuedTokens ==
  ASSUME seatToken \in [Clients -> TokenRecord], NEW p \in Players, NEW S
  PROVE  /\ Issued(seatToken, p, S) \in [Clients -> TokenRecord]
         /\ \A c \in Clients : HasToken(Issued(seatToken, p, S)[c], p) => c \in S
         /\ \A c \in Clients, q \in Players \ {p} :
              HasToken(Issued(seatToken, p, S)[c], q) => HasToken(seatToken[c], q)
  <1>1. Issued(seatToken, p, S) \in [Clients -> TokenRecord]
    BY TokenFields DEF Issued
  <1>2. ASSUME NEW c \in Clients, NEW q, HasToken(Issued(seatToken, p, S)[c], q)
        PROVE  IF c \in S THEN q = p ELSE q # p /\ HasToken(seatToken[c], q)
    <2>1. CASE c \in S
      BY <1>2, <2>1, TokenFields DEF Issued
    <2>2. CASE c \notin S
      <3>1. CASE seatToken[c].player = p
        BY <1>2, <2>2, <3>1, TokenFields DEF Issued
      <3>2. CASE seatToken[c].player # p
        BY <1>2, <2>2, <3>2 DEF Issued, HasToken
      <3> QED
        BY <3>1, <3>2
    <2> QED
      BY <2>1, <2>2
  <1> QED
    BY <1>1, <1>2

LEMMA RotatedTokens ==
  ASSUME seatToken \in [Clients -> TokenRecord], NEW p \in Players, NEW S
  PROVE  /\ Rotated(seatToken, p, S) \in [Clients -> TokenRecord]
         /\ \A c \in Clients, q \in Players :
              HasToken(Rotated(seatToken, p, S)[c], q) =>
                HasToken(seatToken[c], q) \/ (q = p /\ c \in S)
  <1>1. \A x \in TokenRecord : /\ [x EXCEPT !.rank = "old"] \in TokenRecord
                              /\ [x EXCEPT !.rank = "old"].player = x.player
    BY Zenon DEF TokenRecord
  <1>2. Rotated(seatToken, p, S) \in [Clients -> TokenRecord]
    BY <1>1, TokenFields DEF Rotated
  <1>3. ASSUME NEW c \in Clients, NEW q \in Players, HasToken(Rotated(seatToken, p, S)[c], q)
        PROVE  HasToken(seatToken[c], q) \/ (q = p /\ c \in S)
    <2>1. CASE c \in S
      BY <1>3, <2>1, TokenFields DEF Rotated
    <2>2. CASE c \notin S /\ seatToken[c].player # p
      BY <1>3, <2>2 DEF Rotated
    <2>3. CASE c \notin S /\ seatToken[c].player = p /\ seatToken[c].rank = "new"
      BY <1>1, <1>3, <2>3 DEF Rotated, HasToken
    <2>4. CASE c \notin S /\ seatToken[c].player = p /\ seatToken[c].rank # "new"
      BY <1>3, <2>4, TokenFields DEF Rotated
    <2> QED
      BY <2>1, <2>2, <2>3, <2>4
  <1> QED
    BY <1>2, <1>3

LEMMA SignedOffAccounts ==
  ASSUME account \in [Clients -> Players \cup {None}], NEW S
  PROVE  SignedOff(S) \in [Clients -> Players \cup {None}]
  BY DEF SignedOff

LEMMA RestoredAccounts ==
  ASSUME stored \in [Clients -> Players \cup {None}], NEW c \in Clients
  PROVE  RestoredAccount(c) \in Players \cup {None}
  BY DEF RestoredAccount

-----------------------------------------------------------------------------
(* What keeps the parts of the invariant. *)

LEMMA TypedParts ==
  ASSUME Typed
  PROVE  /\ Book!TypeOK
         /\ open \subseteq Clients
         /\ account \in [Clients -> Players \cup {None}]
         /\ stored \in [Clients -> Players \cup {None}]
         /\ record \in [Clients -> SessionRecord]
         /\ seatToken \in [Clients -> TokenRecord]
         /\ at \in [Players -> Clients \cup {None, Held, Gone}]
         /\ audit \in [player : Players, action : {"active", "disabled", "deleted"}] \cup {NoEntry}
         /\ op \in [Owners -> Operation]
         /\ seatRecord \in [Players -> SessionRecord]
         /\ void \subseteq Clients
  BY Zenon DEF Typed, TypeOK, SessionRecord, TokenRecord

LEMMA TypedNext ==
  ASSUME Book!TypeOK', open' \subseteq Clients,
         account' \in [Clients -> Players \cup {None}],
         stored' \in [Clients -> Players \cup {None}],
         record' \in [Clients -> SessionRecord],
         seatToken' \in [Clients -> TokenRecord],
         at' \in [Players -> Clients \cup {None, Held, Gone}],
         audit' \in [player : Players, action : {"active", "disabled", "deleted"}] \cup {NoEntry},
         op' \in [Owners -> Operation],
         seatRecord' \in [Players -> SessionRecord],
         void' \subseteq Clients
  PROVE  Typed'
  BY Zenon DEF Typed, TypeOK, SessionRecord, TokenRecord

\* Versions only grow: what fits the book goes on to do so.
LEMMA FitsStays ==
  ASSUME Book!TypeOK, book' = book \/ \E p \in Players : Changed(p),
         NEW r, r.version \in Nat, Fits(book, r)
  PROVE  Fits(book', r)
  <1>1. CASE book' = book
    BY <1>1
  <1>2. ASSUME NEW p \in Players, Changed(p) PROVE Fits(book', r)
    <2>1. book[p].version \in Nat
      BY BookFields
    <2>2. CASE r.player = p
      <3>1. r.version <= book[p].version
        BY <2>2 DEF Fits
      <3>2. book'[p].version \in Nat /\ book'[p].version > book[p].version
        BY <1>2 DEF Changed
      <3>3. r.version < book'[p].version
        BY <2>1, <3>1, <3>2
      <3>4. r.version <= book'[p].version /\ r.version # book'[p].version
        BY <3>2, <3>3
      <3> QED
        BY <2>2, <3>4 DEF Fits
    <2>3. CASE r.player # p
      BY <1>2, <2>3 DEF Fits, Changed
    <2> QED
      BY <2>2, <2>3
  <1> QED
    BY <1>1, <1>2

LEMMA CredentialsKept ==
  ASSUME Typed, Credentials, book' = book,
         \A c \in Clients : record'[c] \in {record[c], NoRecord} \/ Fits(book, record'[c]),
         \A p \in Players : seatRecord'[p] \in {seatRecord[p], NoRecord} \/ Fits(book, seatRecord'[p]),
         \A o \in Owners :
           \/ op'[o].kind # "login" /\ ~op'[o].ok
           \/ op'[o].player \in Players /\ Fits(book, op'[o])
           \/ /\ op'[o].kind = op[o].kind /\ op'[o].player = op[o].player
              /\ op'[o].version = op[o].version /\ op'[o].password = op[o].password
              /\ op'[o].ok = op[o].ok
  PROVE  Credentials'
  <1>1. Fits(book, NoRecord)
    BY RecordFields, Distinct DEF Fits
  <1>2. ASSUME NEW c \in Clients PROVE Fits(book', record'[c])
    BY <1>1 DEF Credentials
  <1>3. ASSUME NEW p \in Players PROVE Fits(book', seatRecord'[p])
    BY <1>1 DEF Credentials
  <1>4. ASSUME NEW o \in Owners, op'[o].kind = "login" \/ op'[o].ok
        PROVE  op'[o].player \in Players /\ Fits(book', op'[o])
    BY <1>4 DEF Credentials, Fits
  <1> QED
    BY <1>2, <1>3, <1>4 DEF Credentials

\* o calls now as it did, possibly from a socket that was closed.
SameCall(o) ==
  /\ op'[o].kind = op[o].kind /\ op'[o].player = op[o].player
  /\ op'[o].status = op[o].status
  /\ op'[o].here => op[o].here /\ o \in open'

LEMMA CallsKept ==
  ASSUME Calls, \A c \in Clients : op'[c].kind = "none" \/ SameCall(c),
         \/ op'[Admin].kind = "none"
         \/ /\ op'[Admin].kind = op[Admin].kind /\ op'[Admin].player = op[Admin].player
            /\ op'[Admin].status = op[Admin].status /\ audit' = audit
  PROVE  Calls'
  <1>1. \A c \in Clients : op'[c].kind \in {"none", "register", "login", "change"}
    BY DEF Calls, SameCall
  <1>2. op'[Admin].kind \in {"none", "status", "delete"}
    BY DEF Calls
  <1>3. ASSUME NEW o \in Owners, op'[o].kind \in {"change", "status", "delete"}
        PROVE  op'[o].player \in Players
    BY <1>3 DEF Calls, SameCall, Owners
  <1>4. op'[Admin].kind # "none" => audit' = Entry(op'[Admin].player, op'[Admin].status)
    BY DEF Calls
  <1>5. /\ op'[Admin].kind = "status" => op'[Admin].status \in {"active", "disabled"}
        /\ op'[Admin].kind = "delete" => op'[Admin].status = "deleted"
    BY DEF Calls
  <1> QED
    BY <1>1, <1>2, <1>3, <1>4, <1>5, Zenon DEF Calls

\* Nobody has taken a seat.
LEMMA SeatingKept ==
  ASSUME Seating,
         \A p \in Players : at'[p] \in Clients => at'[p] = at[p] /\ at'[p] \in open',
         \A c \in Clients : op'[c].here =>
           \/ SameCall(c)
           \/ c \in open' /\ op'[c].kind \notin {"register", "login"}
           \/ c \in open' /\ \A q \in Players : at'[q] = c => op'[c].kind = "login" /\ op'[c].player = q
  PROVE  Seating'
  <1>1. \A p \in Players : at'[p] \in Clients => at'[p] \in open'
    OBVIOUS
  <1>2. \A p, q \in Players : at'[p] = at'[q] /\ at'[p] \in Clients => p = q
    BY DEF Seating
  <1>3. ASSUME NEW c \in Clients, op'[c].here
        PROVE  /\ c \in open'
               /\ op'[c].kind = "register" => \A q \in Players : at'[q] # c
               /\ op'[c].kind = "login" => \A q \in Players \ {op'[c].player} : at'[q] # c
    <2>1. CASE SameCall(c)
      BY <1>3, <2>1 DEF Seating, SameCall
    <2>2. CASE c \in open' /\ op'[c].kind \notin {"register", "login"}
      BY <2>2
    <2>3. CASE c \in open' /\ \A q \in Players : at'[q] = c => op'[c].kind = "login" /\ op'[c].player = q
      BY <2>3
    <2> QED
      BY <1>3, <2>1, <2>2, <2>3
  <1> QED
    BY <1>1, <1>2, <1>3, Zenon DEF Seating

LEMMA TokensKept ==
  ASSUME Tokens,
         \A p \in Players : seatRecord'[p] \in {seatRecord[p], NoRecord},
         \A c \in void', p \in Players : HasToken(seatToken'[c], p) =>
           (c \in void /\ HasToken(seatToken[c], p)) \/ seatRecord'[p] = NoRecord
  PROVE  Tokens'
  <1>1. NoRecord.player \notin Players
    BY RecordFields, Distinct
  <1>2. ASSUME NEW c \in void', NEW p \in Players, HasToken(seatToken'[c], p)
        PROVE  seatRecord'[p].player # p
    BY <1>1, <1>2 DEF Tokens
  <1> QED
    BY <1>2 DEF Tokens

\* The tokens of p are revoked, all of them.
LEMMA TokensRevoked ==
  ASSUME Typed, Tokens, NEW p \in Players,
         seatToken' = seatToken, seatRecord' = [seatRecord EXCEPT ![p] = NoRecord],
         void' = Voided(seatToken, p, {})
  PROVE  Tokens' /\ void' \subseteq Clients
  <1>1. \A q \in Players : seatRecord'[q] = IF q = p THEN NoRecord ELSE seatRecord[q]
    BY TypedParts
  <1>2. \A c \in void', q \in Players :
          HasToken(seatToken'[c], q) => q = p \/ (c \in void /\ HasToken(seatToken[c], q))
    BY DEF Voided, HasToken
  <1> QED
    BY <1>1, <1>2, TokensKept DEF Voided

\* p has a new session, of which those of S have the token.
LEMMA TokensIssuedTo ==
  ASSUME Typed, Tokens, NEW p \in Players, NEW S,
         seatToken' = Issued(seatToken, p, S), void' = Voided(seatToken', p, S),
         \A q \in Players \ {p} : seatRecord'[q] = seatRecord[q]
  PROVE  Tokens' /\ void' \subseteq Clients
  <1>1. /\ \A c \in Clients : HasToken(seatToken'[c], p) => c \in S
        /\ \A c \in Clients, q \in Players \ {p} :
             HasToken(seatToken'[c], q) => HasToken(seatToken[c], q)
    BY TypedParts, IssuedTokens
  <1>2. ASSUME NEW c \in void', NEW q \in Players, HasToken(seatToken'[c], q)
        PROVE  seatRecord'[q].player # q
    <2>1. c \in Clients /\ c \notin S
      BY DEF Voided
    <2>2. q # p
      BY <1>1, <1>2, <2>1
    <2>3. c \in void
      BY <1>2, <2>2 DEF Voided, HasToken
    <2> QED
      BY <1>1, <1>2, <2>1, <2>2, <2>3 DEF Tokens
  <1> QED
    BY <1>2 DEF Tokens, Voided

-----------------------------------------------------------------------------
(* Steps in which nobody is let in. *)

LEMMA BookStays ==
  ASSUME Book!TypeOK, book' = book
  PROVE  Book!TypeOK'
  BY DEF Book!TypeOK

LEMMA ForgottenSeatRecord ==
  ASSUME seatRecord \in [Players -> SessionRecord], NEW p
  PROVE  /\ [seatRecord EXCEPT ![p] = NoRecord] \in [Players -> SessionRecord]
         /\ \A q \in Players : [seatRecord EXCEPT ![p] = NoRecord][q] \in {seatRecord[q], NoRecord}
  BY RecordFields

\* A call that none of the lemmas about the parts has to look into.
LEMMA CallsStay ==
  ASSUME op' = op, open' = open, Seating
  PROVE  \A c \in Clients : SameCall(c)
  BY DEF SameCall, Seating

LEMMA StaleRequestStep ==
  ASSUME IdentityInv, NEW c \in Clients, StaleRequest(c)
  PROVE  IdentityInv'
  <1>1. Typed /\ Credentials /\ Seating /\ Tokens /\ Calls
    BY DEF IdentityInv
  <1>2. /\ book' = book /\ op' = op /\ open' = open /\ account' = account
        /\ seatToken' = seatToken /\ at' = at /\ audit' = audit
        /\ record' = RevokePlayer(record, account[c])
        /\ \/ seatRecord' = seatRecord /\ void' = void
           \/ /\ seatRecord' = [seatRecord EXCEPT ![account[c]] = NoRecord]
              /\ void' = Voided(seatToken, account[c], {})
        /\ stored' = [stored EXCEPT ![c] = None]
        /\ account[c] # None
    BY DEF StaleRequest, storeVars
  <1>3. Fewer(record', {})
    BY <1>1, <1>2, TypedParts, RevokingLeavesFewer
  <1>4. /\ seatRecord' \in [Players -> SessionRecord]
        /\ \A q \in Players : seatRecord'[q] \in {seatRecord[q], NoRecord}
    BY <1>1, <1>2, TypedParts, ForgottenSeatRecord
  <1>5. \A d \in Clients : SameCall(d)
    BY <1>1, <1>2, CallsStay
  <1>9. Tokens' /\ void' \subseteq Clients
    <2>1. account[c] \in Players
      BY <1>1, <1>2, TypedParts
    <2>2. CASE seatRecord' = seatRecord /\ void' = void
      BY <1>1, <1>2, <2>2, TokensKept, TypedParts
    <2>3. CASE /\ seatRecord' = [seatRecord EXCEPT ![account[c]] = NoRecord]
               /\ void' = Voided(seatToken, account[c], {})
      BY <1>1, <1>2, <2>1, <2>3, TokensRevoked
    <2> QED
      BY <1>2, <2>2, <2>3
  <1>6. Typed'
    <2>1. stored' \in [Clients -> Players \cup {None}]
      BY <1>1, <1>2, TypedParts
    <2> QED
      BY <1>1, <1>2, <1>3, <1>4, <1>9, <2>1, TypedParts, TypedNext, BookStays DEF Fewer
  <1>7. Credentials'
    BY <1>1, <1>2, <1>3, <1>4, CredentialsKept DEF Fewer
  <1>8. Seating'
    BY <1>1, <1>2, <1>5, SeatingKept DEF Seating
  <1>10. Calls'
    BY <1>1, <1>2, <1>5, CallsKept
  <1> QED
    BY <1>6, <1>7, <1>8, <1>9, <1>10 DEF IdentityInv

\* A seat token that is refused.
LEMMA RefusedSeat ==
  ASSUME Typed, Tokens, NEW c \in Clients, SeatRefused(c)
  PROVE  /\ seatToken' \in [Clients -> TokenRecord]
         /\ seatRecord' \in [Players -> SessionRecord]
         /\ \A q \in Players : seatRecord'[q] \in {seatRecord[q], NoRecord}
         /\ void' \subseteq Clients /\ Tokens'
  <1> DEFINE p == seatToken[c].player
  <1>1. /\ seatToken' = [seatToken EXCEPT ![c] = NoToken]
        /\ \/ seatRecord' = seatRecord /\ void' = void \ {c}
           \/ /\ p # None /\ seatRecord' = [seatRecord EXCEPT ![p] = NoRecord]
              /\ void' = Voided(seatToken', p, {c})
    BY DEF SeatRefused
  <1>2. seatToken' \in [Clients -> TokenRecord] /\ p \in Players \cup {None}
    BY <1>1, TypedParts, TokenFields DEF TokenRecord
  <1>3. \A d \in Clients \ {c} : seatToken'[d] = seatToken[d]
    BY <1>1, TypedParts
  <1>4. CASE seatRecord' = seatRecord /\ void' = void \ {c}
    BY <1>2, <1>3, <1>4, TypedParts, TokensKept
  <1>5. CASE /\ p # None /\ seatRecord' = [seatRecord EXCEPT ![p] = NoRecord]
             /\ void' = Voided(seatToken', p, {c})
    <2>1. /\ seatRecord' \in [Players -> SessionRecord]
          /\ \A q \in Players : seatRecord'[q] = IF q = p THEN NoRecord ELSE seatRecord[q]
      BY <1>5, TypedParts, RecordFields
    <2>2. void' \subseteq Clients \ {c}
      BY <1>5 DEF Voided
    <2>3. \A d \in void', q \in Players :
            HasToken(seatToken'[d], q) => q = p \/ (d \in void /\ HasToken(seatToken[d], q))
      BY <1>3, <1>5, <2>2 DEF Voided, HasToken
    <2>4. Tokens'
      BY <2>1, <2>3, TokensKept
    <2> QED
      BY <1>2, <2>1, <2>2, <2>4
  <1> QED
    BY <1>1, <1>4, <1>5

LEMMA ConnectWithoutSeatStep ==
  ASSUME IdentityInv, NEW c \in Clients, ConnectWithoutSeat(c)
  PROVE  IdentityInv'
  <1>1. Typed /\ Credentials /\ Seating /\ Tokens /\ Calls
    BY DEF IdentityInv
  <1>2. /\ book' = book /\ op' = op /\ open' = open \cup {c} /\ c \notin open
        /\ account' = [account EXCEPT ![c] = RestoredAccount(c)]
        /\ stored' = [stored EXCEPT ![c] = RestoredAccount(c)]
        /\ at' = at /\ audit' = audit
        /\ record' = RestoredRecords(c)
    BY DEF ConnectWithoutSeat, storeVars
  <1>3. Fewer(record', {})
    BY <1>1, <1>2, TypedParts, RevokingLeavesFewer
  <1>4. /\ seatToken' \in [Clients -> TokenRecord]
        /\ seatRecord' \in [Players -> SessionRecord]
        /\ \A q \in Players : seatRecord'[q] \in {seatRecord[q], NoRecord}
        /\ void' \subseteq Clients /\ Tokens'
    BY <1>1, RefusedSeat DEF ConnectWithoutSeat
  <1>5. \A d \in Clients : SameCall(d)
    BY <1>1, <1>2 DEF SameCall, Seating
  <1>6. Typed'
    <2>1. /\ stored' \in [Clients -> Players \cup {None}]
          /\ account' \in [Clients -> Players \cup {None}]
      BY <1>1, <1>2, TypedParts, RestoredAccounts
    <2>2. open' \subseteq Clients
      BY <1>1, <1>2, TypedParts
    <2> QED
      BY <1>1, <1>2, <1>3, <1>4, <2>1, <2>2, TypedParts, TypedNext, BookStays DEF Fewer
  <1>7. Credentials'
    BY <1>1, <1>2, <1>3, <1>4, CredentialsKept DEF Fewer
  <1>8. Seating'
    BY <1>1, <1>2, <1>5, SeatingKept DEF Seating
  <1>9. Calls'
    BY <1>1, <1>2, <1>5, CallsKept
  <1> QED
    BY <1>4, <1>6, <1>7, <1>8, <1>9 DEF IdentityInv

\* Only the tokens have changed, and what they are good for.
LEMMA TokenStep ==
  ASSUME IdentityInv, UNCHANGED <<storeVars, open, account, stored, record, at, audit>>,
         seatToken' \in [Clients -> TokenRecord],
         seatRecord' \in [Players -> SessionRecord],
         \A q \in Players : seatRecord'[q] \in {seatRecord[q], NoRecord},
         void' \subseteq Clients, Tokens'
  PROVE  IdentityInv'
  <1>1. Typed /\ Credentials /\ Seating /\ Calls
    BY DEF IdentityInv
  <1>2. /\ book' = book /\ op' = op /\ open' = open /\ account' = account
        /\ stored' = stored /\ record' = record /\ at' = at /\ audit' = audit
    BY DEF storeVars
  <1>3. \A d \in Clients : SameCall(d)
    BY <1>1, <1>2, CallsStay
  <1>4. Typed'
    BY <1>1, <1>2, TypedParts, TypedNext, BookStays
  <1>5. Credentials'
    BY <1>1, <1>2, CredentialsKept
  <1>6. Seating'
    BY <1>1, <1>2, <1>3, SeatingKept DEF Seating
  <1>7. Calls'
    BY <1>1, <1>2, <1>3, CallsKept
  <1> QED
    BY <1>4, <1>5, <1>6, <1>7 DEF IdentityInv

LEMMA PlayerJoinRefusedStep ==
  ASSUME IdentityInv, NEW c \in Clients, PlayerJoinRefused(c)
  PROVE  IdentityInv'
  <1>1. Typed /\ Tokens
    BY DEF IdentityInv
  <1>2. SeatRefused(c) /\ UNCHANGED <<storeVars, open, account, stored, record, at, audit>>
    BY DEF PlayerJoinRefused
  <1>3. /\ seatToken' \in [Clients -> TokenRecord]
        /\ seatRecord' \in [Players -> SessionRecord]
        /\ \A q \in Players : seatRecord'[q] \in {seatRecord[q], NoRecord}
        /\ void' \subseteq Clients /\ Tokens'
    BY <1>1, <1>2, RefusedSeat
  <1> QED
    BY <1>2, <1>3, TokenStep

\* A copy is worth what the token is worth that it was made of.
LEMMA CopySessionStep ==
  ASSUME IdentityInv, NEW c \in Clients, NEW d \in Clients, CopySession(c, d)
  PROVE  IdentityInv'
  <1>1. Typed /\ Tokens
    BY DEF IdentityInv
  <1>2. /\ UNCHANGED <<storeVars, open, account, stored, record, at, audit>>
        /\ seatRecord' = seatRecord
        /\ seatToken' = [seatToken EXCEPT ![d] = seatToken[c]]
        /\ void' = IF c \in void THEN void \cup {d} ELSE void \ {d}
    BY DEF CopySession
  <1>3. seatToken' \in [Clients -> TokenRecord] /\ void' \subseteq Clients
    BY <1>1, <1>2, TypedParts
  <1>4. ASSUME NEW e \in void', NEW p \in Players, HasToken(seatToken'[e], p)
        PROVE  seatRecord'[p].player # p
    <2>1. CASE e = d
      BY <1>1, <1>2, <1>3, <1>4, <2>1, TypedParts DEF Tokens
    <2>2. CASE e # d
      BY <1>1, <1>2, <1>3, <1>4, <2>2, TypedParts DEF Tokens
    <2> QED
      BY <2>1, <2>2
  <1>5. Tokens'
    BY <1>4 DEF Tokens
  <1> QED
    BY <1>1, <1>2, <1>3, <1>5, TypedParts, TokenStep

LEMMA DisconnectStep ==
  ASSUME IdentityInv, NEW c \in Clients, Disconnect(c)
  PROVE  IdentityInv'
  <1>1. Typed /\ Credentials /\ Seating /\ Tokens /\ Calls
    BY DEF IdentityInv
  <1>2. /\ book' = book /\ op' = Closed(op, {c}) /\ open' = open \ {c}
        /\ account' = SignedOff({c}) /\ stored' = stored /\ record' = record
        /\ seatToken' = seatToken /\ seatRecord' = seatRecord /\ void' = void /\ audit' = audit
        /\ at' = [p \in Players |-> IF at[p] = c THEN Held ELSE at[p]]
    BY DEF Disconnect, sessionVars
  <1>3. /\ op' \in [Owners -> Operation]
        /\ \A o \in Owners :
             /\ op'[o].kind = op[o].kind /\ op'[o].player = op[o].player
             /\ op'[o].version = op[o].version /\ op'[o].password = op[o].password
             /\ op'[o].status = op[o].status /\ op'[o].ok = op[o].ok
             /\ op'[o].here => op[o].here /\ o \notin {c}
    BY <1>1, <1>2, TypedParts, ClosedCalls
  <1>4. \A p \in Players : at'[p] \in Clients => at'[p] = at[p] /\ at'[p] # c
    BY <1>1, <1>2, TypedParts, Distinct
  <1>5. \A d \in Clients : SameCall(d)
    BY <1>1, <1>2, <1>3, Distinct DEF SameCall, Seating
  <1>6. Typed'
    <2>1. /\ account' \in [Clients -> Players \cup {None}]
          /\ at' \in [Players -> Clients \cup {None, Held, Gone}]
          /\ open' \subseteq Clients
      BY <1>1, <1>2, TypedParts, SignedOffAccounts
    <2> QED
      BY <1>1, <1>2, <1>3, <2>1, TypedParts, TypedNext, BookStays
  <1>7. Credentials'
    BY <1>1, <1>2, <1>3, CredentialsKept
  <1>8. Seating'
    BY <1>1, <1>2, <1>4, <1>5, SeatingKept DEF Seating
  <1>9. Tokens'
    BY <1>1, <1>2, TokensKept
  <1>10. Calls'
    BY <1>1, <1>2, <1>3, <1>5, CallsKept, Distinct
  <1> QED
    BY <1>6, <1>7, <1>8, <1>9, <1>10 DEF IdentityInv

LEMMA GraceEndsStep ==
  ASSUME IdentityInv, NEW c \in Clients, GraceEnds(c)
  PROVE  IdentityInv'
  <1>1. Typed /\ Tokens
    BY DEF IdentityInv
  <1>2. /\ UNCHANGED <<storeVars, open, account, stored, record, at, audit>>
        /\ seatRecord' = seatRecord
        /\ seatToken' = [seatToken EXCEPT ![c] = NoToken] /\ void' = void \ {c}
    BY DEF GraceEnds
  <1>3. seatToken' \in [Clients -> TokenRecord] /\ void' \subseteq Clients
    BY <1>1, <1>2, TypedParts, TokenFields
  <1>4. Tokens'
    BY <1>1, <1>2, TypedParts, TokensKept
  <1> QED
    BY <1>1, <1>2, <1>3, <1>4, TypedParts, TokenStep

LEMMA FreeSeatStep ==
  ASSUME IdentityInv, NEW p \in Players, FreeSeat(p)
  PROVE  IdentityInv'
  <1>1. Typed /\ Credentials /\ Seating /\ Tokens /\ Calls
    BY DEF IdentityInv
  <1>2. /\ book' = book /\ op' = op /\ open' = open /\ account' = account
        /\ stored' = stored /\ record' = record
        /\ seatRecord' = [seatRecord EXCEPT ![p] = NoRecord]
        /\ seatToken' = seatToken /\ audit' = audit
        /\ at' = [at EXCEPT ![p] = None]
        /\ void' = Voided(seatToken, p, {})
    BY DEF FreeSeat, storeVars
  <1>3. \A d \in Clients : SameCall(d)
    BY <1>1, <1>2, CallsStay
  <1>4. /\ seatRecord' \in [Players -> SessionRecord]
        /\ \A q \in Players : seatRecord'[q] \in {seatRecord[q], NoRecord}
    BY <1>1, <1>2, TypedParts, ForgottenSeatRecord
  <1>5. \A q \in Players : at'[q] \in Clients => at'[q] = at[q]
    BY <1>1, <1>2, TypedParts, Distinct
  <1>9. Tokens' /\ void' \subseteq Clients
    BY <1>1, <1>2, TokensRevoked
  <1>6. Typed'
    <2>1. at' \in [Players -> Clients \cup {None, Held, Gone}]
      BY <1>1, <1>2, TypedParts
    <2> QED
      BY <1>1, <1>2, <1>4, <1>9, <2>1, TypedParts, TypedNext, BookStays
  <1>7. Credentials'
    BY <1>1, <1>2, <1>4, CredentialsKept
  <1>8. Seating'
    BY <1>1, <1>2, <1>3, <1>5, SeatingKept DEF Seating
  <1>10. Calls'
    BY <1>1, <1>2, <1>3, CallsKept
  <1> QED
    BY <1>6, <1>7, <1>8, <1>9, <1>10 DEF IdentityInv

\* The process starts again.
LEMMA RestartStep ==
  ASSUME IdentityInv, Restart
  PROVE  IdentityInv'
  <1>1. Typed /\ Credentials /\ Seating /\ Tokens /\ Calls
    BY DEF IdentityInv
  <1>2. /\ book' = book /\ op' = [o \in Owners |-> Idle] /\ open' = {}
        /\ account' = [d \in Clients |-> None] /\ stored' = stored
        /\ record' = [d \in Clients |-> NoRecord]
        /\ seatRecord' = [p \in Players |-> NoRecord]
        /\ seatToken' = seatToken /\ audit' = NoEntry
        /\ at' = [p \in Players |-> None]
        /\ void' \subseteq Clients
    BY DEF Restart
  <1>3. /\ op' \in [Owners -> Operation]
        /\ \A o \in Owners : op'[o].kind = "none" /\ ~op'[o].ok /\ ~op'[o].here
    BY <1>2, IdleOperation
  <1>4. Typed'
    BY <1>1, <1>2, <1>3, TypedParts, TypedNext, BookStays, RecordFields
  <1>5. Credentials'
    BY <1>1, <1>2, <1>3, CredentialsKept
  <1>6. \A p \in Players : at'[p] \notin Clients
    BY <1>2, Distinct
  <1>7. Seating'
    BY <1>1, <1>3, <1>6, SeatingKept, Distinct
  <1>8. Tokens'
    BY <1>1, <1>2, TokensKept
  <1>9. Calls'
    BY <1>1, <1>3, CallsKept, Distinct
  <1> QED
    BY <1>4, <1>5, <1>7, <1>8, <1>9 DEF IdentityInv

-----------------------------------------------------------------------------
(* Calls to the store. *)

\* o may call for x: with the credentials of now if it has any, a client for
\* what a client calls for and from an open socket without a seat it must not
\* have, the admin for what it called for.
Backed(x) == x.kind = "login" \/ x.ok => x.player \in Players /\ Fits(book, x)
ByClient(o, x) ==
  o \in Clients => /\ x.kind \in {"none", "register", "login", "change"}
                   /\ x.kind = "change" => x.player \in Players
FromSocket(o, x) ==
  o \in Clients /\ x.here =>
    /\ o \in open
    /\ x.kind = "register" => \A q \in Players : at[q] # o
    /\ x.kind = "login" => \A q \in Players \ {x.player} : at[q] # o
ByAdmin(o, x) ==
  o = Admin => x.kind = op[o].kind /\ x.player = op[o].player /\ x.status = op[o].status

Proper(o, x) == Backed(x) /\ ByClient(o, x) /\ FromSocket(o, x) /\ ByAdmin(o, x)

LEMMA OneCall ==
  ASSUME IdentityInv, NEW o \in Owners, NEW x \in Operation, Proper(o, x),
         op' = [op EXCEPT ![o] = x],
         UNCHANGED <<book, open, account, sessionVars, at, audit>>
  PROVE  IdentityInv'
  <1>1. Typed /\ Credentials /\ Seating /\ Tokens /\ Calls
    BY DEF IdentityInv
  <1>2. /\ book' = book /\ open' = open /\ account' = account /\ stored' = stored
        /\ record' = record /\ seatToken' = seatToken /\ seatRecord' = seatRecord
        /\ at' = at /\ void' = void /\ audit' = audit
    BY DEF sessionVars
  <1>3. op' \in [Owners -> Operation]
    BY <1>1, TypedParts
  <1>4. op'[o] = x /\ \A d \in Owners \ {o} : op'[d] = op[d]
    BY <1>1, TypedParts
  <1>5. Typed'
    BY <1>1, <1>2, <1>3, TypedParts, TypedNext, BookStays
  <1>6. Credentials'
    BY <1>1, <1>2, <1>4, CredentialsKept DEF Proper, Backed
  <1>7. Seating'
    <2>1. ASSUME NEW c \in Clients, op'[c].here
          PROVE  /\ c \in open'
                 /\ op'[c].kind = "register" => \A q \in Players : at'[q] # c
                 /\ op'[c].kind = "login" => \A q \in Players \ {op'[c].player} : at'[q] # c
      <3>1. CASE c = o
        BY <1>2, <1>4, <2>1, <3>1 DEF Proper, FromSocket
      <3>2. CASE c # o
        <4>1. op'[c] = op[c]
          BY <1>4, <3>2, Distinct
        <4> QED
          BY <1>1, <1>2, <2>1, <4>1 DEF Seating
      <3> QED
        BY <3>1, <3>2
    <2>2. /\ \A p \in Players : at'[p] \in Clients => at'[p] \in open'
          /\ \A p, q \in Players : at'[p] = at'[q] /\ at'[p] \in Clients => p = q
      BY <1>1, <1>2 DEF Seating
    <2> QED
      BY <2>1, <2>2, Zenon DEF Seating
  <1>8. Tokens'
    BY <1>1, <1>2, TokensKept
  <1>9. Calls'
    <2>1. \A c \in Clients : op'[c].kind \in {"none", "register", "login", "change"}
      <3>1. ASSUME NEW c \in Clients PROVE op'[c].kind \in {"none", "register", "login", "change"}
        <4>1. CASE c = o
          BY <1>4, <4>1 DEF Proper, ByClient
        <4>2. CASE c # o
          BY <1>1, <1>4, <4>2, Distinct DEF Calls
        <4> QED
          BY <4>1, <4>2
      <3> QED
        BY <3>1
    <2>2. op'[Admin].kind = op[Admin].kind /\ op'[Admin].player = op[Admin].player
          /\ op'[Admin].status = op[Admin].status
      BY <1>4, Distinct DEF Proper, ByAdmin
    <2>3. ASSUME NEW d \in Owners, op'[d].kind \in {"change", "status", "delete"}
          PROVE  op'[d].player \in Players
      <3>1. CASE d \in Clients /\ d = o
        BY <1>4, <2>1, <2>3, <3>1 DEF Proper, ByClient
      <3>2. CASE d = Admin
        BY <1>1, <2>2, <2>3, <3>2, Distinct DEF Calls
      <3>3. CASE d # o
        BY <1>1, <1>4, <2>3, <3>3 DEF Calls
      <3> QED
        BY <3>1, <3>2, <3>3 DEF Owners
    <2>4. /\ op'[Admin].kind \in {"none", "status", "delete"}
          /\ op'[Admin].kind # "none" => audit' = Entry(op'[Admin].player, op'[Admin].status)
          /\ op'[Admin].kind = "status" => op'[Admin].status \in {"active", "disabled"}
          /\ op'[Admin].kind = "delete" => op'[Admin].status = "deleted"
      BY <1>1, <1>2, <2>2 DEF Calls
    <2> QED
      BY <2>1, <2>3, <2>4, Zenon DEF Calls
  <1> QED
    BY <1>5, <1>6, <1>7, <1>8, <1>9 DEF IdentityInv

LEMMA AccountRegisterStep ==
  ASSUME IdentityInv, NEW c \in Clients, NEW w \in Passwords, AccountRegister(c, w)
  PROVE  IdentityInv'
  <1>1. PICK x : x = Op("register", "hashing", None, 0, w, "none")
    OBVIOUS
  <1>2. x \in Operation /\ x.kind = "register" /\ x.ok = FALSE
    BY <1>1, Distinct DEF Op, Operation
  <1>3. /\ c \in open /\ \A q \in Players : at[q] # c
        /\ op' = [op EXCEPT ![c] = x]
        /\ UNCHANGED <<book, open, account, sessionVars, at, audit>>
    BY <1>1 DEF AccountRegister, Free
  <1> QED
    BY <1>2, <1>3, OneCall, Distinct DEF Proper, Backed, ByClient, FromSocket, ByAdmin

LEMMA AccountLoginStep ==
  ASSUME IdentityInv, NEW c \in Clients, NEW p \in Players, AccountLogin(c, p)
  PROVE  IdentityInv'
  <1>1. PICK x : x = Op("login", "checking", p, book[p].version, book[p].password, "none")
    OBVIOUS
  <1>2. book[p].version \in Nat /\ book[p].password \in Passwords \cup {None}
    BY TypedParts, BookFields DEF IdentityInv
  <1>3. /\ x \in Operation /\ x.kind = "login" /\ x.ok = FALSE /\ x.player = p
        /\ x.version = book[p].version /\ x.password = book[p].password
    BY <1>1, <1>2, Distinct DEF Op, Operation
  <1>4. Fits(book, x)
    BY <1>2, <1>3 DEF Fits
  <1>5. /\ c \in open /\ \A q \in Players \ {p} : at[q] # c
        /\ op' = [op EXCEPT ![c] = x]
        /\ UNCHANGED <<book, open, account, sessionVars, at, audit>>
    BY <1>1 DEF AccountLogin, Free
  <1> QED
    BY <1>3, <1>4, <1>5, OneCall, Distinct DEF Proper, Backed, ByClient, FromSocket, ByAdmin

LEMMA AccountChangeStep ==
  ASSUME IdentityInv, NEW c \in Clients, NEW w \in Passwords, AccountChange(c, w)
  PROVE  IdentityInv'
  <1>1. PICK x : x = Op("change", "queued", account[c], 0, w, "none")
    OBVIOUS
  <1>2. account[c] \in Players
    BY TypedParts DEF IdentityInv, AccountChange, Requires
  <1>3. x \in Operation /\ x.kind = "change" /\ x.ok = FALSE /\ x.player = account[c]
    BY <1>1, <1>2, Distinct DEF Op, Operation
  <1>4. /\ c \in open
        /\ op' = [op EXCEPT ![c] = x]
        /\ UNCHANGED <<book, open, account, sessionVars, at, audit>>
    BY <1>1 DEF AccountChange, Free
  <1> QED
    BY <1>2, <1>3, <1>4, OneCall, Distinct DEF Proper, Backed, ByClient, FromSocket, ByAdmin

LEMMA AnswerRefusalStep ==
  ASSUME IdentityInv, NEW c \in Clients, AnswerRefusal(c)
  PROVE  IdentityInv'
  BY IdleOperation, OneCall, Distinct DEF AnswerRefusal, Proper, Backed, ByClient, FromSocket, ByAdmin

\* A call comes as far as g and is otherwise the same.
LEMMA StagedCall ==
  ASSUME IdentityInv, NEW o \in Owners, NEW g \in {"queued", "answer"},
         op' = [op EXCEPT ![o].stage = g],
         UNCHANGED <<book, open, account, sessionVars, at, audit>>
  PROVE  IdentityInv'
  <1>1. Typed /\ Credentials /\ Seating /\ Tokens /\ Calls
    BY DEF IdentityInv
  <1>2. op[o] \in Operation
    BY <1>1, TypedParts
  <1>3. PICK x : x = [op[o] EXCEPT !.stage = g]
    OBVIOUS
  <1>4. /\ x \in Operation
        /\ x.kind = op[o].kind /\ x.player = op[o].player /\ x.version = op[o].version
        /\ x.password = op[o].password /\ x.status = op[o].status /\ x.ok = op[o].ok
        /\ x.here = op[o].here
    BY <1>2, <1>3, StagedOperation
  <1>5. op' = [op EXCEPT ![o] = x]
    BY <1>3
  <1>6. Backed(x)
    BY <1>1, <1>4 DEF Backed, Credentials, Fits
  <1>7. ByClient(o, x)
    BY <1>1, <1>4 DEF ByClient, Calls
  <1>8. FromSocket(o, x)
    BY <1>1, <1>4 DEF FromSocket, Seating
  <1>9. ByAdmin(o, x)
    BY <1>4 DEF ByAdmin
  <1> QED
    BY <1>4, <1>5, <1>6, <1>7, <1>8, <1>9, OneCall DEF Proper

LEMMA RegisterHashedStep ==
  ASSUME IdentityInv, NEW c \in Clients, RegisterHashed(c)
  PROVE  IdentityInv'
  BY StagedCall, Distinct DEF RegisterHashed

LEMMA StoreRefusesStep ==
  ASSUME IdentityInv, NEW o \in Owners, StoreRefuses(o)
  PROVE  IdentityInv'
  BY StagedCall DEF StoreRefuses

-----------------------------------------------------------------------------
(* The admin. *)

LEMMA AdminCallStep ==
  ASSUME IdentityInv, NEW p \in Players, NEW k, NEW s, AdminCall(p, k, s),
         \/ k = "status" /\ s \in {"active", "disabled"}
         \/ k = "delete" /\ s = "deleted"
  PROVE  IdentityInv'
  <1>1. Typed /\ Credentials /\ Seating /\ Tokens /\ Calls
    BY DEF IdentityInv
  <1>2. PICK x : x = Op(k, "queued", p, 0, None, s)
    OBVIOUS
  <1>3. x \in Operation /\ x.kind = k /\ x.ok = FALSE /\ x.player = p /\ x.status = s
    BY <1>2, Distinct DEF Op, Operation
  <1>4. /\ book' = book /\ open' = open /\ account' = account /\ stored' = stored
        /\ record' = record /\ seatToken' = seatToken /\ seatRecord' = seatRecord
        /\ at' = at /\ void' = void /\ audit' = Entry(p, s)
        /\ op' = [op EXCEPT ![Admin] = x]
    BY <1>2 DEF AdminCall, sessionVars
  <1>5. op' \in [Owners -> Operation]
    BY <1>1, <1>3, <1>4, TypedParts
  <1>6. op'[Admin] = x /\ \A o \in Owners : o # Admin => op'[o] = op[o]
    BY <1>1, <1>4, TypedParts, Distinct
  <1>7. \A d \in Clients : op'[d] = op[d]
    BY <1>6, Distinct
  <1>8. \A d \in Clients : SameCall(d)
    BY <1>1, <1>4, <1>7 DEF SameCall, Seating
  <1>9. Typed'
    <2>1. audit' \in [player : Players, action : {"active", "disabled", "deleted"}]
      BY <1>4 DEF Entry
    <2> QED
      BY <1>1, <1>4, <1>5, <2>1, TypedParts, TypedNext, BookStays
  <1>10. Credentials'
    BY <1>1, <1>3, <1>4, <1>6, CredentialsKept
  <1>11. Seating'
    BY <1>1, <1>4, <1>8, SeatingKept DEF Seating
  <1>12. Tokens'
    BY <1>1, <1>4, TokensKept
  <1>13. Calls'
    <2>1. \A c \in Clients : op'[c].kind \in {"none", "register", "login", "change"}
      BY <1>1, <1>7 DEF Calls
    <2>2. \A o \in Owners : op'[o].kind \in {"change", "status", "delete"} => op'[o].player \in Players
      BY <1>1, <1>3, <1>6 DEF Calls
    <2>3. /\ op'[Admin].kind \in {"none", "status", "delete"}
          /\ op'[Admin].kind # "none" => audit' = Entry(op'[Admin].player, op'[Admin].status)
          /\ op'[Admin].kind = "status" => op'[Admin].status \in {"active", "disabled"}
          /\ op'[Admin].kind = "delete" => op'[Admin].status = "deleted"
      BY <1>3, <1>4, <1>6
    <2> QED
      BY <2>1, <2>2, <2>3, Zenon DEF Calls
  <1> QED
    BY <1>9, <1>10, <1>11, <1>12, <1>13 DEF IdentityInv

\* A player is sent away, and the admin's call is over.
LEMMA RemovePresenceStep ==
  ASSUME IdentityInv, NEW p \in Players, RemovePresence(p),
         op' = [Closed(op, {at[p]} \cap open) EXCEPT ![Admin] = Idle],
         book' = book, stored' = stored, seatToken' = seatToken,
         audit' \in {audit, NoEntry}
  PROVE  IdentityInv'
  <1> DEFINE stale == {at[p]} \cap open
  <1>1. Typed /\ Credentials /\ Seating /\ Tokens /\ Calls
    BY DEF IdentityInv
  <1>2. /\ open' = open \ stale /\ account' = SignedOff(stale)
        /\ record' = RevokePlayer(record, p)
        /\ seatRecord' = [seatRecord EXCEPT ![p] = NoRecord]
        /\ at' = [at EXCEPT ![p] = None]
        /\ void' = Voided(seatToken, p, {})
    BY DEF RemovePresence
  <1>3. op' = [Closed(op, stale) EXCEPT ![Admin] = Idle]
    OBVIOUS
  <1>4. \A d \in stale : d = at[p]
    OBVIOUS
  <1> HIDE DEF stale
  <1>5. /\ op' \in [Owners -> Operation]
        /\ op'[Admin] = Idle
        /\ \A o \in Owners : o # Admin =>
             /\ op'[o].kind = op[o].kind /\ op'[o].player = op[o].player
             /\ op'[o].version = op[o].version /\ op'[o].password = op[o].password
             /\ op'[o].status = op[o].status /\ op'[o].ok = op[o].ok
             /\ op'[o].here => op[o].here /\ o \notin stale
    <2>1. /\ Closed(op, stale) \in [Owners -> Operation]
          /\ \A o \in Owners :
               /\ Closed(op, stale)[o].kind = op[o].kind /\ Closed(op, stale)[o].player = op[o].player
               /\ Closed(op, stale)[o].version = op[o].version
               /\ Closed(op, stale)[o].password = op[o].password
               /\ Closed(op, stale)[o].status = op[o].status /\ Closed(op, stale)[o].ok = op[o].ok
               /\ Closed(op, stale)[o].here => op[o].here /\ o \notin stale
      BY <1>1, TypedParts, ClosedCalls
    <2>2. \A o \in Owners : o # Admin => op'[o] = Closed(op, stale)[o]
      BY <1>3, <2>1
    <2>3. op'[Admin] = Idle /\ op' \in [Owners -> Operation]
      BY <1>3, <2>1, IdleOperation, Distinct
    <2> QED
      BY <2>1, <2>2, <2>3
  <1>6. Fewer(record', {})
    BY <1>1, <1>2, TypedParts, RevokingLeavesFewer
  <1>7. /\ seatRecord' \in [Players -> SessionRecord]
        /\ \A q \in Players : seatRecord'[q] \in {seatRecord[q], NoRecord}
    BY <1>1, <1>2, TypedParts, ForgottenSeatRecord
  <1>8. \A q \in Players : at'[q] \in Clients => at'[q] = at[q] /\ q # p
    BY <1>1, <1>2, TypedParts, Distinct
  <1>9. \A d \in Clients : SameCall(d)
    BY <1>1, <1>2, <1>5, Distinct DEF SameCall, Seating
  <1>10. open' \subseteq Clients
    BY <1>1, <1>2, TypedParts
  <1>14. Tokens' /\ void' \subseteq Clients
    BY <1>1, <1>2, TokensRevoked
  <1>11. Typed'
    <2>1. account' \in [Clients -> Players \cup {None}]
      BY <1>1, <1>2, TypedParts, SignedOffAccounts
    <2>2. at' \in [Players -> Clients \cup {None, Held, Gone}]
      BY <1>1, <1>2, TypedParts
    <2> QED
      BY <1>1, <1>2, <1>5, <1>6, <1>7, <1>10, <1>14, <2>1, <2>2, TypedParts, TypedNext, BookStays DEF Fewer
  <1>12. Credentials'
    BY <1>1, <1>5, <1>6, <1>7, CredentialsKept, IdleOperation DEF Fewer
  <1>13. Seating'
    <2>1. ASSUME NEW q \in Players, at'[q] \in Clients PROVE at'[q] \in open'
      <3>1. at[q] \in open /\ at'[q] = at[q] /\ q # p
        BY <1>1, <1>8, <2>1 DEF Seating
      <3>2. at[q] \notin stale
        <4>1. at[q] = at[p] /\ at[q] \in Clients => q = p
          BY <1>1 DEF Seating
        <4>2. at[q] # at[p]
          BY <2>1, <3>1, <4>1
        <4> QED
          BY <1>4, <4>2
      <3> QED
        BY <1>2, <3>1, <3>2
    <2> QED
      BY <1>1, <1>8, <1>9, <2>1, SeatingKept
  <1>15. Calls'
    BY <1>1, <1>5, <1>9, CallsKept, IdleOperation
  <1> QED
    BY <1>11, <1>12, <1>13, <1>14, <1>15 DEF IdentityInv

LEMMA AdminForceLogoutStep ==
  ASSUME IdentityInv, NEW p \in Players, AdminForceLogout(p)
  PROVE  IdentityInv'
  BY RemovePresenceStep DEF AdminForceLogout

LEMMA AnswerAdminStep ==
  ASSUME IdentityInv, AnswerAdmin
  PROVE  IdentityInv'
  <1>1. Typed /\ Credentials /\ Seating /\ Tokens /\ Calls
    BY DEF IdentityInv
  <1>2. /\ book' = book /\ stored' = stored /\ seatToken' = seatToken /\ audit' = NoEntry
    BY DEF AnswerAdmin
  <1>3. CASE op[Admin].ok /\ op[Admin].status # "active"
    <2>1. op[Admin].player \in Players
      BY <1>1, <1>3, Distinct DEF Credentials
    <2>2. /\ RemovePresence(op[Admin].player)
          /\ op' = [Closed(op, {at[op[Admin].player]} \cap open) EXCEPT ![Admin] = Idle]
      BY <1>3 DEF AnswerAdmin
    <2> QED
      BY <1>2, <2>1, <2>2, RemovePresenceStep
  <1>4. CASE ~(op[Admin].ok /\ op[Admin].status # "active")
    <2>1. /\ op' = [op EXCEPT ![Admin] = Idle]
          /\ open' = open /\ account' = account /\ record' = record
          /\ seatRecord' = seatRecord /\ void' = void /\ at' = at
      BY <1>4 DEF AnswerAdmin
    <2>2. op' \in [Owners -> Operation]
      BY <1>1, <2>1, TypedParts, IdleOperation
    <2>3. op'[Admin] = Idle /\ \A o \in Owners : o # Admin => op'[o] = op[o]
      BY <1>1, <2>1, TypedParts, Distinct
    <2>4. \A d \in Clients : SameCall(d)
      BY <1>1, <2>1, <2>3, Distinct DEF SameCall, Seating
    <2>5. Typed'
      BY <1>1, <1>2, <2>1, <2>2, TypedParts, TypedNext, BookStays
    <2>6. Credentials'
      BY <1>1, <1>2, <2>1, <2>3, CredentialsKept, IdleOperation
    <2>7. Seating'
      BY <1>1, <2>1, <2>4, SeatingKept DEF Seating
    <2>8. Tokens'
      BY <1>1, <1>2, <2>1, TokensKept
    <2>9. Calls'
      BY <1>1, <2>3, <2>4, CallsKept, IdleOperation
    <2> QED
      BY <2>5, <2>6, <2>7, <2>8, <2>9 DEF IdentityInv
  <1> QED
    BY <1>3, <1>4

-----------------------------------------------------------------------------
(* Sessions that are given out. *)

\* What is given for a version for which it fits.
LEMMA FittingRecord ==
  ASSUME NEW x, x.player \in Players, x.version \in Nat, x.password \in Passwords \cup {None},
         Fits(book, x)
  PROVE  /\ Record(x.player, x.version, x.password) \in SessionRecord
         /\ Record(x.player, x.version, x.password).player = x.player
         /\ Fits(book, Record(x.player, x.version, x.password))
  <1>1. PICK y : y = Record(x.player, x.version, x.password)
    OBVIOUS
  <1>2. /\ y \in SessionRecord /\ y.player = x.player /\ y.version = x.version
        /\ y.password = x.password
    BY <1>1, RecordFields
  <1>3. Fits(book, y)
    BY <1>2 DEF Fits
  <1> QED
    BY <1>1, <1>2, <1>3

\* A session of now is worth as much as one that is accepted.
LEMMA RenewedRecord ==
  ASSUME Book!TypeOK, NEW p \in Players, NEW x \in SessionRecord,
         x.player = p, x.version = book[p].version, Fits(book, x)
  PROVE  /\ Record(p, book[p].version, x.password) \in SessionRecord
         /\ Record(p, book[p].version, x.password).player = p
         /\ Fits(book, Record(p, book[p].version, x.password))
  <1>1. x.version \in Nat /\ x.password \in Passwords \cup {None}
    BY RecordFields
  <1> QED
    BY <1>1, FittingRecord

LEMMA NewSeatRecord ==
  ASSUME seatRecord \in [Players -> SessionRecord], NEW p \in Players, NEW x \in SessionRecord
  PROVE  /\ [seatRecord EXCEPT ![p] = x] \in [Players -> SessionRecord]
         /\ [seatRecord EXCEPT ![p] = x][p] = x
         /\ \A q \in Players \ {p} : [seatRecord EXCEPT ![p] = x][q] = seatRecord[q]
  OBVIOUS

LEMMA SessionsRevokeOthersStep ==
  ASSUME IdentityInv, NEW c \in Clients, SessionsRevokeOthers(c)
  PROVE  IdentityInv'
  <1>1. Typed /\ Credentials /\ Seating /\ Tokens /\ Calls
    BY DEF IdentityInv
  <1>2. /\ book' = book /\ op' = op /\ open' = open /\ account' = account
        /\ stored' = stored /\ at' = at /\ audit' = audit
        /\ record' = RevokeOthers(record, account[c], c)
    BY DEF SessionsRevokeOthers, storeVars
  <1>3. PICK p \in Players : p = account[c]
    BY <1>1, TypedParts DEF SessionsRevokeOthers, Requires
  <1>4. record[c].player = p /\ record[c].version = book[p].version
    BY <1>3 DEF SessionsRevokeOthers, Requires, Restores
  <1>5. PICK x : x = Record(p, book[p].version, record[c].password)
    OBVIOUS
  <1>6. x \in SessionRecord /\ x.player = p /\ Fits(book, x)
    <2>1. Fits(book, record[c]) /\ record[c] \in SessionRecord
      BY <1>1, TypedParts DEF Credentials
    <2> QED
      BY <1>1, <1>3, <1>4, <1>5, <2>1, TypedParts, RenewedRecord
  <1>7. \/ /\ seatRecord' = [seatRecord EXCEPT ![p] = x]
           /\ seatToken' = Issued(seatToken, p, {c}) /\ void' = Voided(seatToken', p, {c})
        \/ seatRecord' = seatRecord /\ seatToken' = seatToken /\ void' = void
    BY <1>3, <1>5 DEF SessionsRevokeOthers
  <1>8. Fewer(record', {})
    BY <1>1, <1>2, TypedParts, RevokingLeavesFewer
  <1>9. /\ seatRecord' \in [Players -> SessionRecord]
        /\ \A q \in Players : seatRecord'[q] = seatRecord[q] \/ Fits(book, seatRecord'[q])
    BY <1>1, <1>3, <1>6, <1>7, TypedParts, NewSeatRecord
  <1>10. \A d \in Clients : SameCall(d)
    BY <1>1, <1>2, CallsStay
  <1>14. Tokens' /\ void' \subseteq Clients
    <2>1. CASE seatRecord' = seatRecord /\ seatToken' = seatToken /\ void' = void
      BY <1>1, <2>1, TokensKept, TypedParts
    <2>2. CASE /\ seatRecord' = [seatRecord EXCEPT ![p] = x]
               /\ seatToken' = Issued(seatToken, p, {c}) /\ void' = Voided(seatToken', p, {c})
      BY <1>1, <1>3, <2>2, TokensIssuedTo, TypedParts
    <2> QED
      BY <1>7, <2>1, <2>2
  <1>11. Typed'
    <2>1. seatToken' \in [Clients -> TokenRecord]
      BY <1>1, <1>3, <1>7, TypedParts, IssuedTokens
    <2> QED
      BY <1>1, <1>2, <1>8, <1>9, <1>14, <2>1, TypedParts, TypedNext, BookStays DEF Fewer
  <1>12. Credentials'
    BY <1>1, <1>2, <1>8, <1>9, CredentialsKept DEF Fewer
  <1>13. Seating'
    BY <1>1, <1>2, <1>10, SeatingKept DEF Seating
  <1>15. Calls'
    BY <1>1, <1>2, <1>10, CallsKept
  <1> QED
    BY <1>11, <1>12, <1>13, <1>14, <1>15 DEF IdentityInv

LEMMA AnswerChangeStep ==
  ASSUME IdentityInv, NEW c \in Clients, AnswerChange(c)
  PROVE  IdentityInv'
  <1>1. Typed /\ Credentials /\ Seating /\ Tokens /\ Calls
    BY DEF IdentityInv
  <1>2. PICK p \in Players : p = op[c].player
    BY <1>1, Distinct DEF AnswerChange, Calls
  <1>3. PICK x : x = Record(p, op[c].version, op[c].password)
    OBVIOUS
  <1>4. /\ book' = book /\ open' = open /\ at' = at /\ audit' = audit
        /\ op' = [op EXCEPT ![c] = Idle]
        /\ record' \in {RevokePlayer(record, p), [RevokePlayer(record, p) EXCEPT ![c] = x]}
        /\ account' \in {account, [account EXCEPT ![c] = p]}
        /\ stored' \in {stored, [stored EXCEPT ![c] = p]}
    BY <1>2, <1>3 DEF AnswerChange
  <1>5. PICK S : S = IF op[c].here THEN {c} ELSE {}
    OBVIOUS
  <1>6. \/ /\ seatRecord' = [seatRecord EXCEPT ![p] = x]
           /\ seatToken' = Issued(seatToken, p, S) /\ void' = Voided(seatToken', p, S)
        \/ seatRecord' = seatRecord /\ seatToken' = seatToken /\ void' = void
    BY <1>2, <1>3, <1>5 DEF AnswerChange
  <1>7. x \in SessionRecord /\ x.player = p /\ Fits(book, x)
    <2>1. Fits(book, op[c]) /\ op[c] \in Operation
      BY <1>1, Distinct, TypedParts DEF Credentials, AnswerChange
    <2> QED
      BY <1>2, <1>3, <2>1, OperationFields, FittingRecord
  <1>8. Fewer(RevokePlayer(record, p), {})
    BY <1>1, TypedParts, RevokingLeavesFewer
  <1>9. /\ record' \in [Clients -> SessionRecord]
        /\ \A d \in Clients : record'[d] \in {record[d], NoRecord} \/ Fits(book, record'[d])
    <2>1. CASE record' = RevokePlayer(record, p)
      BY <1>8, <2>1 DEF Fewer
    <2>2. CASE record' = [RevokePlayer(record, p) EXCEPT ![c] = x]
      <3>1. Fewer(record', {c}) /\ record'[c] = x
        BY <1>7, <1>8, <2>2, GrantedSession
      <3> QED
        BY <1>7, <3>1 DEF Fewer
    <2> QED
      BY <1>4, <2>1, <2>2
  <1>10. /\ seatRecord' \in [Players -> SessionRecord]
         /\ \A q \in Players : seatRecord'[q] = seatRecord[q] \/ Fits(book, seatRecord'[q])
    BY <1>1, <1>2, <1>6, <1>7, TypedParts, NewSeatRecord
  <1>11. /\ op' \in [Owners -> Operation]
         /\ op'[c] = Idle /\ \A o \in Owners : o # c => op'[o] = op[o]
    BY <1>1, <1>4, TypedParts, IdleOperation, Distinct
  <1>12. \A d \in Clients : d = c \/ SameCall(d)
    BY <1>1, <1>4, <1>11, Distinct DEF SameCall, Seating
  <1>16. Tokens' /\ void' \subseteq Clients
    <2>1. CASE seatRecord' = seatRecord /\ seatToken' = seatToken /\ void' = void
      BY <1>1, <2>1, TokensKept, TypedParts
    <2>2. CASE /\ seatRecord' = [seatRecord EXCEPT ![p] = x]
               /\ seatToken' = Issued(seatToken, p, S) /\ void' = Voided(seatToken', p, S)
      BY <1>1, <1>2, <2>2, TokensIssuedTo, TypedParts
    <2> QED
      BY <1>6, <2>1, <2>2
  <1>13. Typed'
    <2>1. seatToken' \in [Clients -> TokenRecord]
      BY <1>1, <1>2, <1>6, TypedParts, IssuedTokens
    <2>2. /\ account' \in [Clients -> Players \cup {None}]
          /\ stored' \in [Clients -> Players \cup {None}]
      BY <1>1, <1>2, <1>4, TypedParts
    <2> QED
      BY <1>1, <1>4, <1>9, <1>10, <1>11, <1>16, <2>1, <2>2, TypedParts, TypedNext, BookStays
  <1>14. Credentials'
    BY <1>1, <1>4, <1>9, <1>10, <1>11, CredentialsKept, IdleOperation
  <1>15. Seating'
    BY <1>1, <1>4, <1>11, <1>12, SeatingKept, IdleOperation DEF Seating
  <1>17. Calls'
    BY <1>1, <1>4, <1>11, <1>12, CallsKept, IdleOperation, Distinct
  <1> QED
    BY <1>13, <1>14, <1>15, <1>16, <1>17 DEF IdentityInv

\* A call that is let in, for the account as it was read.
LEMMA EntersStep ==
  ASSUME IdentityInv, NEW c \in Clients, NEW p, p = op[c].player,
         op[c].kind \in {"login", "register"}, op[c].kind = "login" \/ op[c].ok,
         Enters(c, p, op[c].version, op[c].password)
  PROVE  IdentityInv'
  <1>1. Typed /\ Credentials /\ Seating /\ Tokens /\ Calls
    BY DEF IdentityInv
  <1>2. p \in Players /\ Fits(book, op[c]) /\ op[c] \in Operation
    BY <1>1, Distinct, TypedParts DEF Credentials
  <1>3. PICK here \in BOOLEAN : here = op[c].here
    BY <1>2, OperationFields
  <1>4. PICK x : x = Record(p, op[c].version, op[c].password)
    OBVIOUS
  <1>5. x \in SessionRecord /\ x.player = p /\ Fits(book, x)
    BY <1>2, <1>4, OperationFields, FittingRecord
  <1>6. PICK S : S = IF here THEN {c} ELSE {}
    OBVIOUS
  <1>7. PICK free \in BOOLEAN :
          /\ record' = IF here THEN [record EXCEPT ![c] = x] ELSE record
          /\ stored' = IF here THEN [stored EXCEPT ![c] = p] ELSE stored
          /\ at' = IF at[p] # None \/ free THEN [at EXCEPT ![p] = IF here THEN c ELSE Gone] ELSE at
          /\ seatRecord' = IF at[p] # None \/ free THEN [seatRecord EXCEPT ![p] = x] ELSE seatRecord
          /\ seatToken' = IF at[p] # None \/ free THEN Issued(seatToken, p, S) ELSE seatToken
          /\ void' = IF at[p] # None \/ free THEN Voided(seatToken', p, S) ELSE void
          /\ open' = IF at[p] # None \/ free THEN open \ ({at[p]} \cap (Clients \ {c})) ELSE open
          /\ account' = [SignedOff(IF at[p] # None \/ free THEN {at[p]} \cap (Clients \ {c}) ELSE {})
                           EXCEPT ![c] = IF here THEN p ELSE @]
          /\ op' = [Closed(op, IF at[p] # None \/ free THEN {at[p]} \cap (Clients \ {c}) ELSE {})
                      EXCEPT ![c] = Idle]
          /\ book' = book /\ audit' = audit
    BY <1>3, <1>4, <1>6 DEF Enters
  <1>8. PICK out : out = IF at[p] # None \/ free THEN {at[p]} \cap (Clients \ {c}) ELSE {}
    OBVIOUS
  <1>9. /\ out \subseteq Clients /\ c \notin out
        /\ \A d \in out : d = at[p]
        /\ open' = open \ out
        /\ account' = [SignedOff(out) EXCEPT ![c] = IF here THEN p ELSE @]
        /\ op' = [Closed(op, out) EXCEPT ![c] = Idle]
    BY <1>7, <1>8
  <1>10. \/ /\ at' = [at EXCEPT ![p] = IF here THEN c ELSE Gone]
            /\ seatRecord' = [seatRecord EXCEPT ![p] = x]
            /\ seatToken' = Issued(seatToken, p, S) /\ void' = Voided(seatToken', p, S)
            /\ at[p] \in Clients => at[p] = c \/ at[p] \in out
         \/ /\ at' = at /\ seatRecord' = seatRecord /\ seatToken' = seatToken
            /\ void' = void /\ out = {}
    BY <1>7, <1>8
  <1>11. /\ op' \in [Owners -> Operation] /\ op'[c] = Idle
         /\ \A o \in Owners : o # c =>
              /\ op'[o].kind = op[o].kind /\ op'[o].player = op[o].player
              /\ op'[o].version = op[o].version /\ op'[o].password = op[o].password
              /\ op'[o].status = op[o].status /\ op'[o].ok = op[o].ok
              /\ op'[o].here => op[o].here /\ o \notin out
    <2>1. /\ Closed(op, out) \in [Owners -> Operation]
          /\ \A o \in Owners :
               /\ Closed(op, out)[o].kind = op[o].kind /\ Closed(op, out)[o].player = op[o].player
               /\ Closed(op, out)[o].version = op[o].version
               /\ Closed(op, out)[o].password = op[o].password
               /\ Closed(op, out)[o].status = op[o].status /\ Closed(op, out)[o].ok = op[o].ok
               /\ Closed(op, out)[o].here => op[o].here /\ o \notin out
      BY <1>1, TypedParts, ClosedCalls
    <2>2. \A o \in Owners : o # c => op'[o] = Closed(op, out)[o]
      BY <1>9, <2>1
    <2>3. op'[c] = Idle /\ op' \in [Owners -> Operation]
      BY <1>9, <2>1, IdleOperation, Distinct
    <2> QED
      BY <2>1, <2>2, <2>3
  <1>12. \A d \in Clients : d = c \/ SameCall(d)
    BY <1>1, <1>9, <1>11, Distinct DEF SameCall, Seating
  <1>13. /\ record' \in [Clients -> SessionRecord]
         /\ \A d \in Clients : record'[d] = record[d] \/ Fits(book, record'[d])
    BY <1>1, <1>5, <1>7, TypedParts
  <1>14. /\ seatRecord' \in [Players -> SessionRecord]
         /\ \A q \in Players : seatRecord'[q] = seatRecord[q] \/ Fits(book, seatRecord'[q])
    BY <1>1, <1>2, <1>5, <1>10, TypedParts, NewSeatRecord
  <1>15. open' \subseteq Clients
    BY <1>1, <1>9, TypedParts
  <1>23. Tokens' /\ void' \subseteq Clients
    <2>1. CASE seatRecord' = seatRecord /\ seatToken' = seatToken /\ void' = void
      BY <1>1, <2>1, TokensKept, TypedParts
    <2>2. CASE /\ seatRecord' = [seatRecord EXCEPT ![p] = x]
               /\ seatToken' = Issued(seatToken, p, S) /\ void' = Voided(seatToken', p, S)
      BY <1>1, <1>2, <2>2, TokensIssuedTo, TypedParts
    <2> QED
      BY <1>10, <2>1, <2>2
  <1>16. Typed'
    <2>1. account' \in [Clients -> Players \cup {None}]
      <3>1. SignedOff(out) \in [Clients -> Players \cup {None}]
        BY <1>1, TypedParts, SignedOffAccounts
      <3> QED
        BY <1>2, <1>9, <3>1
    <2>2. stored' \in [Clients -> Players \cup {None}]
      BY <1>1, <1>2, <1>7, TypedParts
    <2>3. seatToken' \in [Clients -> TokenRecord]
      BY <1>1, <1>2, <1>10, TypedParts, IssuedTokens
    <2>4. at' \in [Players -> Clients \cup {None, Held, Gone}]
      BY <1>1, <1>2, <1>10, TypedParts
    <2> QED
      BY <1>1, <1>7, <1>11, <1>13, <1>14, <1>15, <1>23, <2>1, <2>2, <2>3, <2>4, TypedParts, TypedNext, BookStays
  <1>17. Credentials'
    BY <1>1, <1>7, <1>11, <1>13, <1>14, CredentialsKept, IdleOperation
  \* who sits where now
  <1>18. /\ \A q \in Players \ {p} : at'[q] = at[q]
         /\ at'[p] \in Clients => \/ at'[p] = c /\ here
                                  \/ at'[p] = at[p] /\ out = {} /\ at' = at
    BY <1>1, <1>2, <1>10, TypedParts, Distinct
  <1>19. ASSUME NEW q \in Players, q # p, at[q] \in Clients PROVE at[q] \notin out
    <2>1. at[q] # at[p]
      BY <1>1, <1>2, <1>19 DEF Seating
    <2> QED
      BY <1>9, <2>1
  <1>20. here => c \in open
    BY <1>1, <1>3 DEF Seating
  <1>21. ASSUME NEW q \in Players, q # p, here PROVE at[q] # c
    BY <1>1, <1>2, <1>3, <1>21 DEF Seating
  <1>22. Seating'
    <2>1. ASSUME NEW q \in Players, at'[q] \in Clients PROVE at'[q] \in open'
      <3>1. CASE q = p
        BY <1>1, <1>9, <1>18, <1>20, <2>1, <3>1 DEF Seating
      <3>2. CASE q # p
        <4>1. at'[q] = at[q] /\ at[q] \notin out
          BY <1>18, <1>19, <2>1, <3>2
        <4> QED
          BY <1>1, <1>9, <2>1, <4>1 DEF Seating
      <3> QED
        BY <3>1, <3>2
    <2>2. ASSUME NEW q \in Players, NEW r \in Players, at'[q] = at'[r], at'[q] \in Clients
          PROVE  q = r
      <3>1. CASE at' = at
        BY <1>1, <2>2, <3>1 DEF Seating
      <3>2. CASE at' # at
        <4>1. ASSUME NEW t \in Players, t # p PROVE at'[t] = at[t] /\ (at'[p] \in Clients => at'[t] # at'[p])
          BY <1>18, <1>21, <3>2, <4>1
        <4> QED
          BY <1>1, <2>2, <4>1 DEF Seating
      <3> QED
        BY <3>1, <3>2
    <2>3. ASSUME NEW d \in Clients, op'[d].here
          PROVE  /\ d \in open'
                 /\ op'[d].kind = "register" => \A q \in Players : at'[q] # d
                 /\ op'[d].kind = "login" => \A q \in Players \ {op'[d].player} : at'[q] # d
      <3>1. d # c /\ SameCall(d)
        BY <1>11, <1>12, <2>3, IdleOperation
      <3>2. \A q \in Players : at'[q] = d => at[q] = d
        BY <1>18, <3>1
      <3> QED
        BY <1>1, <2>3, <3>1, <3>2 DEF Seating, SameCall
    <2> QED
      BY <2>1, <2>2, <2>3, Zenon DEF Seating
  <1>24. Calls'
    BY <1>1, <1>7, <1>11, <1>12, CallsKept, IdleOperation, Distinct
  <1> QED
    BY <1>16, <1>17, <1>22, <1>23, <1>24 DEF IdentityInv

LEMMA LoginEndsStep ==
  ASSUME IdentityInv, NEW c \in Clients, LoginEnds(c)
  PROVE  IdentityInv'
  BY EntersStep DEF LoginEnds

LEMMA AnswerRegisterStep ==
  ASSUME IdentityInv, NEW c \in Clients, AnswerRegister(c)
  PROVE  IdentityInv'
  BY EntersStep DEF AnswerRegister

\* The old tokens of a seat are not worth more than before when it has a new
\* one, which goes to S.
LEMMA TokensRotated ==
  ASSUME Typed, Tokens, NEW p \in Players, NEW S,
         seatToken' = Rotated(seatToken, p, S), seatRecord' = seatRecord,
         void' = {d \in void \ S : seatToken'[d] # NoToken}
  PROVE  /\ seatToken' \in [Clients -> TokenRecord] /\ void' \subseteq Clients
         /\ Tokens'
  <1>1. /\ seatToken' \in [Clients -> TokenRecord]
        /\ \A d \in Clients, q \in Players :
             HasToken(seatToken'[d], q) => HasToken(seatToken[d], q) \/ (q = p /\ d \in S)
    BY TypedParts, RotatedTokens
  <1>2. void' \subseteq Clients /\ \A d \in void' : d \in void /\ d \notin S
    BY TypedParts
  <1>3. Tokens'
    BY <1>1, <1>2, TokensKept
  <1> QED
    BY <1>1, <1>2, <1>3

\* A seat is resumed: the tab with a token of it takes it over, if it is still
\* there, and what it keeps and is given is as good.
LEMMA TakeOverStep ==
  ASSUME IdentityInv, NEW c \in Clients, NEW p \in Players, NEW heard \in BOOLEAN,
         NEW seat \in {c, Held}, TakeOverSeat(c, p, seat, heard),
         \A q \in Players \ {p} : at[q] # c,
         op[c].here => op[c].kind # "register" /\ (op[c].kind = "login" => op[c].player = p),
         record' \in [Clients -> SessionRecord],
         \A d \in Clients : record'[d] \in {record[d], NoRecord} \/ Fits(book, record'[d]),
         stored' \in [Clients -> Players \cup {None}]
  PROVE  IdentityInv'
  <1>1. Typed /\ Credentials /\ Seating /\ Tokens /\ Calls
    BY DEF IdentityInv
  <1>2. PICK S : S = IF heard THEN {c} ELSE {}
    OBVIOUS
  <1>3. PICK out : out = {at[p]} \cap (Clients \ {c})
    OBVIOUS
  <1>4. /\ book' = book /\ seatRecord' = seatRecord /\ audit' = audit
        /\ at' = [at EXCEPT ![p] = seat]
        /\ open' = (open \ out) \cup ({seat} \cap Clients)
        /\ account' = [SignedOff(out) EXCEPT ![c] = IF c \in open THEN @ ELSE IF heard THEN p ELSE None]
        /\ op' = Closed(op, out)
        /\ seatToken' = Rotated(seatToken, p, S)
        /\ void' = {d \in void \ S : seatToken'[d] # NoToken}
    BY <1>2, <1>3 DEF TakeOverSeat
  <1>5. /\ op' \in [Owners -> Operation]
        /\ \A o \in Owners :
             /\ op'[o].kind = op[o].kind /\ op'[o].player = op[o].player
             /\ op'[o].version = op[o].version /\ op'[o].password = op[o].password
             /\ op'[o].status = op[o].status /\ op'[o].ok = op[o].ok
             /\ op'[o].here => op[o].here /\ o \notin out
    BY <1>1, <1>4, TypedParts, ClosedCalls
  <1>6. \A d \in Clients : SameCall(d)
    BY <1>1, <1>4, <1>5, Distinct DEF SameCall, Seating
  <1>7. /\ seatToken' \in [Clients -> TokenRecord] /\ void' \subseteq Clients
        /\ Tokens'
    BY <1>1, <1>4, TokensRotated
  <1>8. Typed'
    <2>1. account' \in [Clients -> Players \cup {None}]
      <3>1. SignedOff(out) \in [Clients -> Players \cup {None}]
        BY <1>1, TypedParts, SignedOffAccounts
      <3> QED
        BY <1>4, <3>1
    <2>2. at' \in [Players -> Clients \cup {None, Held, Gone}] /\ open' \subseteq Clients
      BY <1>1, <1>4, TypedParts
    <2> QED
      BY <1>1, <1>4, <1>5, <1>7, <2>1, <2>2, TypedParts, TypedNext, BookStays
  <1>9. Credentials'
    BY <1>1, <1>4, <1>5, CredentialsKept
  <1>10. /\ \A q \in Players \ {p} : at'[q] = at[q]
         /\ at'[p] \in Clients => at'[p] = c /\ seat = c
    BY <1>1, <1>4, TypedParts, Distinct
  <1>11. ASSUME NEW q \in Players, q # p, at[q] \in Clients
         PROVE  at[q] \notin out /\ at[q] # c /\ at[q] \in open
    <2>1. at[q] # at[p] /\ at[q] \in open
      BY <1>1, <1>11 DEF Seating
    <2> QED
      BY <1>3, <1>11, <2>1
  <1>12. Seating'
    <2>1. ASSUME NEW q \in Players, at'[q] \in Clients PROVE at'[q] \in open'
      <3>1. CASE q = p
        BY <1>4, <1>10, <2>1, <3>1
      <3>2. CASE q # p
        BY <1>4, <1>10, <1>11, <2>1, <3>2
      <3> QED
        BY <3>1, <3>2
    <2>2. ASSUME NEW q \in Players, NEW r \in Players, at'[q] = at'[r], at'[q] \in Clients
          PROVE  q = r
      <3>1. ASSUME NEW t \in Players, t # p, at'[t] \in Clients
            PROVE  at'[t] = at[t] /\ at'[t] # c
        BY <1>10, <1>11, <3>1
      <3> QED
        BY <1>1, <1>10, <2>2, <3>1 DEF Seating
    <2>3. ASSUME NEW d \in Clients, op'[d].here
          PROVE  /\ d \in open'
                 /\ op'[d].kind = "register" => \A q \in Players : at'[q] # d
                 /\ op'[d].kind = "login" => \A q \in Players \ {op'[d].player} : at'[q] # d
      <3>1. SameCall(d)
        BY <1>6
      <3>2. CASE d = c
        BY <1>10, <2>3, <3>1, <3>2 DEF SameCall
      <3>3. CASE d # c
        <4>1. \A q \in Players : at'[q] = d => at[q] = d
          BY <1>10, <3>3
        <4> QED
          BY <1>1, <2>3, <3>1, <4>1 DEF Seating, SameCall
      <3> QED
        BY <3>2, <3>3
    <2> QED
      BY <2>1, <2>2, <2>3, Zenon DEF Seating
  <1>13. Calls'
    BY <1>1, <1>4, <1>5, <1>6, CallsKept, Distinct
  <1> QED
    BY <1>7, <1>8, <1>9, <1>12, <1>13 DEF IdentityInv

LEMMA ConnectToSeatStep ==
  ASSUME IdentityInv, NEW c \in Clients, NEW p \in Players, NEW heard \in BOOLEAN,
         ConnectToSeat(c, p, heard)
  PROVE  IdentityInv'
  <1>1. Typed /\ Credentials /\ Seating
    BY DEF IdentityInv
  <1>2. PICK x : x = Record(p, book[p].version, seatRecord[p].password)
    OBVIOUS
  <1>3. PICK seat \in {c, Held} : seat = IF heard THEN c ELSE Held
    OBVIOUS
  <1>4. /\ c \notin open /\ TakeOverSeat(c, p, seat, heard)
        /\ record' \in {RestoredRecords(c), [RestoredRecords(c) EXCEPT ![c] = x]}
        /\ stored' = [stored EXCEPT ![c] = IF heard THEN p ELSE stored[c]]
    BY <1>2, <1>3 DEF ConnectToSeat
  <1>5. seatRecord[p].player = p /\ seatRecord[p].version = book[p].version
    BY <1>4 DEF TakeOverSeat, Resumes
  <1>6. x \in SessionRecord /\ x.player = p /\ Fits(book, x)
    <2>1. Fits(book, seatRecord[p]) /\ seatRecord[p] \in SessionRecord
      BY <1>1, TypedParts DEF Credentials
    <2> QED
      BY <1>1, <1>2, <1>5, <2>1, TypedParts, RenewedRecord
  <1>7. Fewer(RestoredRecords(c), {})
    BY <1>1, TypedParts, RevokingLeavesFewer
  <1>8. /\ record' \in [Clients -> SessionRecord]
        /\ \A d \in Clients : record'[d] \in {record[d], NoRecord} \/ Fits(book, record'[d])
    <2>1. CASE record' = RestoredRecords(c)
      BY <1>7, <2>1 DEF Fewer
    <2>2. CASE record' = [RestoredRecords(c) EXCEPT ![c] = x]
      <3>1. Fewer(record', {c}) /\ record'[c] = x
        BY <1>6, <1>7, <2>2, GrantedSession
      <3> QED
        BY <1>6, <3>1 DEF Fewer
    <2> QED
      BY <1>4, <2>1, <2>2
  <1>9. stored' \in [Clients -> Players \cup {None}]
    BY <1>1, <1>4, TypedParts
  <1>10. (\A q \in Players : at[q] # c) /\ ~op[c].here
    BY <1>1, <1>4 DEF Seating
  <1> QED
    BY <1>4, <1>8, <1>9, <1>10, TakeOverStep

LEMMA PlayerJoinStep ==
  ASSUME IdentityInv, NEW c \in Clients, NEW p \in Players, NEW heard \in BOOLEAN,
         PlayerJoin(c, p, heard)
  PROVE  IdentityInv'
  <1>1. /\ TakeOverSeat(c, p, c, heard)
        /\ \A q \in Players \ {p} : at[q] # c
        /\ op[c].here => op[c].kind = "change" \/ (op[c].kind = "login" /\ op[c].player = p)
        /\ record' = record /\ stored' = stored
    BY DEF PlayerJoin
  <1>2. /\ record \in [Clients -> SessionRecord]
        /\ stored \in [Clients -> Players \cup {None}]
    BY TypedParts DEF IdentityInv
  <1> QED
    BY <1>1, <1>2, TakeOverStep

-----------------------------------------------------------------------------
(* The store. *)

\* What the store does for a call changes the account the answer is about.
LEMMA StoreWorksFor ==
  ASSUME IdentityInv, NEW o \in Owners, StoreWorks(o)
  PROVE  /\ op[o].kind \in {"register", "change", "status", "delete"}
         /\ UNCHANGED <<open, account, sessionVars, at, audit>>
         /\ \E p \in Players :
              /\ Carried(o, p)
              /\ op[o].kind # "register" => p = op[o].player
              /\ \/ Changed(p)
                 \/ book' = book /\ op[o].kind = "status" /\ book[p].status = op[o].status
              /\ \/ op[o].kind = "register" /\ book[p].status = "absent"
                 \/ op[o].kind = "change" /\ book'[p].status = book[p].status
                 \/ /\ op[o].kind \in {"status", "delete"}
                    /\ o = Admin /\ book'[p].status = op[o].status
  <1>1. Typed /\ Credentials /\ Seating /\ Tokens /\ Calls
    BY DEF IdentityInv
  <1>2. UNCHANGED <<open, account, sessionVars, at, audit>>
    BY DEF StoreWorks
  <1>3. op[o].password \in Passwords \cup {None} /\ Book!TypeOK
    BY <1>1, TypedParts, OperationFields
  <1>4. op[o].kind \in {"change", "status", "delete"} => op[o].player \in Players
    BY <1>1 DEF Calls
  <1>5. op[o].kind \in {"status", "delete"} => o = Admin
    BY <1>1 DEF Calls, Owners
  <1>6. /\ op[Admin].kind = "status" => op[Admin].status \in {"active", "disabled"}
        /\ op[Admin].kind = "delete" => op[Admin].status = "deleted"
    BY <1>1 DEF Calls
  <1>7. CASE /\ op[o].kind = "register"
             /\ \E q \in Players : Book!Register(q, q, q, op[o].password, "key") /\ Carried(o, q)
    <2>1. PICK q \in Players : Book!Register(q, q, q, op[o].password, "key") /\ Carried(o, q)
      BY <1>7
    <2>2. Changed(q) /\ book[q].status = "absent"
      BY <1>3, <2>1, RegisterChanges
    <2> QED
      BY <1>2, <1>7, <2>1, <2>2
  <1>8. CASE /\ op[o].kind = "change"
             /\ Book!ChangePassword(op[o].player, op[o].password) \/ Book!ChangeEmail(op[o].player, op[o].player, "key")
             /\ Carried(o, op[o].player)
    <2>1. Changed(op[o].player) /\ book'[op[o].player].status = book[op[o].player].status
      BY <1>3, <1>4, <1>8, OwnerChanges
    <2> QED
      BY <1>2, <1>4, <1>8, <2>1
  <1>9. CASE op[o].kind = "status" /\ Book!SetStatus(op[o].player, op[o].status) /\ Carried(o, op[o].player)
    <2>1. Changed(op[o].player) /\ book'[op[o].player].status = op[o].status
      BY <1>3, <1>4, <1>5, <1>6, <1>9, AdminChanges
    <2> QED
      BY <1>2, <1>4, <1>5, <1>9, <2>1
  <1>10. CASE /\ op[o].kind = "status" /\ book[op[o].player].status = op[o].status
              /\ UNCHANGED book /\ Carried(o, op[o].player)
    BY <1>2, <1>4, <1>5, <1>10
  <1>11. CASE op[o].kind = "delete" /\ Book!SoftDelete(op[o].player) /\ Carried(o, op[o].player)
    <2>1. Changed(op[o].player) /\ book'[op[o].player].status = "deleted"
      BY <1>3, <1>4, <1>11, AdminChanges
    <2> QED
      BY <1>2, <1>4, <1>5, <1>6, <1>11, <2>1
  <1> QED
    BY <1>7, <1>8, <1>9, <1>10, <1>11, Zenon DEF StoreWorks

LEMMA StoreWorksStep ==
  ASSUME IdentityInv, NEW o \in Owners, StoreWorks(o)
  PROVE  IdentityInv'
  <1>1. Typed /\ Credentials /\ Seating /\ Tokens /\ Calls
    BY DEF IdentityInv
  <1>2. op[o].kind \in {"register", "change", "status", "delete"}
    BY StoreWorksFor
  <1>3. /\ open' = open /\ account' = account /\ stored' = stored
        /\ record' = record /\ seatToken' = seatToken /\ seatRecord' = seatRecord
        /\ at' = at /\ void' = void /\ audit' = audit
    BY StoreWorksFor DEF sessionVars
  <1>4. PICK p \in Players :
          /\ Carried(o, p)
          /\ op[o].kind # "register" => p = op[o].player
          /\ Changed(p) \/ book' = book
    BY StoreWorksFor
  <1>5. Book!TypeOK'
    BY <1>1, <1>4, TypedParts, BookStays DEF Changed
  <1>6. book'[p].version \in Nat /\ book'[p].password \in Passwords \cup {None}
    <2>1. book'[p] \in Book!Account \/ book'[p] = Book!Absent
      BY <1>5 DEF Book!TypeOK, Book!Books
    <2>2. CASE book'[p] \in Book!Account
      BY <2>2, AccountFields
    <2>3. CASE book'[p] = Book!Absent
      BY <2>3 DEF Book!Absent
    <2> QED
      BY <2>1, <2>2, <2>3
  <1>7. PICK y : y = [op[o] EXCEPT !.stage = "answer", !.ok = TRUE, !.player = p,
                                   !.version = book'[p].version, !.password = book'[p].password]
    OBVIOUS
  <1>8. op' = [op EXCEPT ![o] = y]
    BY <1>4, <1>7 DEF Carried
  <1>9. op[o] \in Operation
    BY <1>1, TypedParts
  <1>10. /\ y \in Operation
         /\ y.kind = op[o].kind /\ y.player = p /\ y.version = book'[p].version
         /\ y.password = book'[p].password /\ y.status = op[o].status /\ y.ok = TRUE
         /\ y.here = op[o].here
    <2>1. PICK x \in Operation, v \in Nat, w \in Passwords \cup {None} :
            x = op[o] /\ v = book'[p].version /\ w = book'[p].password
      BY <1>6, <1>9
    <2>2. y = [x EXCEPT !.stage = "answer", !.ok = TRUE, !.player = p, !.version = v, !.password = w]
      BY <1>7, <2>1
    <2>3. /\ y \in Operation
          /\ y.kind = x.kind /\ y.player = p /\ y.version = v
          /\ y.password = w /\ y.status = x.status /\ y.ok = TRUE /\ y.here = x.here
      BY Zenon, <2>1, <2>2 DEF Operation
    <2> QED
      BY <2>1, <2>3
  <1>11. /\ op' \in [Owners -> Operation] /\ op'[o] = y
         /\ \A d \in Owners \ {o} : op'[d] = op[d]
    BY <1>1, <1>8, <1>10, TypedParts
  <1>12. Typed'
    BY <1>1, <1>3, <1>5, <1>11, TypedParts, TypedNext
  <1>13. Credentials'
    <2>1. book' = book \/ \E q \in Players : Changed(q)
      BY <1>4
    <2>2. ASSUME NEW c \in Clients PROVE Fits(book', record'[c])
      <3>1. record[c].version \in Nat /\ Fits(book, record[c])
        BY <1>1, TypedParts, RecordFields DEF Credentials
      <3> QED
        BY <1>1, <1>3, <2>1, <3>1, TypedParts, FitsStays
    <2>3. ASSUME NEW q \in Players PROVE Fits(book', seatRecord'[q])
      <3>1. seatRecord[q].version \in Nat /\ Fits(book, seatRecord[q])
        BY <1>1, TypedParts, RecordFields DEF Credentials
      <3> QED
        BY <1>1, <1>3, <2>1, <3>1, TypedParts, FitsStays
    <2>4. ASSUME NEW d \in Owners, op'[d].kind = "login" \/ op'[d].ok
          PROVE  op'[d].player \in Players /\ Fits(book', op'[d])
      <3>1. CASE d = o
        BY <1>6, <1>10, <1>11, <3>1 DEF Fits
      <3>2. CASE d # o
        <4>1. op[d].version \in Nat /\ Fits(book, op[d]) /\ op[d].player \in Players
          BY <1>1, <1>11, <2>4, <3>2, TypedParts, OperationFields DEF Credentials
        <4>2. Fits(book', op[d])
          BY <1>1, <2>1, <4>1, TypedParts, FitsStays
        <4> QED
          BY <1>11, <3>2, <4>1, <4>2
      <3> QED
        BY <3>1, <3>2
    <2> QED
      BY <2>2, <2>3, <2>4, Zenon DEF Credentials
  <1>14. Seating'
    <2>1. ASSUME NEW c \in Clients, op'[c].here
          PROVE  \/ SameCall(c)
                 \/ c \in open' /\ op'[c].kind \notin {"register", "login"}
                 \/ c \in open' /\ \A q \in Players : at'[q] = c => op'[c].kind = "login" /\ op'[c].player = q
      <3>1. CASE c # o
        BY <1>1, <1>3, <1>11, <3>1, Distinct DEF SameCall, Seating
      <3>2. CASE c = o
        BY <1>1, <1>2, <1>3, <1>10, <1>11, <2>1, <3>2 DEF Seating
      <3> QED
        BY <3>1, <3>2
    <2> QED
      BY <1>1, <1>3, <2>1, SeatingKept DEF Seating
  <1>15. Tokens'
    BY <1>1, <1>3, TokensKept
  <1>16. Calls'
    <2>1. \A d \in Owners : op'[d].kind = op[d].kind /\ op'[d].status = op[d].status
      BY <1>10, <1>11
    <2>2. \A d \in Owners : op[d].kind # "register" => op'[d].player = op[d].player
      BY <1>4, <1>10, <1>11
    <2>3. \A c \in Clients : op'[c].kind \in {"none", "register", "login", "change"}
      BY <1>1, <2>1, Distinct DEF Calls
    <2>4. \A d \in Owners : op'[d].kind \in {"change", "status", "delete"} => op'[d].player \in Players
      BY <1>1, <2>1, <2>2 DEF Calls
    <2>5. /\ op[Admin].kind = op'[Admin].kind /\ op[Admin].status = op'[Admin].status
          /\ op[Admin].kind # "none" => op[Admin].player = op'[Admin].player
      BY <1>1, <2>1, <2>2, Distinct DEF Calls
    <2>6. /\ op'[Admin].kind \in {"none", "status", "delete"}
          /\ op'[Admin].kind # "none" => audit' = Entry(op'[Admin].player, op'[Admin].status)
          /\ op'[Admin].kind = "status" => op'[Admin].status \in {"active", "disabled"}
          /\ op'[Admin].kind = "delete" => op'[Admin].status = "deleted"
      BY <1>1, <1>3, <2>5 DEF Calls
    <2> QED
      BY <2>3, <2>4, <2>6, Zenon DEF Calls
  <1> QED
    BY <1>12, <1>13, <1>14, <1>15, <1>16 DEF IdentityInv

-----------------------------------------------------------------------------
(* Every step. *)

LEMMA InvInitially ==
  ASSUME Init
  PROVE  IdentityInv
  <1>1. \A p \in Players : book[p] = Book!Absent
    BY DEF Init, Book!EmptyBook
  <1>2. Book!TypeOK
    BY DEF Init, Book!EmptyBook, Book!TypeOK, Book!Books
  <1>3. /\ op \in [Owners -> Operation]
        /\ \A o \in Owners : op[o].kind = "none" /\ ~op[o].ok /\ ~op[o].here
    BY IdleOperation DEF Init
  <1>4. Typed
    <2>1. /\ open \subseteq Clients
          /\ account \in [Clients -> Players \cup {None}]
          /\ stored \in [Clients -> Players \cup {None}]
          /\ at \in [Players -> Clients \cup {None, Held, Gone}]
          /\ audit = NoEntry /\ void = {}
      BY DEF Init
    <2>2. /\ record \in [Clients -> SessionRecord]
          /\ seatRecord \in [Players -> SessionRecord]
          /\ seatToken \in [Clients -> TokenRecord]
      BY RecordFields, TokenFields DEF Init
    <2> QED
      BY <1>2, <1>3, <2>1, <2>2, Zenon DEF Typed, TypeOK, SessionRecord, TokenRecord
  <1>5. Credentials
    <2>1. Fits(book, NoRecord)
      BY RecordFields, Distinct DEF Fits
    <2> QED
      BY <1>3, <2>1 DEF Init, Credentials
  <1>6. \A p \in Players : at[p] \notin Clients /\ at[p] \notin open
    BY Distinct DEF Init
  <1>7. Seating
    BY <1>3, <1>6, Distinct DEF Seating
  <1>8. Tokens
    BY DEF Init, Tokens
  <1>9. Calls
    BY <1>3, Distinct DEF Calls
  <1> QED
    BY <1>4, <1>5, <1>7, <1>8, <1>9 DEF IdentityInv

\* The steps of one client.
LEMMA ClientStep ==
  ASSUME IdentityInv, NEW c \in Clients, ClientNext(c)
  PROVE  IdentityInv'
  <1>1. CASE StaleRequest(c) \/ ConnectWithoutSeat(c) \/ Disconnect(c) \/ GraceEnds(c)
    BY <1>1, StaleRequestStep, ConnectWithoutSeatStep, DisconnectStep, GraceEndsStep
  <1>2. CASE \E p \in Players, heard \in BOOLEAN : ConnectToSeat(c, p, heard) \/ PlayerJoin(c, p, heard)
    BY <1>2, ConnectToSeatStep, PlayerJoinStep
  <1>8. CASE PlayerJoinRefused(c) \/ \E d \in Clients : CopySession(c, d)
    BY <1>8, PlayerJoinRefusedStep, CopySessionStep
  <1>3. CASE \E w \in Passwords : AccountRegister(c, w) \/ AccountChange(c, w)
    BY <1>3, AccountRegisterStep, AccountChangeStep
  <1>4. CASE RegisterHashed(c) \/ AnswerRegister(c)
    BY <1>4, RegisterHashedStep, AnswerRegisterStep
  <1>5. CASE \E p \in Players : AccountLogin(c, p)
    BY <1>5, AccountLoginStep
  <1>6. CASE LoginEnds(c) \/ AnswerChange(c)
    BY <1>6, LoginEndsStep, AnswerChangeStep
  <1>7. CASE SessionsRevokeOthers(c) \/ AnswerRefusal(c)
    BY <1>7, SessionsRevokeOthersStep, AnswerRefusalStep
  <1> QED
    BY <1>1, <1>2, <1>3, <1>4, <1>5, <1>6, <1>7, <1>8, Zenon DEF ClientNext

LEMMA InvNext ==
  ASSUME IdentityInv, [Next]_vars
  PROVE  IdentityInv'
  <1>1. CASE \E c \in Clients : ClientNext(c)
    BY <1>1, ClientStep
  <1>2. CASE \E p \in Players : PlayerLeave(p) \/ HoldExpires(p)
    BY <1>2, FreeSeatStep DEF PlayerLeave, HoldExpires
  <1>3. CASE \E p \in Players : AdminForceLogout(p)
    BY <1>3, AdminForceLogoutStep
  <1>4. CASE \E p \in Players, s \in {"active", "disabled"} : AdminCall(p, "status", s)
    BY <1>4, AdminCallStep
  <1>5. CASE \E p \in Players : AdminCall(p, "delete", "deleted")
    BY <1>5, AdminCallStep
  <1>6. CASE \E o \in Owners : StoreWorks(o) \/ StoreRefuses(o)
    BY <1>6, StoreWorksStep, StoreRefusesStep
  <1>7. CASE AnswerAdmin \/ Restart
    BY <1>7, AnswerAdminStep, RestartStep
  <1>8. CASE UNCHANGED vars
    <2>1. /\ book' = book /\ op' = op /\ open' = open /\ account' = account
          /\ stored' = stored /\ record' = record /\ seatToken' = seatToken
          /\ seatRecord' = seatRecord /\ void' = void /\ at' = at /\ audit' = audit
      BY <1>8 DEF vars, storeVars, sessionVars
    <2> QED
      BY <2>1, Zenon DEF IdentityInv, Typed, TypeOK, Credentials, Seating, Tokens, Calls, Book!TypeOK
  <1> QED
    BY <1>1, <1>2, <1>3, <1>4, <1>5, <1>6, <1>7, <1>8, Zenon DEF Next

\* The inductive invariant: what was given out fits the versions and passwords
\* of the accounts (accountStore.ts, accountSessions.ts, playerSessions.ts).
THEOREM InvAlways == Spec => []IdentityInv
  <1>1. Init => IdentityInv
    BY InvInitially
  <1>2. IdentityInv /\ [Next]_vars => IdentityInv'
    BY InvNext
  <1> QED
    BY <1>1, <1>2, PTL DEF Spec

-----------------------------------------------------------------------------
(* What follows from the invariant. *)

\* A session of either kind that would be accepted was given for the password
\* of now (OldPasswordOpensNothing; accountSessions.verify, resolveSessionSeat
\* and the changes of accounts that race with logins).
THEOREM OldPasswordsOpenNothing == Spec => []OldPasswordOpensNothing
  <1>1. ASSUME IdentityInv PROVE OldPasswordOpensNothing
    <2>1. Typed /\ Credentials
      BY <1>1 DEF IdentityInv
    <2>2. ASSUME NEW c \in Clients, NEW p \in Players
          PROVE  /\ Restores(c, p) => record[c].password = book[p].password
                 /\ Resumes(c, p) => seatRecord[p].password = book[p].password
      <3>1. Fits(book, record[c]) /\ Fits(book, seatRecord[p])
        BY <2>1 DEF Credentials
      <3> QED
        BY <3>1 DEF Fits, Restores, Resumes
    <2> QED
      BY <2>1, <2>2 DEF OldPasswordOpensNothing, Typed
  <1>2. IdentityInv => OldPasswordOpensNothing
    BY <1>1
  <1> QED
    BY <1>2, InvAlways, PTL

\* A session of a seat that was revoked opens the seat never again, whoever
\* kept or copied it and whoever sits there since (SeatNeedsItsSession;
\* PlayerSessionStore.issue, rotate and revoke, resolveSessionSeat).
THEOREM SeatsNeedTheirSession == Spec => []SeatNeedsItsSession
  <1>1. ASSUME IdentityInv PROVE SeatNeedsItsSession
    <2>1. Tokens
      BY <1>1 DEF IdentityInv
    <2> QED
      BY <2>1 DEF Tokens, SeatNeedsItsSession, Resumes, HasToken
  <1>2. IdentityInv => SeatNeedsItsSession
    BY <1>1
  <1> QED
    BY <1>2, InvAlways, PTL

\* A session of a client is another one only when its owner signed in, resumed
\* a seat or was answered, or when it was revoked.
LEMMA WhoIsGranted ==
  ASSUME IdentityInv, Next, NEW c \in Clients
  PROVE  \/ LoginEnds(c) \/ AnswerRegister(c) \/ AnswerChange(c)
         \/ \E p \in Players : ConnectToSeat(c, p, TRUE) /\ record'[c].player = p
         \/ record'[c] \in {record[c], NoRecord}
  <1>1. record \in [Clients -> SessionRecord]
    BY TypedParts DEF IdentityInv
  <1>2. Fewer(record', {}) => record'[c] \in {record[c], NoRecord}
    BY DEF Fewer
  <1>3. ASSUME NEW d \in Clients, LoginEnds(d) \/ AnswerRegister(d)
        PROVE  d = c \/ record'[c] = record[c]
    BY <1>1, <1>3 DEF LoginEnds, AnswerRegister, Enters
  <1>4. ASSUME NEW d \in Clients, AnswerChange(d)
        PROVE  d = c \/ record'[c] \in {record[c], NoRecord}
    <2>1. PICK r : r = RevokePlayer(record, op[d].player)
      OBVIOUS
    <2>2. Fewer(r, {})
      BY <1>1, <2>1, RevokingLeavesFewer
    <2>3. PICK x : record' \in {r, [r EXCEPT ![d] = x]}
      BY <1>4, <2>1 DEF AnswerChange
    <2> QED
      BY <2>2, <2>3 DEF Fewer
  <1>5. ASSUME NEW d \in Clients, NEW p \in Players, NEW heard \in BOOLEAN, ConnectToSeat(d, p, heard)
        PROVE  \/ d = c /\ heard /\ record'[c].player = p
               \/ record'[c] \in {record[c], NoRecord}
    <2>1. PICK r : r = RestoredRecords(d)
      OBVIOUS
    <2>2. Fewer(r, {})
      BY <1>1, <2>1, RevokingLeavesFewer
    <2>3. PICK x : x = Record(p, book[p].version, seatRecord[p].password)
      OBVIOUS
    <2>4. record' = r \/ (heard /\ record' = [r EXCEPT ![d] = x])
      BY <1>5, <2>1, <2>3 DEF ConnectToSeat
    <2>5. x.player = p
      BY <2>3 DEF Record
    <2> QED
      BY <2>2, <2>4, <2>5 DEF Fewer
  <1>6. ASSUME NEW d \in Clients,
               \/ StaleRequest(d) \/ ConnectWithoutSeat(d) \/ SessionsRevokeOthers(d)
               \/ Disconnect(d) \/ GraceEnds(d) \/ RegisterHashed(d) \/ AnswerRefusal(d)
               \/ PlayerJoinRefused(d) \/ \E e \in Clients : CopySession(d, e)
               \/ \E p \in Players, heard \in BOOLEAN : PlayerJoin(d, p, heard)
               \/ \E w \in Passwords : AccountRegister(d, w) \/ AccountChange(d, w)
               \/ \E p \in Players : AccountLogin(d, p)
        PROVE  Fewer(record', {})
    <2>1. CASE StaleRequest(d) \/ ConnectWithoutSeat(d) \/ SessionsRevokeOthers(d)
      BY <1>1, <2>1, RevokingLeavesFewer DEF StaleRequest, ConnectWithoutSeat, SessionsRevokeOthers
    <2>2. CASE \/ Disconnect(d) \/ GraceEnds(d) \/ RegisterHashed(d) \/ AnswerRefusal(d)
               \/ PlayerJoinRefused(d) \/ \E e \in Clients : CopySession(d, e)
               \/ \E p \in Players, heard \in BOOLEAN : PlayerJoin(d, p, heard)
               \/ \E w \in Passwords : AccountRegister(d, w) \/ AccountChange(d, w)
               \/ \E p \in Players : AccountLogin(d, p)
      <3>1. record' = record
        BY <2>2 DEF Disconnect, GraceEnds, RegisterHashed, AnswerRefusal, AccountRegister,
                    AccountChange, AccountLogin, PlayerJoin, PlayerJoinRefused, CopySession,
                    sessionVars
      <3> QED
        BY <1>1, <3>1, RevokingLeavesFewer
    <2> QED
      BY <1>6, <2>1, <2>2
  <1>7. ASSUME \/ \E p \in Players : PlayerLeave(p) \/ HoldExpires(p) \/ AdminForceLogout(p)
                                     \/ \E s \in {"active", "disabled"} : AdminCall(p, "status", s)
                                     \/ AdminCall(p, "delete", "deleted")
               \/ \E o \in Owners : StoreWorks(o) \/ StoreRefuses(o)
               \/ AnswerAdmin \/ Restart
        PROVE  Fewer(record', {})
    <2>1. \/ record' = record
          \/ \E p : record' = RevokePlayer(record, p)
          \/ record' = [d \in Clients |-> NoRecord]
      BY <1>7 DEF PlayerLeave, HoldExpires, FreeSeat, AdminForceLogout, RemovePresence, AdminCall,
                  StoreWorks, StoreRefuses, AnswerAdmin, Restart, sessionVars
    <2>2. CASE record' = [d \in Clients |-> NoRecord]
      BY <2>2, RecordFields DEF Fewer
    <2> QED
      BY <1>1, <2>1, <2>2, RevokingLeavesFewer
  <1>8. CASE \E d \in Clients : ClientNext(d)
    <2>1. PICK d \in Clients : ClientNext(d)
      BY <1>8
    <2>2. CASE LoginEnds(d) \/ AnswerRegister(d) \/ AnswerChange(d)
      BY <1>3, <1>4, <2>2
    <2>3. CASE \E p \in Players, heard \in BOOLEAN : ConnectToSeat(d, p, heard)
      BY <1>5, <2>3
    <2> QED
      BY <1>2, <1>6, <2>1, <2>2, <2>3, Zenon DEF ClientNext
  <1> QED
    BY <1>2, <1>7, <1>8, Zenon DEF Next

\* Only the store changes accounts, one at a time.
LEMMA WhoChangesTheBook ==
  ASSUME Next
  PROVE  book' = book \/ \E o \in Owners : StoreWorks(o)
  <1>1. ASSUME NEW c \in Clients, ClientNext(c) PROVE book' = book
    <2>1. CASE LoginEnds(c) \/ AnswerRegister(c)
      BY <2>1 DEF LoginEnds, AnswerRegister, Enters
    <2>2. CASE \E p \in Players, heard \in BOOLEAN : ConnectToSeat(c, p, heard) \/ PlayerJoin(c, p, heard)
      BY <2>2 DEF ConnectToSeat, PlayerJoin, TakeOverSeat
    <2>3. CASE \/ StaleRequest(c) \/ ConnectWithoutSeat(c) \/ Disconnect(c) \/ GraceEnds(c)
               \/ SessionsRevokeOthers(c)
               \/ PlayerJoinRefused(c) \/ \E d \in Clients : CopySession(c, d)
      BY <2>3 DEF StaleRequest, ConnectWithoutSeat, Disconnect, GraceEnds, SessionsRevokeOthers,
                  PlayerJoinRefused, CopySession, storeVars
    <2>4. CASE \/ \E w \in Passwords : AccountRegister(c, w) \/ AccountChange(c, w)
               \/ \E p \in Players : AccountLogin(c, p)
               \/ RegisterHashed(c) \/ AnswerChange(c) \/ AnswerRefusal(c)
      BY <2>4 DEF AccountRegister, AccountChange, AccountLogin, RegisterHashed, AnswerChange,
                  AnswerRefusal
    <2> QED
      BY <1>1, <2>1, <2>2, <2>3, <2>4, Zenon DEF ClientNext
  <1>2. ASSUME \/ \E p \in Players : PlayerLeave(p) \/ HoldExpires(p) \/ AdminForceLogout(p)
                                     \/ \E s \in {"active", "disabled"} : AdminCall(p, "status", s)
                                     \/ AdminCall(p, "delete", "deleted")
               \/ \E o \in Owners : StoreRefuses(o)
               \/ AnswerAdmin \/ Restart
        PROVE  book' = book
    BY <1>2 DEF PlayerLeave, HoldExpires, FreeSeat, AdminForceLogout, AdminCall, StoreRefuses,
                AnswerAdmin, Restart, storeVars
  <1> QED
    BY <1>1, <1>2, Zenon DEF Next

\* A session that was not accepted stays so, also when the account is enabled
\* again, unless its own client gets a new one (NothingRevives; setStatus and
\* accountSessions.verify).
THEOREM RefusedStaysRefused == Spec => NothingRevives
  <1>1. ASSUME IdentityInv, Next, NEW c \in Clients, NEW p \in Players,
               ~Restores(c, p), Restores(c, p)'
        PROVE  \/ LoginEnds(c) \/ AnswerRegister(c) \/ AnswerChange(c)
               \/ ConnectToSeat(c, p, TRUE)
    <2>1. record'[c].player = p /\ record'[c].version = book'[p].version /\ book'[p].status = "active"
      BY <1>1 DEF Restores, Active
    <2>2. record'[c] # NoRecord
      BY <2>1, RecordFields, Distinct
    <2>3. ASSUME record'[c] = record[c] PROVE FALSE
      <3>1. record[c].version \in Nat /\ Fits(book, record[c]) /\ Book!TypeOK
        BY <1>1, TypedParts, RecordFields DEF IdentityInv, Credentials
      <3>2. CASE book' = book
        BY <1>1, <2>1, <2>3, <3>2 DEF Restores, Active
      <3>3. ASSUME NEW q \in Players, Changed(q) PROVE FALSE
        <4>1. CASE q # p
          <5>1. book'[p] = book[p]
            BY <3>3, <4>1 DEF Changed
          <5> QED
            BY <1>1, <2>1, <2>3, <5>1 DEF Restores, Active
        <4>2. CASE q = p
          <5>1. record[c].version <= book[p].version /\ book[p].version \in Nat
            BY <2>1, <2>3, <3>1, BookFields DEF Fits
          <5>2. book'[p].version \in Nat /\ book'[p].version > book[p].version
            BY <3>3, <4>2 DEF Changed
          <5> QED
            BY <2>1, <2>3, <3>1, <5>1, <5>2
        <4> QED
          BY <4>1, <4>2
      <3>4. book' = book \/ \E q \in Players : Changed(q)
        BY <1>1, WhoChangesTheBook, StoreWorksFor
      <3> QED
        BY <3>2, <3>3, <3>4
    <2>4. \/ LoginEnds(c) \/ AnswerRegister(c) \/ AnswerChange(c)
          \/ \E q \in Players : ConnectToSeat(c, q, TRUE) /\ record'[c].player = q
      BY <1>1, <2>2, <2>3, WhoIsGranted
    <2> QED
      BY <2>1, <2>4
  <1>2. IdentityInv /\ [Next]_vars =>
          [\A c \in Clients, p \in Players :
             (~Restores(c, p) /\ Restores(c, p)') =>
                \/ LoginEnds(c) \/ AnswerRegister(c) \/ AnswerChange(c)
                \/ ConnectToSeat(c, p, TRUE)]_vars
    BY <1>1
  <1> QED
    BY <1>2, InvAlways, PTL DEF Spec, NothingRevives

\* Before the status of an account changes, the audit file ends with a pending
\* entry of it (AuditedFirst; admin:accounts:setStatus and softDelete).
THEOREM AuditComesFirst == Spec => AuditedFirst
  <1>1. ASSUME IdentityInv, Next, NEW p \in Players,
               book[p].status # "absent", book'[p].status # book[p].status
        PROVE  audit = Entry(p, book'[p].status)
    <2>1. PICK o \in Owners : StoreWorks(o)
      BY <1>1, WhoChangesTheBook
    <2>2. PICK q \in Players :
            /\ op[o].kind # "register" => q = op[o].player
            /\ Changed(q) \/ book' = book
            /\ \/ op[o].kind = "register" /\ book[q].status = "absent"
               \/ op[o].kind = "change" /\ book'[q].status = book[q].status
               \/ /\ op[o].kind \in {"status", "delete"}
                  /\ o = Admin /\ book'[q].status = op[o].status
      BY <1>1, <2>1, StoreWorksFor
    <2>3. q = p
      BY <1>1, <2>2 DEF Changed
    <2>4. /\ op[Admin].kind \in {"status", "delete"} /\ p = op[Admin].player
          /\ book'[p].status = op[Admin].status
      BY <1>1, <2>2, <2>3
    <2>5. op[Admin].kind # "none" => audit = Entry(op[Admin].player, op[Admin].status)
      BY <1>1 DEF IdentityInv, Calls
    <2> QED
      BY <2>4, <2>5
  <1>2. IdentityInv /\ [Next]_vars =>
          [\A p \in Players :
             (book[p].status # "absent" /\ book'[p].status # book[p].status) =>
               audit = Entry(p, book'[p].status)]_vars
    BY <1>1
  <1> QED
    BY <1>2, InvAlways, PTL DEF Spec, AuditedFirst

=============================================================================
