----------------------------- MODULE StoresProofs -----------------------------
(***************************************************************************)
(* Proofs about the two stores that outlive the server, AccountStore and   *)
(* Progress.                                                               *)
(*                                                                         *)
(* For any number of accounts and calls, with failing disks and crashes    *)
(* anywhere, the accounts file changes as the abstract book does, memory   *)
(* and file agree between two commits, and what was deleted is erased from *)
(* file and backup.                                                        *)
(*                                                                         *)
(* For any number of levels, settings and saves, which overlap at will: a  *)
(* save that ran beside no other one is written whole or not at all, a     *)
(* crash loses nothing of it, and it takes back nothing that the room was  *)
(* told before.  Saves that ran beside each other break this (README), and *)
(* do so until the next save that runs alone, at the longest.              *)
(***************************************************************************)
EXTENDS AccountStore, Progress, TLAPS

-----------------------------------------------------------------------------
(* What one change does to a book. *)

\* Account p of book b becomes a, under key k, as an action of Accounts does it.
Appears(b, p, a, k) ==
  \E e \in Emails, n \in Nicknames, w \in Passwords :
    /\ b[p] = Absent /\ EmailFree(b, p, e) /\ NickFree(b, p, n)
    /\ a = Registered(e, n, w, k)

IsRenamed(b, p, a) ==
  \E n \in Nicknames :
    b[p].status = "active" /\ NickFree(b, p, n) /\ a = [b[p] EXCEPT !.nick = n]

IsRepassworded(b, p, a) ==
  \E w \in Passwords : b[p].status = "active" /\ a = Repassworded(b[p], w)

IsReaddressed(b, p, a, k) ==
  \E e \in Emails :
    b[p].status = "active" /\ EmailFree(b, p, e) /\ a = Readdressed(b[p], e, k)

IsSwitched(b, p, a) ==
  \E s \in {"active", "disabled"} :
    Live(b, p) /\ b[p].status # s /\ a = WithStatus(b[p], s)

IsErased(b, p, a) == Live(b, p) /\ a = Tombstone(b[p])

Change(b, p, a, k) ==
  \/ Appears(b, p, a, k) \/ IsRenamed(b, p, a) \/ IsRepassworded(b, p, a)
  \/ IsReaddressed(b, p, a, k) \/ IsSwitched(b, p, a) \/ IsErased(b, p, a)

\* What the other proofs need to know of a change.
Follows(b, p, a, k) ==
  /\ a \in Account
  /\ a.status \in {"active", "disabled"} =>
       /\ a.email \in Emails /\ EmailFree(b, p, a.email)
       /\ a.nick \in Nicknames /\ NickFree(b, p, a.nick)
       /\ a.lock = k \/ (Live(b, p) /\ a.lock = b[p].lock)
  /\ a.status = "deleted" =>
       a.email = None /\ a.password = None /\ IsErased(b, p, a)

LEMMA AccountFields ==
  ASSUME NEW x \in Account
  PROVE  /\ x.status \in {"active", "disabled", "deleted"}
         /\ x.email \in Emails \cup {None}
         /\ x.nick \in Nicknames \cup {None}
         /\ x.password \in Passwords \cup {None}
         /\ x.lock \in Keys \cup {None}
         /\ x.version \in Nat /\ x.version + 1 \in Nat
  BY DEF Account

LEMMA RenamedAccount ==
  ASSUME NEW x \in Account, NEW n \in Nicknames, NEW a, a = [x EXCEPT !.nick = n]
  PROVE  /\ a \in Account
         /\ a.status = x.status /\ a.email = x.email /\ a.nick = n /\ a.lock = x.lock
  BY Zenon, AccountFields DEF Account

LEMMA RepasswordedAccount ==
  ASSUME NEW x \in Account, NEW w \in Passwords, NEW a, a = Repassworded(x, w)
  PROVE  /\ a \in Account
         /\ a.status = x.status /\ a.email = x.email /\ a.nick = x.nick /\ a.lock = x.lock
  BY Zenon, AccountFields DEF Account, Repassworded

LEMMA ReaddressedAccount ==
  ASSUME NEW x \in Account, NEW e \in Emails, NEW k \in Keys, NEW a,
         a = Readdressed(x, e, k)
  PROVE  /\ a \in Account
         /\ a.status = x.status /\ a.email = e /\ a.nick = x.nick /\ a.lock = k
  BY Zenon, AccountFields DEF Account, Readdressed

LEMMA SwitchedAccount ==
  ASSUME NEW x \in Account, NEW s \in {"active", "disabled"}, NEW a, a = WithStatus(x, s)
  PROVE  /\ a \in Account
         /\ a.status = s /\ a.email = x.email /\ a.nick = x.nick /\ a.lock = x.lock
  BY Zenon, AccountFields DEF Account, WithStatus

LEMMA ErasedAccount ==
  ASSUME NEW x \in Account, NEW a, a = Tombstone(x)
  PROVE  /\ a \in Account
         /\ a.status = "deleted" /\ a.email = None /\ a.password = None
  BY Zenon, AccountFields DEF Account, Tombstone

LEMMA LiveAccount ==
  ASSUME NEW b \in Books, Identified(b), NEW p \in Players, Live(b, p)
  PROVE  /\ b[p] \in Account /\ b[p].status \in {"active", "disabled"}
         /\ b[p].email \in Emails /\ EmailFree(b, p, b[p].email)
         /\ b[p].nick \in Nicknames /\ NickFree(b, p, b[p].nick)
  BY DEF Live, Books, Absent, Identified

LEMMA ChangeFollows ==
  ASSUME NEW b \in Books, Identified(b), NEW p \in Players, NEW k \in Keys, NEW a,
         Change(b, p, a, k)
  PROVE  Follows(b, p, a, k)
  <1>1. CASE Appears(b, p, a, k)
    BY <1>1 DEF Appears, Follows, Account, Registered
  <1>2. CASE IsRenamed(b, p, a)
    BY <1>2, LiveAccount, RenamedAccount DEF IsRenamed, Live, Follows
  <1>3. CASE IsRepassworded(b, p, a)
    BY <1>3, LiveAccount, RepasswordedAccount DEF IsRepassworded, Live, Follows
  <1>4. CASE IsReaddressed(b, p, a, k)
    BY <1>4, LiveAccount, ReaddressedAccount DEF IsReaddressed, Live, Follows
  <1>5. CASE IsSwitched(b, p, a)
    BY <1>5, LiveAccount, SwitchedAccount DEF IsSwitched, Live, Follows
  <1>6. CASE IsErased(b, p, a)
    BY <1>6, LiveAccount, ErasedAccount DEF IsErased, Follows
  <1> QED
    BY <1>1, <1>2, <1>3, <1>4, <1>5, <1>6 DEF Change

LEMMA ChangedBook ==
  ASSUME NEW b \in Books, NEW p \in Players, NEW k, NEW a, Follows(b, p, a, k)
  PROVE  [b EXCEPT ![p] = a] \in Books
  BY DEF Books, Follows

LEMMA ChangedIsIdentified ==
  ASSUME NEW b \in Books, NEW p \in Players, NEW k, NEW a, Follows(b, p, a, k), Identified(b)
  PROVE  Identified([b EXCEPT ![p] = a])
  <1> DEFINE d == [b EXCEPT ![p] = a]
  <1>1. d[p] = a /\ \A q \in Players \ {p} : d[q] = b[q]
    BY DEF Books
  <1>2. a.status \in {"active", "disabled", "deleted"}
    BY DEF Follows, Account
  <1> HIDE DEF d
  <1>3. ASSUME NEW q \in Players
        PROVE  /\ Live(d, q) => /\ d[q].email \in Emails /\ EmailFree(d, q, d[q].email)
                                /\ d[q].nick \in Nicknames /\ NickFree(d, q, d[q].nick)
               /\ ~Live(d, q) => d[q].email = None /\ d[q].password = None
    <2>1. CASE q = p
      BY <1>1, <1>2, <2>1 DEF Follows, Live, EmailFree, NickFree
    <2>2. CASE q # p
      <3>1. d[q] = b[q] /\ (Live(d, q) <=> Live(b, q))
        BY <1>1, <2>2 DEF Live
      <3>2. Live(b, q) => EmailFree(d, q, b[q].email) /\ NickFree(d, q, b[q].nick)
        BY <1>1, <1>2, <2>2 DEF Follows, Identified, Live, EmailFree, NickFree
      <3> QED
        BY <3>1, <3>2 DEF Identified
    <2> QED
      BY <2>1, <2>2
  <1>4. Identified(d)
    BY <1>3 DEF Identified
  <1> QED
    BY <1>4 DEF d

LEMMA ChangedLoads ==
  ASSUME NEW b \in Books, NEW p \in Players, NEW k, NEW a, Follows(b, p, a, k), Loads(b, k)
  PROVE  Loads([b EXCEPT ![p] = a], k)
  BY DEF Follows, Loads, Books, Live

-----------------------------------------------------------------------------
(* The inductive invariant. *)

\* A request names what its operation needs.
Wellformed(r) ==
  /\ r.op = "register" => r.email \in Emails /\ r.nick \in Nicknames /\ r.password \in Passwords
  /\ r.op # "register" => r.player \in Players
  /\ r.op = "profile" => r.nick \in Nicknames
  /\ r.op = "password" => r.password \in Passwords
  /\ r.op = "email" => r.email \in Emails
  /\ r.op = "status" => r.status \in {"active", "disabled"}

Requested == \A c \in Callers : call[c].stage # "idle" => Wellformed(call[c])

Queued ==
  \A c \in Callers :
    call[c].stage \in {"queued", "running"} => \E i \in 1..Len(queue) : queue[i] = c

\* Only the head of the queue is between reading an account and changing it, and
\* what it read is still there.
Running ==
  \A c \in Callers : call[c].stage = "running" =>
    /\ Head(queue) = c /\ ~degraded /\ call[c].op \in {"password", "email"}
    /\ commit = None => /\ call[c].seen = book[call[c].player]
                        /\ book[call[c].player].status = "active"

CallsInv == Requested /\ Queued /\ Running

\* The commit that runs is one change of the book, asked for by the head of the
\* queue, and its steps on the disk are done one after the other.
CommitIsChange ==
  commit # None =>
    /\ queue # <<>> /\ Head(queue) = commit.caller /\ ~degraded
    /\ \E a : /\ Change(book, commit.player, a, key)
              /\ commit.next = Replaced(commit.player, a)
              /\ a.status = "deleted" => commit.redact
    /\ commit.at # "index" => file = book
    /\ commit.at = "index" => file = commit.next
    /\ commit.at = "rename" => backup = IF commit.redact THEN commit.next ELSE file

\* DeletedIsErased, also while a commit runs.
Erased ==
  \A p \in Players : file[p].status = "deleted" => backup[p].email = None /\ backup[p].password = None

StorageInv == Identified(book) /\ Identified(file) /\ MemoryIsFile /\ Erased /\ CommitIsChange

StoreIInv == StoreTypeOK /\ CallsInv /\ StorageInv

LEMMA ChangeIsSafe ==
  ASSUME StoreTypeOK, Identified(book), Loads(book, key), NEW p \in Players, NEW a,
         Change(book, p, a, key)
  PROVE  /\ Replaced(p, a) \in Books /\ Identified(Replaced(p, a)) /\ Loads(Replaced(p, a), key)
         /\ key \in Keys /\ Follows(book, p, a, key)
  <1>1. key \in Keys /\ book \in Books
    BY DEF StoreTypeOK, Loads
  <1>2. Follows(book, p, a, key)
    BY <1>1, ChangeFollows
  <1> QED
    BY <1>1, <1>2, ChangedBook, ChangedIsIdentified, ChangedLoads DEF Replaced

LEMMA EmptyBookIsSafe == EmptyBook \in Books /\ Identified(EmptyBook)
  BY DEF EmptyBook, Books, Absent, Identified, Live

LEMMA InitialStore == StoreInit => StoreIInv
  <1> SUFFICES ASSUME StoreInit PROVE StoreIInv
    OBVIOUS
  <1> USE DEF StoreInit
  <1>1. StoreTypeOK
    <2>1. made \in 0..MaxCalls
      BY StoreAssumption
    <2>2. call \in [Callers -> Requests \cup {Idle}] /\ queue \in Seq(Callers)
      OBVIOUS
    <2> QED
      BY <2>1, <2>2, EmptyBookIsSafe DEF StoreTypeOK
  <1>2. CallsInv
    BY DEF CallsInv, Requested, Queued, Running, Idle
  <1>3. Loads(book, key)
    BY AccountsAssumption DEF Loads, EmptyBook, Absent, Live
  <1>4. StorageInv
    BY <1>3, EmptyBookIsSafe
       DEF StorageInv, MemoryIsFile, Erased, CommitIsChange, EmptyBook, Absent
  <1> QED
    BY <1>1, <1>2, <1>4 DEF StoreIInv

\* Between two commits the storage does not see what callers do.
LEMMA StorageKept ==
  ASSUME StorageInv, commit = None, UNCHANGED <<book, file, backup, degraded, key, commit>>
  PROVE  StorageInv'
  BY DEF StorageInv, MemoryIsFile, Erased, CommitIsChange, Identified, Live, EmailFree,
         NickFree, Loads

LEMMA TypesKept ==
  ASSUME StoreTypeOK, UNCHANGED <<book, file, backup, degraded, key, commit, made>>,
         queue' \in Seq(Callers), call' \in [Callers -> Requests \cup {Idle}]
  PROVE  StoreTypeOK'
  BY DEF StoreTypeOK

-----------------------------------------------------------------------------
(* Callers. *)

LEMMA QueuedHead ==
  ASSUME StoreTypeOK, Queued, NEW c \in Callers, call[c].stage \in {"queued", "running"}
  PROVE  queue # <<>> /\ Len(queue) \in Nat \ {0} /\ Head(queue) = queue[1]
  BY DEF Queued, StoreTypeOK

LEMMA CalledStep ==
  ASSUME StoreIInv, NEW c \in Callers, NEW r \in Requests, Calls(c, r),
         Wellformed(r), r.stage \in {"hashing", "queued"}
  PROVE  StoreIInv'
  <1> USE DEF Calls
  <1>1. StoreTypeOK'
    <2>1. queue' \in Seq(Callers) /\ call' \in [Callers -> Requests \cup {Idle}]
      BY DEF StoreIInv, StoreTypeOK
    <2>2. made' \in 0..MaxCalls
      BY StoreAssumption DEF StoreIInv, StoreTypeOK
    <2> QED
      BY <2>1, <2>2 DEF StoreIInv, StoreTypeOK
  <1>2. /\ call'[c] = r
        /\ \A d \in Callers \ {c} : call'[d] = call[d]
    BY DEF StoreIInv, StoreTypeOK
  <1>3. Requested'
    BY <1>2 DEF StoreIInv, CallsInv, Requested
  <1>4. Queued'
    <2>1. CASE r.stage = "queued"
      <3>1. /\ Len(queue') = Len(queue) + 1 /\ queue'[Len(queue) + 1] = c
            /\ \A i \in 1..Len(queue) : queue'[i] = queue[i]
            /\ Len(queue) \in Nat
        BY <2>1 DEF StoreIInv, StoreTypeOK
      <3> QED
        BY <1>2, <3>1 DEF StoreIInv, CallsInv, Queued
    <2>2. CASE r.stage # "queued"
      BY <1>2, <2>2 DEF StoreIInv, CallsInv, Queued
    <2> QED
      BY <2>1, <2>2
  <1>5. Running'
    <2>1. ASSUME NEW d \in Callers, call'[d].stage = "running"
          PROVE  d # c /\ queue # <<>> /\ Head(queue') = Head(queue)
      <3>1. d # c /\ call[d].stage = "running"
        BY <1>2, <2>1
      <3>2. queue # <<>> /\ Head(queue) = queue[1] /\ Len(queue) \in Nat \ {0}
        BY <3>1, QueuedHead DEF StoreIInv, CallsInv
      <3>3. queue' = queue \/ queue' = Append(queue, c)
        OBVIOUS
      <3>4. Head(Append(queue, c)) = Head(queue)
        BY <3>2 DEF StoreIInv, StoreTypeOK
      <3> QED
        BY <3>1, <3>2, <3>3, <3>4
    <2> QED
      BY <1>2, <2>1 DEF StoreIInv, CallsInv, Running
  <1>6. StorageInv'
    BY StorageKept DEF StoreIInv
  <1> QED
    BY <1>1, <1>3, <1>4, <1>5, <1>6 DEF StoreIInv, CallsInv

LEMMA HashedStep ==
  ASSUME StoreIInv, NEW c \in Callers, Hashed(c)
  PROVE  StoreIInv'
  <1> USE DEF Hashed
  <1>1. call[c] \in Requests
    BY DEF StoreIInv, StoreTypeOK, Idle
  <1>2. /\ call'[c] = [call[c] EXCEPT !.stage = "queued"]
        /\ \A d \in Callers \ {c} : call'[d] = call[d]
        /\ call' \in [Callers -> Requests \cup {Idle}]
    <2>1. [call[c] EXCEPT !.stage = "queued"] \in Requests
      BY <1>1 DEF Requests
    <2> QED
      BY <2>1 DEF StoreIInv, StoreTypeOK
  <1>3. StoreTypeOK'
    <2>1. queue' \in Seq(Callers)
      BY DEF StoreIInv, StoreTypeOK
    <2> QED
      BY <1>2, <2>1, TypesKept DEF StoreIInv
  <1>4. Requested'
    <2>1. Wellformed(call[c])
      BY DEF StoreIInv, CallsInv, Requested
    <2>2. Wellformed(call'[c])
      BY <1>1, <1>2, <2>1 DEF Wellformed, Requests
    <2> QED
      BY <1>2, <2>2 DEF StoreIInv, CallsInv, Requested
  <1>5. Queued'
    <2>1. /\ Len(queue') = Len(queue) + 1 /\ queue'[Len(queue) + 1] = c
          /\ \A i \in 1..Len(queue) : queue'[i] = queue[i]
          /\ Len(queue) \in Nat
      BY DEF StoreIInv, StoreTypeOK
    <2> QED
      BY <1>2, <2>1 DEF StoreIInv, CallsInv, Queued
  <1>6. Running'
    <2>1. ASSUME NEW d \in Callers, call'[d].stage = "running"
          PROVE  d # c /\ queue # <<>> /\ Head(queue') = Head(queue)
      <3>1. d # c /\ call[d].stage = "running"
        BY <1>1, <1>2, <2>1 DEF Requests
      <3>2. queue # <<>> /\ Head(queue) = queue[1] /\ Len(queue) \in Nat \ {0}
        BY <3>1, QueuedHead DEF StoreIInv, CallsInv
      <3>3. Head(Append(queue, c)) = Head(queue)
        BY <3>2 DEF StoreIInv, StoreTypeOK
      <3> QED
        BY <3>1, <3>2, <3>3
    <2> QED
      BY <1>2, <2>1 DEF StoreIInv, CallsInv, Running
  <1>7. StorageInv'
    BY StorageKept DEF StoreIInv
  <1> QED
    BY <1>3, <1>4, <1>5, <1>6, <1>7 DEF StoreIInv, CallsInv

\* The head of the queue is over, and nobody is running.
LEMMA Dequeued ==
  ASSUME StoreTypeOK, CallsInv, NEW c \in Callers, queue # <<>>, Head(queue) = c,
         call' = [call EXCEPT ![c] = Idle], queue' = Tail(queue)
  PROVE  /\ call' \in [Callers -> Requests \cup {Idle}] /\ queue' \in Seq(Callers)
         /\ CallsInv'
  <1>1. /\ call'[c] = Idle /\ \A d \in Callers \ {c} : call'[d] = call[d]
        /\ call' \in [Callers -> Requests \cup {Idle}]
    BY DEF StoreTypeOK
  <1>2. /\ queue' \in Seq(Callers) /\ Len(queue) \in Nat \ {0}
        /\ Len(queue') = Len(queue) - 1 /\ queue[1] = c
        /\ \A i \in 1..Len(queue') : queue'[i] = queue[i + 1]
    BY DEF StoreTypeOK
  <1>3. Requested'
    BY <1>1 DEF CallsInv, Requested, Idle
  <1>4. Queued'
    <2> SUFFICES ASSUME NEW d \in Callers, call'[d].stage \in {"queued", "running"}
                 PROVE  \E i \in 1..Len(queue') : queue'[i] = d
      BY DEF Queued
    <2>1. d # c /\ call[d].stage \in {"queued", "running"}
      BY <1>1 DEF Idle
    <2>2. PICK i \in 1..Len(queue) : queue[i] = d
      BY <2>1 DEF CallsInv, Queued
    <2>3. i # 1 /\ i - 1 \in 1..Len(queue')
      BY <1>2, <2>1, <2>2
    <2>4. queue'[i - 1] = d
      BY <1>2, <2>2, <2>3
    <2> QED
      BY <2>3, <2>4
  <1>5. Running'
    <2>1. \A d \in Callers : call'[d].stage # "running"
      BY <1>1 DEF CallsInv, Running, Idle
    <2> QED
      BY <2>1 DEF Running
  <1> QED
    BY <1>1, <1>2, <1>3, <1>4, <1>5 DEF CallsInv

LEMMA RefusedStep ==
  ASSUME StoreIInv, NEW c \in Callers, queue # <<>>, Head(queue) = c, commit = None, Refuse(c)
  PROVE  StoreIInv'
  <1>1. /\ call' \in [Callers -> Requests \cup {Idle}] /\ queue' \in Seq(Callers)
        /\ CallsInv'
    BY Dequeued DEF StoreIInv, Refuse
  <1>2. StoreTypeOK'
    BY <1>1, TypesKept DEF StoreIInv, Refuse
  <1>3. StorageInv'
    BY StorageKept DEF StoreIInv, Refuse
  <1> QED
    BY <1>1, <1>2, <1>3 DEF StoreIInv

\* A call that changes an account which its caller may change.
LEMMA CommittedStep ==
  ASSUME StoreIInv, NEW c \in Callers, queue # <<>>, Head(queue) = c, commit = None, ~degraded,
         NEW p \in Players, NEW a, Change(book, p, a, key),
         a.status = "deleted" => call[c].op = "delete",
         Commit(c, p, a)
  PROVE  StoreIInv'
  <1> USE DEF Commit
  <1>1. /\ Loads(book, key) /\ file = book
        /\ Replaced(p, a) \in Books
    <2>1. Loads(book, key) /\ file = book
      BY DEF StoreIInv, StorageInv, MemoryIsFile
    <2> QED
      BY <2>1, ChangeIsSafe DEF StoreIInv, StorageInv
  <1>2. /\ commit' \in Commits /\ commit'.caller = c /\ commit'.at = "backup"
        /\ commit'.player = p /\ commit'.next = Replaced(p, a)
        /\ commit'.redact = (call[c].op = "delete")
    BY <1>1 DEF Commits
  <1>3. commit' # None
    BY <1>2, StoreAssumption
  <1>4. StoreTypeOK'
    BY <1>2 DEF StoreIInv, StoreTypeOK
  <1>5. CallsInv'
    <2>1. Requested' /\ Queued'
      BY DEF StoreIInv, CallsInv, Requested, Queued
    <2>2. Running'
      BY <1>3 DEF StoreIInv, CallsInv, Running
    <2> QED
      BY <2>1, <2>2 DEF CallsInv
  <1>6. CommitIsChange'
    <2>1. /\ Change(book', p, a, key') /\ commit'.next = [book' EXCEPT ![p] = a]
          /\ a.status = "deleted" => commit'.redact
      BY <1>2, Zenon DEF Replaced, Change
    <2> QED
      BY <1>1, <1>2, <2>1 DEF CommitIsChange, Replaced
  <1>7. Identified(book)' /\ Identified(file)' /\ MemoryIsFile' /\ Erased'
    BY <1>3 DEF StoreIInv, StorageInv, MemoryIsFile, Erased, Identified, Live, EmailFree,
                NickFree, Loads
  <1> QED
    BY <1>4, <1>5, <1>6, <1>7 DEF StoreIInv, StorageInv

\* changePassword and changeEmail read the account.
LEMMA ReadStep ==
  ASSUME StoreIInv, NEW c \in Callers, queue # <<>>, Head(queue) = c, commit = None, ~degraded,
         call[c].stage = "queued", call[c].op \in {"password", "email"},
         book[call[c].player].status = "active",
         call' = [call EXCEPT ![c].stage = "running", ![c].seen = book[call[c].player]],
         UNCHANGED <<book, file, backup, degraded, key, queue, commit, made>>
  PROVE  StoreIInv'
  <1>1. call[c] \in Requests /\ Wellformed(call[c]) /\ call[c].player \in Players
    BY DEF StoreIInv, StoreTypeOK, CallsInv, Requested, Wellformed, Idle
  <1> DEFINE r == [call[c] EXCEPT !.stage = "running", !.seen = book[call[c].player]]
  <1>2. r \in Requests
    <2>1. book[call[c].player] \in Account \cup {Absent}
      BY <1>1 DEF StoreIInv, StoreTypeOK, Books
    <2> QED
      BY <1>1, <2>1, Zenon DEF Requests
  <1>3. /\ r.stage = "running" /\ r.seen = book[call[c].player] /\ r.op = call[c].op
        /\ r.player = call[c].player /\ Wellformed(r)
    BY <1>1, Zenon DEF Requests, Wellformed
  <1>4. /\ call'[c] = r /\ \A d \in Callers \ {c} : call'[d] = call[d]
        /\ call' \in [Callers -> Requests \cup {Idle}]
    BY <1>2 DEF StoreIInv, StoreTypeOK
  <1> HIDE DEF r
  <1>5. StoreTypeOK'
    BY <1>4, TypesKept DEF StoreIInv, StoreTypeOK
  <1>6. Requested'
    BY <1>3, <1>4 DEF StoreIInv, CallsInv, Requested
  <1>7. Queued'
    BY <1>4 DEF StoreIInv, CallsInv, Queued
  <1>8. Running'
    BY <1>3, <1>4 DEF StoreIInv, CallsInv, Running
  <1>9. StorageInv'
    BY StorageKept DEF StoreIInv
  <1> QED
    BY <1>5, <1>6, <1>7, <1>8, <1>9 DEF StoreIInv, CallsInv

-----------------------------------------------------------------------------
(* The disk. *)

\* The change that a commit makes.
LEMMA CommittedChange ==
  ASSUME StoreIInv, commit # None
  PROVE  /\ commit \in Commits /\ Loads(book, key)
         /\ \E a : /\ Follows(book, commit.player, a, key)
                   /\ Change(book, commit.player, a, key)
                   /\ commit.next = [book EXCEPT ![commit.player] = a]
                   /\ a.status = "deleted" => commit.redact
         /\ commit.next \in Books /\ Identified(commit.next) /\ Loads(commit.next, key)
  <1>1. commit \in Commits /\ commit.player \in Players
    BY DEF StoreIInv, StoreTypeOK, Commits
  <1>2. Loads(book, key)
    BY DEF StoreIInv, StorageInv, CommitIsChange, MemoryIsFile
  <1>3. PICK a : /\ Change(book, commit.player, a, key)
                 /\ commit.next = Replaced(commit.player, a)
                 /\ a.status = "deleted" => commit.redact
    BY DEF StoreIInv, StorageInv, CommitIsChange
  <1>4. /\ Replaced(commit.player, a) \in Books /\ Identified(Replaced(commit.player, a))
        /\ Loads(Replaced(commit.player, a), key) /\ Follows(book, commit.player, a, key)
    BY <1>1, <1>2, <1>3, ChangeIsSafe DEF StoreIInv, StorageInv
  <1> QED
    BY <1>1, <1>2, <1>3, <1>4 DEF Replaced

\* A book that is written keeps nothing of the accounts that are deleted in it.
LEMMA DeletedHasNothing ==
  ASSUME NEW b, Identified(b), NEW p \in Players, b[p].status = "deleted"
  PROVE  b[p].email = None /\ b[p].password = None
  BY DEF Identified, Live

\* Steps of a commit leave the callers alone.
LEMMA CallsKept ==
  ASSUME CallsInv, UNCHANGED <<book, degraded, call, queue>>, commit' # None
  PROVE  CallsInv'
  BY DEF CallsInv, Requested, Queued, Running

LEMMA BackUpStep ==
  ASSUME StoreIInv, BackUp
  PROVE  StoreIInv'
  <1> USE DEF BackUp
  <1>1. /\ commit' \in Commits /\ commit' # None /\ commit'.at = "rename"
        /\ commit'.caller = commit.caller /\ commit'.player = commit.player
        /\ commit'.next = commit.next /\ commit'.redact = commit.redact
    BY CommittedChange, StoreAssumption DEF Commits
  <1>2. StoreTypeOK'
    BY <1>1, CommittedChange DEF StoreIInv, StoreTypeOK
  <1>3. CallsInv'
    BY <1>1, CallsKept DEF StoreIInv
  <1>4. CommitIsChange'
    BY <1>1 DEF StoreIInv, StorageInv, CommitIsChange, Replaced, Change, Appears, IsRenamed,
                IsRepassworded, IsReaddressed, IsSwitched, IsErased, EmailFree, NickFree, Live
  <1>5. Erased'
    <2> SUFFICES ASSUME NEW p \in Players, file[p].status = "deleted"
                 PROVE  backup'[p].email = None /\ backup'[p].password = None
      BY DEF Erased
    <2>1. CASE ~commit.redact
      BY <2>1, DeletedHasNothing DEF StoreIInv, StorageInv
    <2>2. CASE commit.redact
      <3>1. file = book
        BY DEF StoreIInv, StorageInv, CommitIsChange
      <3>2. PICK a : /\ Change(book, commit.player, a, key)
                     /\ commit.next = [book EXCEPT ![commit.player] = a]
        BY CommittedChange
      <3>3. book[commit.player].status # "deleted"
        BY <3>2 DEF Change, Appears, IsRenamed, IsRepassworded, IsReaddressed, IsSwitched,
                    IsErased, Live, Absent
      <3>4. commit.next[p].status = "deleted"
        BY <3>1, <3>2, <3>3 DEF StoreIInv, StoreTypeOK, Books
      <3> QED
        BY <2>2, <3>4, CommittedChange, DeletedHasNothing
    <2> QED
      BY <2>1, <2>2
  <1>6. Identified(book)' /\ Identified(file)' /\ MemoryIsFile'
    BY <1>1 DEF StoreIInv, StorageInv, MemoryIsFile, Identified, Live, EmailFree, NickFree, Loads
  <1> QED
    BY <1>2, <1>3, <1>4, <1>5, <1>6 DEF StoreIInv, StorageInv

LEMMA RenameStep ==
  ASSUME StoreIInv, Rename
  PROVE  StoreIInv'
  <1> USE DEF Rename
  <1>1. /\ commit' \in Commits /\ commit' # None /\ commit'.at = "index"
        /\ commit'.caller = commit.caller /\ commit'.player = commit.player
        /\ commit'.next = commit.next /\ commit'.redact = commit.redact
    BY CommittedChange, StoreAssumption DEF Commits
  <1>2. StoreTypeOK'
    BY <1>1, CommittedChange DEF StoreIInv, StoreTypeOK
  <1>3. CallsInv'
    BY <1>1, CallsKept DEF StoreIInv
  <1>4. CommitIsChange'
    <2>1. PICK a : /\ Change(book, commit.player, a, key)
                   /\ commit.next = [book EXCEPT ![commit.player] = a]
                   /\ a.status = "deleted" => commit.redact
      BY CommittedChange
    <2>2. /\ Change(book', commit'.player, a, key')
          /\ commit'.next = [book' EXCEPT ![commit'.player] = a]
          /\ a.status = "deleted" => commit'.redact
      BY <1>1, <2>1
    <2>3. queue # <<>> /\ Head(queue) = commit.caller /\ ~degraded
      BY DEF StoreIInv, StorageInv, CommitIsChange
    <2> QED
      BY <1>1, <2>2, <2>3 DEF CommitIsChange, Replaced
  <1>5. Erased'
    <2> SUFFICES ASSUME NEW p \in Players, commit.next[p].status = "deleted"
                 PROVE  backup[p].email = None /\ backup[p].password = None
      BY DEF Erased
    <2>1. backup = IF commit.redact THEN commit.next ELSE file
      BY DEF StoreIInv, StorageInv, CommitIsChange
    <2>2. CASE commit.redact
      BY <2>1, <2>2, CommittedChange, DeletedHasNothing
    <2>3. CASE ~commit.redact
      <3>1. PICK a : /\ commit.next = [book EXCEPT ![commit.player] = a]
                     /\ a.status = "deleted" => commit.redact
        BY CommittedChange
      <3>2. book[p].status = "deleted" /\ file = book
        BY <2>3, <3>1 DEF StoreIInv, StorageInv, StoreTypeOK, Books, CommitIsChange
      <3> QED
        BY <2>1, <2>3, <3>2, DeletedHasNothing DEF StoreIInv, StorageInv
    <2> QED
      BY <2>2, <2>3
  <1>6. Identified(book)' /\ Identified(file)' /\ MemoryIsFile'
    BY <1>1, CommittedChange
       DEF StoreIInv, StorageInv, MemoryIsFile, Identified, Live, EmailFree, NickFree, Loads
  <1> QED
    BY <1>2, <1>3, <1>4, <1>5, <1>6 DEF StoreIInv, StorageInv

LEMMA RebuildIndexesStep ==
  ASSUME StoreIInv, RebuildIndexes
  PROVE  StoreIInv'
  <1> USE DEF RebuildIndexes
  <1>1. /\ commit.caller \in Callers /\ queue # <<>> /\ Head(queue) = commit.caller
        /\ file = commit.next
    BY CommittedChange DEF StoreIInv, StorageInv, CommitIsChange, Commits
  <1>2. /\ call' \in [Callers -> Requests \cup {Idle}] /\ queue' \in Seq(Callers)
        /\ CallsInv'
    BY <1>1, Dequeued DEF StoreIInv
  <1>3. StoreTypeOK'
    BY <1>2, CommittedChange DEF StoreIInv, StoreTypeOK
  <1>4. Identified(book)' /\ Identified(file)' /\ MemoryIsFile'
    BY <1>1, CommittedChange
       DEF StoreIInv, StorageInv, MemoryIsFile, Identified, Live, EmailFree, NickFree, Loads
  <1>5. Erased' /\ CommitIsChange'
    BY DEF StoreIInv, StorageInv, Erased, CommitIsChange
  <1> QED
    BY <1>2, <1>3, <1>4, <1>5 DEF StoreIInv, StorageInv

LEMMA WriteFailsStep ==
  ASSUME StoreIInv, WriteFails
  PROVE  StoreIInv'
  <1> USE DEF WriteFails
  <1>1. /\ commit.caller \in Callers /\ queue # <<>> /\ Head(queue) = commit.caller
        /\ file = book
    BY CommittedChange DEF StoreIInv, StorageInv, CommitIsChange, Commits
  <1>2. /\ call' \in [Callers -> Requests \cup {Idle}] /\ queue' \in Seq(Callers)
        /\ CallsInv'
    BY <1>1, Dequeued DEF StoreIInv
  <1>3. StoreTypeOK'
    BY <1>2 DEF StoreIInv, StoreTypeOK
  <1>4. Identified(book)' /\ Identified(file)' /\ MemoryIsFile'
    BY <1>1 DEF StoreIInv, StorageInv, MemoryIsFile, Identified, Live, EmailFree, NickFree
  <1>5. Erased' /\ CommitIsChange'
    BY DEF StoreIInv, StorageInv, Erased, CommitIsChange
  <1> QED
    BY <1>2, <1>3, <1>4, <1>5 DEF StoreIInv, StorageInv

LEMMA RestartStep ==
  ASSUME StoreIInv, NEW k \in Keys \cup {None}, Restart(k)
  PROVE  StoreIInv'
  <1> USE DEF Restart
  <1>1. StoreTypeOK'
    <2>1. book' \in Books
      BY EmptyBookIsSafe DEF StoreIInv, StoreTypeOK
    <2>2. call' \in [Callers -> Requests \cup {Idle}] /\ queue' \in Seq(Callers)
      OBVIOUS
    <2> QED
      BY <2>1, <2>2 DEF StoreIInv, StoreTypeOK
  <1>2. CallsInv'
    BY DEF CallsInv, Requested, Queued, Running, Idle
  <1>3. Identified(file)' /\ Erased' /\ CommitIsChange'
    BY DEF StoreIInv, StorageInv, Identified, Erased, CommitIsChange, Live, EmailFree, NickFree
  <1>4. Identified(book)'
    <2>1. Identified(book')
      BY EmptyBookIsSafe DEF StoreIInv, StorageInv
    <2> QED
      BY <2>1 DEF Identified
  <1>5. MemoryIsFile'
    <2>1. CASE Loads(file, k)
      BY <2>1 DEF MemoryIsFile, Loads
    <2>2. CASE ~Loads(file, k)
      BY <2>2 DEF MemoryIsFile
    <2> QED
      BY <2>1, <2>2
  <1> QED
    BY <1>1, <1>2, <1>3, <1>4, <1>5 DEF StoreIInv, StorageInv

-----------------------------------------------------------------------------
(* Every step. *)

LEMMA RequestStep ==
  ASSUME StoreIInv, NEW c \in Callers,
         NEW op \in {"register", "profile", "password", "email", "status", "delete"},
         NEW p \in Players \cup {None}, NEW e \in Emails \cup {None},
         NEW n \in Nicknames \cup {None}, NEW w \in Passwords \cup {None},
         NEW old \in Passwords \cup {None}, NEW s \in {"active", "disabled", None},
         Calls(c, Request(op, p, e, n, w, old, s)),
         Wellformed(Request(op, p, e, n, w, old, s))
  PROVE  StoreIInv'
  <1>1. /\ Request(op, p, e, n, w, old, s) \in Requests
        /\ Request(op, p, e, n, w, old, s).stage \in {"hashing", "queued"}
    BY DEF Request, Requests
  <1> QED
    BY <1>1, CalledStep

LEMMA CalledChange ==
  ASSUME StoreIInv, NEW c \in Callers, CallRegister(c) \/ \E p \in Players : CallChange(c, p)
  PROVE  StoreIInv'
  <1>1. CASE CallRegister(c)
    <2>1. PICK e \in Emails, n \in Nicknames, w \in Passwords :
            Calls(c, Request("register", None, e, n, w, None, None))
      BY <1>1 DEF CallRegister
    <2>2. Wellformed(Request("register", None, e, n, w, None, None))
      BY DEF Request, Wellformed
    <2> QED
      BY <2>1, <2>2, RequestStep
  <1>2. CASE \E p \in Players : CallChange(c, p)
    <2>1. PICK p \in Players : CallChange(c, p)
      BY <1>2
    <2>2. CASE \E n \in Nicknames : Calls(c, Request("profile", p, None, n, None, None, None))
      <3>1. PICK n \in Nicknames : Calls(c, Request("profile", p, None, n, None, None, None))
        BY <2>2
      <3>2. Wellformed(Request("profile", p, None, n, None, None, None))
        BY DEF Request, Wellformed
      <3> QED
        BY <3>1, <3>2, RequestStep
    <2>3. CASE \E old, w \in Passwords :
                 Calls(c, Request("password", p, None, None, w, old, None))
      <3>1. PICK old \in Passwords, w \in Passwords :
              Calls(c, Request("password", p, None, None, w, old, None))
        BY <2>3
      <3>2. Wellformed(Request("password", p, None, None, w, old, None))
        BY DEF Request, Wellformed
      <3> QED
        BY <3>1, <3>2, RequestStep
    <2>4. CASE \E old \in Passwords, e \in Emails :
                 Calls(c, Request("email", p, e, None, None, old, None))
      <3>1. PICK old \in Passwords, e \in Emails :
              Calls(c, Request("email", p, e, None, None, old, None))
        BY <2>4
      <3>2. Wellformed(Request("email", p, e, None, None, old, None))
        BY DEF Request, Wellformed
      <3> QED
        BY <3>1, <3>2, RequestStep
    <2>5. CASE \E s \in {"active", "disabled"} :
                 Calls(c, Request("status", p, None, None, None, None, s))
      <3>1. PICK s \in {"active", "disabled"} :
              Calls(c, Request("status", p, None, None, None, None, s))
        BY <2>5
      <3>2. Wellformed(Request("status", p, None, None, None, None, s))
        BY DEF Request, Wellformed
      <3> QED
        BY <3>1, <3>2, RequestStep
    <2>6. CASE Calls(c, Request("delete", p, None, None, None, None, None))
      <3>1. Wellformed(Request("delete", p, None, None, None, None, None))
        BY DEF Request, Wellformed
      <3> QED
        BY <2>6, <3>1, RequestStep
    <2> QED
      BY <2>1, <2>2, <2>3, <2>4, <2>5, <2>6 DEF CallChange
  <1> QED
    BY <1>1, <1>2

LEMMA RunStep ==
  ASSUME StoreIInv, NEW c \in Callers,
         \/ RunRegister(c) \/ RunProfile(c) \/ RunStatus(c) \/ RunDelete(c) \/ RunChecked(c)
         \/ EndPassword(c) \/ EndEmail(c)
  PROVE  StoreIInv'
  <1>1. /\ commit = None /\ call[c].stage \in {"queued", "running"}
        /\ call[c].stage = "queued" => Head(queue) = c
    BY DEF RunRegister, RunProfile, RunStatus, RunDelete, RunChecked, EndPassword, EndEmail, Turn
  <1>2. queue # <<>> /\ Head(queue) = c
    BY <1>1, QueuedHead DEF StoreIInv, CallsInv, Running
  <1>3. Wellformed(call[c])
    BY <1>1 DEF StoreIInv, CallsInv, Requested
  <1>4. Refuse(c) => StoreIInv'
    BY <1>1, <1>2, RefusedStep
  <1>5. ~degraded => key \in Keys
    BY <1>1 DEF StoreIInv, StorageInv, MemoryIsFile, Loads, StoreTypeOK
  <1>6. CASE RunRegister(c) /\ ~Refuse(c)
    <2> DEFINE a == Registered(call[c].email, call[c].nick, call[c].password, key)
    <2>1. PICK p \in Players :
            /\ ~degraded /\ call[c].op = "register" /\ book[p] = Absent
            /\ EmailFree(book, p, call[c].email) /\ NickFree(book, p, call[c].nick)
            /\ Commit(c, p, a)
      BY <1>6 DEF RunRegister
    <2>2. Change(book, p, a, key) /\ a.status # "deleted"
      BY <1>3, <2>1 DEF Wellformed, Change, Appears, Registered
    <2> QED
      BY <1>1, <1>2, <2>1, <2>2, CommittedStep
  <1>7. CASE RunProfile(c) /\ ~Refuse(c)
    <2> DEFINE p == call[c].player
               a == [book[p] EXCEPT !.nick = call[c].nick]
    <2>1. /\ p \in Players /\ call[c].nick \in Nicknames /\ ~degraded
          /\ book[p].status = "active" /\ NickFree(book, p, call[c].nick) /\ Commit(c, p, a)
      BY <1>3, <1>7 DEF RunProfile, Wellformed
    <2>2. Change(book, p, a, key)
      BY <2>1 DEF Change, IsRenamed
    <2>3. a.status # "deleted"
      BY <2>1 DEF StoreIInv, StoreTypeOK, Books, Account, Absent
    <2> QED
      BY <1>1, <1>2, <2>1, <2>2, <2>3, CommittedStep
  <1>8. CASE RunStatus(c) /\ ~Refuse(c)
    <2> DEFINE p == call[c].player
               a == WithStatus(book[p], call[c].status)
    <2>1. /\ p \in Players /\ call[c].status \in {"active", "disabled"} /\ ~degraded
          /\ Live(book, p) /\ book[p].status # call[c].status /\ Commit(c, p, a)
      BY <1>3, <1>8 DEF RunStatus, Wellformed
    <2>2. Change(book, p, a, key)
      BY <2>1 DEF Change, IsSwitched
    <2>3. a.status # "deleted"
      BY <2>1, LiveAccount, SwitchedAccount DEF StoreIInv, StoreTypeOK, StorageInv
    <2> QED
      BY <1>1, <1>2, <2>1, <2>2, <2>3, CommittedStep
  <1>9. CASE RunDelete(c) /\ ~Refuse(c)
    <2> DEFINE p == call[c].player
               a == Tombstone(book[p])
    <2>1. /\ p \in Players /\ call[c].op = "delete" /\ ~degraded
          /\ Live(book, p) /\ Commit(c, p, a)
      BY <1>3, <1>9 DEF RunDelete, Wellformed
    <2>2. Change(book, p, a, key)
      BY <2>1 DEF Change, IsErased
    <2> QED
      BY <1>1, <1>2, <2>1, <2>2, CommittedStep
  <1>10. CASE RunChecked(c) /\ ~Refuse(c)
    BY <1>1, <1>2, <1>10, ReadStep DEF RunChecked, Turn
  <1>11. CASE EndPassword(c) /\ ~Refuse(c)
    <2> DEFINE p == call[c].player
               a == Repassworded(book[p], call[c].password)
    <2>1. /\ p \in Players /\ call[c].password \in Passwords /\ ~degraded
          /\ call[c].seen = book[p] /\ book[p].status = "active"
      BY <1>1, <1>3, <1>11 DEF EndPassword, Wellformed, StoreIInv, CallsInv, Running
    <2>2. Commit(c, p, a)
      BY <2>1, <1>11 DEF EndPassword
    <2>3. Change(book, p, a, key)
      BY <2>1 DEF Change, IsRepassworded
    <2>4. a.status # "deleted"
      BY <2>1, LiveAccount, RepasswordedAccount DEF StoreIInv, StoreTypeOK, StorageInv, Live
    <2> QED
      BY <1>1, <1>2, <2>1, <2>2, <2>3, <2>4, CommittedStep
  <1>12. CASE EndEmail(c) /\ ~Refuse(c)
    <2> DEFINE p == call[c].player
               a == Readdressed(book[p], call[c].email, key)
    <2>1. /\ p \in Players /\ call[c].email \in Emails /\ ~degraded
          /\ call[c].seen = book[p] /\ book[p].status = "active"
      BY <1>1, <1>3, <1>12 DEF EndEmail, Wellformed, StoreIInv, CallsInv, Running
    <2>2. Commit(c, p, a) /\ EmailFree(book, p, call[c].email)
      BY <2>1, <1>12 DEF EndEmail
    <2>3. Change(book, p, a, key)
      BY <2>1, <2>2 DEF Change, IsReaddressed
    <2>4. a.status # "deleted"
      BY <1>5, <2>1, LiveAccount, ReaddressedAccount DEF StoreIInv, StoreTypeOK, StorageInv, Live
    <2> QED
      BY <1>1, <1>2, <2>1, <2>2, <2>3, <2>4, CommittedStep
  <1> QED
    BY <1>4, <1>6, <1>7, <1>8, <1>9, <1>10, <1>11, <1>12

LEMMA StoreStep ==
  ASSUME StoreIInv, [StoreNext]_vars
  PROVE  StoreIInv'
  <1>1. CASE UNCHANGED vars
    <2>1. CallsInv' /\ Identified(book)' /\ Identified(file)' /\ MemoryIsFile' /\ Erased'
      BY <1>1 DEF vars, StoreIInv, CallsInv, Requested, Queued, Running, StorageInv, Identified,
                  Live, EmailFree, NickFree, MemoryIsFile, Loads, Erased
    <2>2. CommitIsChange'
      <3>1. commit' = commit /\ book' = book /\ file' = file /\ backup' = backup
            /\ key' = key /\ queue' = queue /\ degraded' = degraded
        BY <1>1 DEF vars
      <3>2. \A a : Change(book', commit'.player, a, key') <=> Change(book, commit.player, a, key)
        BY <3>1
      <3> QED
        BY <3>1, <3>2 DEF StoreIInv, StorageInv, CommitIsChange, Replaced
    <2>3. StoreTypeOK'
      BY <1>1 DEF vars, StoreIInv, StoreTypeOK
    <2> QED
      BY <2>1, <2>2, <2>3 DEF StoreIInv, StorageInv
  <1>2. CASE \E c \in Callers : CallerStep(c)
    <2>1. PICK c \in Callers : CallerStep(c)
      BY <1>2
    <2> QED
      BY <2>1, CalledChange, HashedStep, RunStep DEF CallerStep
  <1>3. CASE BackUp \/ Rename \/ RebuildIndexes \/ WriteFails
    BY <1>3, BackUpStep, RenameStep, RebuildIndexesStep, WriteFailsStep
  <1>4. CASE \E k \in Keys \cup {None} : Restart(k)
    BY <1>4, RestartStep
  <1> QED
    BY <1>1, <1>2, <1>3, <1>4 DEF StoreNext

\* The invariant of the account store: types, unique addresses and nicknames,
\* memory that agrees with the file between commits, one commit at a time that
\* is one change of what its caller read.
THEOREM StoreInvariant == StoreSpec => []StoreIInv
  <1>1. StoreInit => StoreIInv
    BY InitialStore
  <1>2. StoreIInv /\ [StoreNext]_vars => StoreIInv'
    BY StoreStep
  <1> QED
    BY <1>1, <1>2, PTL DEF StoreSpec

\* Memory and file agree between two commits, and no two accounts that are not
\* deleted share an address or a nickname, whatever fails (persist, commit).
THEOREM StoreSafe == StoreSpec => []StoreInv
  <1>1. StoreIInv => StoreInv
    BY DEF StoreIInv, StorageInv, StoreInv, Identifiers
  <1> QED
    BY <1>1, StoreInvariant, PTL

\* What softDelete erased is in neither file nor backup.
THEOREM ErasureHolds == StoreSpec => []DeletedIsErased
  <1>1. StoreIInv => DeletedIsErased
    BY DEF StoreIInv, StorageInv, Erased, DeletedIsErased
  <1> QED
    BY <1>1, StoreInvariant, PTL

-----------------------------------------------------------------------------
(* Refinement. *)

LEMMA ChangeIsPromised ==
  ASSUME NEW p \in Players, NEW a, NEW k \in Keys, Change(file, p, a, k),
         file' = [file EXCEPT ![p] = a]
  PROVE  Promised!Next
  <1> USE DEF Promised!Next, EmailFree, NickFree, Live, Promised!EmailFree, Promised!NickFree,
              Promised!Live
  <1>1. CASE Appears(file, p, a, k)
    BY <1>1 DEF Appears, Promised!Register, Promised!Registered, Registered,
                Promised!Absent, Absent
  <1>2. CASE IsRenamed(file, p, a)
    BY <1>2 DEF IsRenamed, Promised!UpdateProfile
  <1>3. CASE IsRepassworded(file, p, a)
    BY <1>3 DEF IsRepassworded, Promised!ChangePassword, Promised!Repassworded, Repassworded
  <1>4. CASE IsReaddressed(file, p, a, k)
    BY <1>4 DEF IsReaddressed, Promised!ChangeEmail, Promised!Readdressed, Readdressed
  <1>5. CASE IsSwitched(file, p, a)
    BY <1>5 DEF IsSwitched, Promised!SetStatus, Promised!WithStatus, WithStatus
  <1>6. CASE IsErased(file, p, a)
    BY <1>6 DEF IsErased, Promised!SoftDelete, Promised!Tombstone, Tombstone
  <1> QED
    BY <1>1, <1>2, <1>3, <1>4, <1>5, <1>6 DEF Change

LEMMA StoreStepIsPromised ==
  ASSUME StoreIInv, [StoreNext]_vars
  PROVE  [Promised!Next]_file
  <1>1. CASE Rename
    <2>1. file' = commit.next /\ file = book /\ commit.player \in Players
      BY <1>1, CommittedChange DEF Rename, StoreIInv, StorageInv, CommitIsChange, Commits
    <2>2. PICK a : /\ Change(book, commit.player, a, key)
                   /\ commit.next = [book EXCEPT ![commit.player] = a]
      BY <1>1, CommittedChange DEF Rename
    <2>3. key \in Keys
      BY <1>1, CommittedChange DEF Rename, Loads, StoreIInv, StoreTypeOK
    <2> QED
      BY <2>1, <2>2, <2>3, ChangeIsPromised
  <1>2. CASE ~Rename
    <2>1. ASSUME NEW c \in Callers, CallerStep(c)
          PROVE  file' = file
      <3>1. CASE CallRegister(c) \/ (\E p \in Players : CallChange(c, p)) \/ Hashed(c)
        BY <3>1 DEF CallRegister, CallChange, Calls, Hashed
      <3>2. CASE RunRegister(c) \/ RunProfile(c) \/ RunStatus(c) \/ RunDelete(c)
        BY <3>2 DEF RunRegister, RunProfile, RunStatus, RunDelete, Refuse, Commit
      <3>3. CASE RunChecked(c) \/ EndPassword(c) \/ EndEmail(c)
        BY <3>3 DEF RunChecked, EndPassword, EndEmail, Refuse, Commit
      <3> QED
        BY <2>1, <3>1, <3>2, <3>3 DEF CallerStep
    <2>2. CASE BackUp \/ RebuildIndexes \/ WriteFails \/ \E k \in Keys \cup {None} : Restart(k)
      BY <2>2 DEF BackUp, RebuildIndexes, WriteFails, Restart
    <2>3. CASE UNCHANGED vars
      BY <2>3 DEF vars
    <2> QED
      BY <1>2, <2>1, <2>2, <2>3 DEF StoreNext
  <1> QED
    BY <1>1, <1>2

\* The store implements the atomic book of accounts on its file: queued,
\* hashing, failing and interrupted calls change one account at a time, as a
\* whole or not at all (mutationQueue, persist, load).
THEOREM StoreIsAccounts == StoreSpec => ImplementsAccounts
  <1>1. StoreInit => Promised!Init
    BY DEF StoreInit, Promised!Init, EmptyBook, Promised!EmptyBook, Absent, Promised!Absent
  <1>2. StoreIInv /\ [StoreNext]_vars => [Promised!Next]_file
    BY StoreStepIsPromised
  <1> QED
    BY <1>1, <1>2, StoreInvariant, PTL DEF StoreSpec, ImplementsAccounts, Promised!Spec

-----------------------------------------------------------------------------
(* Progress: the inductive invariant. *)

\* ProgressTypeOK, with what it leaves out.
ProgressTyped ==
  /\ ProgressTypeOK
  /\ phase \in {"playing", "over"} => level \in Levels

\* A save holds the progress of the room but for what it changes.
Whole(s) ==
  /\ progress.cleared \subseteq s.content.cleared
  /\ s.change # "cleared" => s.content.cleared = progress.cleared
  /\ \A f \in Fields \ {s.change} : s.content.settings[f] = progress.settings[f]

\* No other save ran beside this one.
Alone(s) == s.id \notin overlapped

\* A save alone is the last one that was started.  It writes to an inode of
\* its own, which becomes the progress file when it is complete.
Placed(s) ==
  /\ s.id = count /\ s.name = count /\ path[count] \in {0, count}
  /\ s.stage = "opening" => path[count] = 0 /\ target # count
  /\ s.stage \in {"writing", "renaming"} => s.inode = count /\ path[count] = count /\ target # count
  /\ s.stage = "writing" => data[count] = Empty
  /\ s.stage = "renaming" => data[count] = s.content
  /\ s.stage = "renamed" => \/ target = count /\ data[count] = s.content
                            \/ phase = "stopping" /\ Load = progress

\* A save beside others writes to inodes of such saves only.
Shared(s) ==
  /\ path[s.name] \in overlapped \cup {0}
  /\ s.stage = "writing" => s.inode \in overlapped
  /\ s.stage = "renamed" => target \in overlapped \/ phase = "stopping"

\* Files and saves; a file that an earlier process left torn reads as Fallback.
SavesInv ==
  /\ \A s, t \in saves : Alone(s) => s = t
  /\ \A n \in 1..MaxSaves : n > count => path[n] = 0
  /\ \A s \in saves : IF Alone(s) THEN Placed(s) /\ Whole(s) ELSE Shared(s)
  /\ target \notin overlapped /\ (\A s \in saves : Alone(s) => s.stage # "renamed")
       => Load = progress

ProgressInv == ProgressTyped /\ SavesInv

-----------------------------------------------------------------------------
(* Progress: saves and what they hold. *)

Stages == {"opening", "writing", "renaming", "renamed"}

Save(n) ==
  [id : 1..n, change : Fields \cup {"cleared"}, content : Content, name : 1..n,
   stage : Stages, inode : 0..n]

LEMMA Bounds == LastLevel \in Nat /\ MaxSaves \in Nat
  BY BoundAssumption

LEMMA SaveFields ==
  ASSUME NEW n \in Nat, NEW x \in Save(n)
  PROVE  /\ x.id \in 1..n /\ x.name \in 1..n /\ x.inode \in 0..n
         /\ x.change \in Fields \cup {"cleared"} /\ x.content \in Content /\ x.stage \in Stages
         /\ n > 0
  BY DEF Save

LEMMA StagedSave ==
  ASSUME NEW n \in Nat, NEW x \in Save(n), NEW g \in Stages, NEW y, y = [x EXCEPT !.stage = g]
  PROVE  /\ y \in Save(n) /\ y.id = x.id /\ y.name = x.name /\ y.inode = x.inode
         /\ y.change = x.change /\ y.content = x.content /\ y.stage = g
  BY Zenon DEF Save

LEMMA OpenedSave ==
  ASSUME NEW n \in Nat, NEW x \in Save(n), NEW i \in 0..n,
         NEW y, y = [x EXCEPT !.stage = "writing", !.inode = i]
  PROVE  /\ y \in Save(n) /\ y.id = x.id /\ y.name = x.name /\ y.inode = i
         /\ y.change = x.change /\ y.content = x.content /\ y.stage = "writing"
  BY Zenon DEF Save, Stages

LEMMA BegunSave ==
  ASSUME NEW n \in Nat, NEW ch \in Fields \cup {"cleared"}, NEW co \in Content, NEW nm \in 1..n, n > 0,
         NEW y, y = [id |-> n, change |-> ch, content |-> co, name |-> nm, stage |-> "opening", inode |-> 0]
  PROVE  /\ y \in Save(n) /\ y.id = n /\ y.name = nm /\ y.inode = 0
         /\ y.change = ch /\ y.content = co /\ y.stage = "opening"
  BY DEF Save, Stages

LEMMA MoreSaves ==
  ASSUME NEW n \in Nat
  PROVE  Save(n) \subseteq Save(n + 1) /\ 0..n \subseteq 0..(n + 1) /\ 1..n \subseteq 1..(n + 1)
  BY DEF Save

LEMMA ContentFields ==
  ASSUME NEW x \in Content
  PROVE  x.cleared \subseteq Levels /\ x.settings \in [Fields -> Options]
  BY DEF Content

\* The contents that are saved differ from the progress as they ought to.
LEMMA SettingsContent ==
  ASSUME progress \in Content, NEW f \in Fields, NEW v \in Options,
         NEW x, x = [progress EXCEPT !.settings[f] = v]
  PROVE  /\ x \in Content /\ x.cleared = progress.cleared
         /\ \A g \in Fields \ {f} : x.settings[g] = progress.settings[g]
  <1>1. /\ x = [progress EXCEPT !.settings = [progress.settings EXCEPT ![f] = v]]
        /\ [progress.settings EXCEPT ![f] = v] \in [Fields -> Options]
    BY ContentFields DEF Content
  <1>2. x \in Content /\ x.cleared = progress.cleared /\ x.settings = [progress.settings EXCEPT ![f] = v]
    BY Zenon, <1>1, ContentFields DEF Content
  <1> QED
    BY <1>2, ContentFields

LEMMA ClearedContent ==
  ASSUME progress \in Content, NEW l \in Levels,
         NEW x, x = [progress EXCEPT !.cleared = @ \cup {l}]
  PROVE  x \in Content /\ progress.cleared \subseteq x.cleared /\ x.settings = progress.settings
  <1>1. progress.cleared \cup {l} \in SUBSET Levels
    BY ContentFields
  <1>2. x \in Content /\ x.cleared = progress.cleared \cup {l} /\ x.settings = progress.settings
    BY Zenon, <1>1 DEF Content
  <1> QED
    BY <1>2

LEMMA FallbackContent == Fallback \in Content
  BY DefaultAssumption DEF Fallback, Content

-----------------------------------------------------------------------------
(* Progress: the types, whatever overlaps. *)

LEMMA TypedParts ==
  ASSUME ProgressTyped
  PROVE  /\ phase \in {"waiting", "levelSelect", "playing", "over", "stopping"}
         /\ level \in 0..LastLevel /\ passed \in BOOLEAN /\ progress \in Content
         /\ count \in Nat /\ count <= MaxSaves /\ count \in 0..MaxSaves
         /\ saves \subseteq Save(count) /\ overlapped \subseteq 1..count
         /\ path \in [1..MaxSaves -> 0..count] /\ target \in 0..count
         /\ data \in [0..MaxSaves -> Content \cup {Torn, Empty}]
         /\ phase \in {"playing", "over"} => level \in Levels
  <1>1. count \in Nat /\ count <= MaxSaves
    BY Bounds DEF ProgressTyped, ProgressTypeOK
  <1> QED
    BY <1>1, Zenon DEF ProgressTyped, ProgressTypeOK, Save, Stages

LEMMA TypedNext ==
  ASSUME phase' \in {"waiting", "levelSelect", "playing", "over", "stopping"},
         level' \in 0..LastLevel, passed' \in BOOLEAN, progress' \in Content,
         count' \in 0..MaxSaves, saves' \subseteq Save(count'), overlapped' \subseteq 1..count',
         path' \in [1..MaxSaves -> 0..count'], target' \in 0..count',
         data' \in [0..MaxSaves -> Content \cup {Torn, Empty}],
         phase' \in {"playing", "over"} => level' \in Levels
  PROVE  ProgressTyped'
  BY Zenon DEF ProgressTyped, ProgressTypeOK, Save, Stages

LEMMA LevelBounds ==
  /\ 0 \in 0..LastLevel /\ Levels \subseteq 0..LastLevel
  /\ \A l \in 0..LastLevel : l < LastLevel => l + 1 \in Levels
  BY Bounds DEF Levels

\* What a save that begins adds.
LEMMA BeginTyped ==
  ASSUME ProgressTyped, NEW ch \in Fields \cup {"cleared"}, NEW co \in Content, BeginSave(ch, co)
  PROVE  /\ count' \in 0..MaxSaves /\ count' = count + 1 /\ progress' = progress
         /\ saves' \subseteq Save(count') /\ overlapped' \subseteq 1..count'
         /\ path \in [1..MaxSaves -> 0..count'] /\ target \in 0..count'
  <1>1. /\ count < MaxSaves /\ count' = count + 1 /\ progress' = progress
    BY DEF BeginSave
  <1>2. count + 1 \in Nat /\ count + 1 > 0 /\ count + 1 \in 0..MaxSaves /\ count + 1 \in 1..(count + 1)
    BY <1>1, TypedParts, Bounds
  <1>3. PICK name \in {count + 1} \cup {s.name : s \in {t \in saves : t.id = count}} :
          saves' = saves \cup {[id |-> count + 1, change |-> ch, content |-> co,
                                name |-> name, stage |-> "opening", inode |-> 0]}
    BY DEF BeginSave
  <1>4. name \in 1..(count + 1)
    <2>1. \A s \in saves : s.name \in 1..(count + 1)
      BY TypedParts, SaveFields, MoreSaves
    <2> QED
      BY <1>2, <1>3, <2>1
  <1>5. saves \subseteq Save(count + 1)
    BY TypedParts, MoreSaves
  <1>6. [id |-> count + 1, change |-> ch, content |-> co, name |-> name, stage |-> "opening",
         inode |-> 0] \in Save(count + 1)
    BY <1>2, <1>4, BegunSave
  <1>7. path \in [1..MaxSaves -> 0..(count + 1)] /\ target \in 0..(count + 1)
    BY TypedParts, MoreSaves
  <1>8. overlapped' \subseteq 1..(count + 1)
    <2>1. overlapped \subseteq 1..(count + 1)
      BY TypedParts, MoreSaves
    <2>2. \A s \in saves : s.id \in 1..(count + 1)
      BY TypedParts, SaveFields, MoreSaves
    <2>3. overlapped' \subseteq overlapped \cup {count + 1} \cup {s.id : s \in saves}
      BY DEF BeginSave
    <2> QED
      BY <1>2, <2>1, <2>2, <2>3
  <1> QED
    BY <1>1, <1>2, <1>3, <1>5, <1>6, <1>7, <1>8

\* What the step of a save under way does to it.
LEMMA SaveSteps ==
  ASSUME ProgressTyped, NEW s \in saves,
         Open(s) \/ Write(s) \/ RenameSave(s) \/ Resume(s) \/ SaveFails(s)
  PROVE  ProgressTyped'
  <1>1. s \in Save(count) /\ count \in Nat /\ count \in 0..MaxSaves
    BY TypedParts
  <1>2. /\ s.id \in 0..count /\ s.inode \in 0..count /\ s.name \in 1..MaxSaves
        /\ s.content \in Content
        /\ 0..count \subseteq 0..MaxSaves
    <2>1. /\ s.id \in 1..count /\ s.name \in 1..count /\ s.inode \in 0..count /\ s.content \in Content
      BY <1>1, SaveFields
    <2>2. 1..count \subseteq 0..count /\ 1..count \subseteq 1..MaxSaves /\ 0..count \subseteq 0..MaxSaves
      BY <1>1, Bounds
    <2> QED
      BY <2>1, <2>2
  <1>3. /\ phase' = phase /\ level' = level /\ passed' = passed /\ count' = count
        /\ overlapped' = overlapped
    BY DEF Open, Write, RenameSave, Resume, SaveFails, gameVars
  <1>4. CASE Open(s)
    <2>1. PICK i : i = IF path[s.name] = 0 THEN s.id ELSE path[s.name]
      OBVIOUS
    <2>2. i \in 0..count
      BY <1>2, <2>1, TypedParts
    <2>3. PICK y : y = [s EXCEPT !.stage = "writing", !.inode = i]
      OBVIOUS
    <2>4. /\ saves' = (saves \ {s}) \cup {y} /\ data' = [data EXCEPT ![i] = Empty]
          /\ path' = [path EXCEPT ![s.name] = i] /\ progress' = progress /\ target' = target
      BY <1>4, <2>1, <2>3 DEF Open
    <2>5. y \in Save(count)
      BY <1>1, <2>2, <2>3, OpenedSave
    <2>6. /\ saves' \subseteq Save(count) /\ path' \in [1..MaxSaves -> 0..count]
          /\ data' \in [0..MaxSaves -> Content \cup {Torn, Empty}]
      BY <1>2, <2>2, <2>4, <2>5, TypedParts
    <2> QED
      BY <1>3, <2>4, <2>6, TypedParts, TypedNext
  <1>5. CASE Write(s)
    <2>1. PICK y : y = [s EXCEPT !.stage = "renaming"]
      OBVIOUS
    <2>2. PICK d : d \in {s.content, Torn} /\ data' = [data EXCEPT ![s.inode] = d]
      BY <1>5 DEF Write
    <2>3. saves' = (saves \ {s}) \cup {y} /\ progress' = progress /\ target' = target /\ path' = path
      BY <1>5, <2>1 DEF Write
    <2>4. y \in Save(count)
      BY <1>1, <2>1, StagedSave DEF Stages
    <2>5. saves' \subseteq Save(count) /\ data' \in [0..MaxSaves -> Content \cup {Torn, Empty}]
      BY <1>2, <2>2, <2>3, <2>4, TypedParts
    <2> QED
      BY <1>3, <2>3, <2>5, TypedParts, TypedNext
  <1>6. CASE RenameSave(s)
    <2>1. PICK y : y = [s EXCEPT !.stage = "renamed"]
      OBVIOUS
    <2>2. /\ saves' = (saves \ {s}) \cup {y} /\ progress' = progress /\ data' = data
          /\ target' = path[s.name] /\ path' = [path EXCEPT ![s.name] = 0]
      BY <1>6, <2>1 DEF RenameSave
    <2>3. y \in Save(count)
      BY <1>1, <2>1, StagedSave DEF Stages
    <2>4. /\ saves' \subseteq Save(count) /\ target' \in 0..count
          /\ path' \in [1..MaxSaves -> 0..count]
      <3>1. 0 \in 0..count
        BY <1>1
      <3> QED
        BY <1>2, <2>2, <2>3, <3>1, TypedParts
    <2> QED
      BY <1>3, <2>2, <2>4, TypedParts, TypedNext
  <1>7. CASE Resume(s) \/ SaveFails(s)
    <2>1. /\ saves' = saves \ {s} /\ progress' \in {progress, s.content}
          /\ path' = path /\ target' = target /\ data' = data
      BY <1>7 DEF Resume, SaveFails, fileVars
    <2>2. saves' \subseteq Save(count) /\ progress' \in Content
      BY <1>2, <2>1, TypedParts
    <2> QED
      BY <1>3, <2>1, <2>2, TypedParts, TypedNext
  <1> QED
    BY <1>4, <1>5, <1>6, <1>7

\* The handlers, a save that one of them begins aside.
GameSteps ==
  \/ GameStart \/ FailLevel \/ Retry \/ NextLevel \/ BackToWaiting
  \/ \E l \in Levels : HostSelectLevel(l) \/ AutoSelect(l)

LEMMA GameStepParts ==
  ASSUME ProgressTyped, GameSteps
  PROVE  /\ phase' \in {"waiting", "levelSelect", "playing", "over"} /\ phase # "stopping"
         /\ level' \in 0..LastLevel /\ passed' \in BOOLEAN
         /\ phase' \in {"playing", "over"} => level' \in Levels
         /\ progress' = progress /\ saves' = saves /\ count' = count /\ overlapped' = overlapped
         /\ path' = path /\ target' = target /\ data' = data
  <1>1. CASE GameStart \/ FailLevel \/ BackToWaiting
    BY <1>1, TypedParts, LevelBounds DEF GameStart, FailLevel, BackToWaiting, saveVars, fileVars
  <1>2. CASE Retry
    BY <1>2, TypedParts, LevelBounds DEF Retry, Play, saveVars, fileVars
  <1>3. CASE NextLevel
    BY <1>3, TypedParts, LevelBounds DEF NextLevel, Play, saveVars, fileVars
  <1>4. CASE \E l \in Levels : HostSelectLevel(l) \/ AutoSelect(l)
    BY <1>4, TypedParts, LevelBounds DEF HostSelectLevel, AutoSelect, Play, saveVars, fileVars
  <1> QED
    BY <1>1, <1>2, <1>3, <1>4 DEF GameSteps

LEMMA LoadContent == Load \in Content
  BY FallbackContent DEF Load

\* A setting is saved, or a level that is cleared.
Begins(ch, co) ==
  /\ ch \in Fields \cup {"cleared"} /\ co \in Content /\ BeginSave(ch, co)
  /\ progress.cleared \subseteq co.cleared
  /\ ch # "cleared" => co.cleared = progress.cleared
  /\ \A f \in Fields \ {ch} : co.settings[f] = progress.settings[f]

LEMMA WhatIsSaved ==
  ASSUME ProgressTyped, ClearLevel \/ \E f \in Fields, v \in Options : SettingsUpdate(f, v)
  PROVE  /\ \E ch, co : Begins(ch, co)
         /\ level' = level /\ path' = path /\ target' = target /\ data' = data /\ passed' \in BOOLEAN
         /\ phase \in {"waiting", "playing"}
         /\ phase' \in {phase, "over"} /\ (phase' \in {"playing", "over"} => level' \in Levels)
  <1>1. CASE ClearLevel
    <2>1. PICK co : co = [progress EXCEPT !.cleared = @ \cup {level}]
      OBVIOUS
    <2>2. level \in Levels
      BY <1>1, TypedParts DEF ClearLevel
    <2>3. co \in Content /\ progress.cleared \subseteq co.cleared /\ co.settings = progress.settings
      BY <2>1, <2>2, TypedParts, ClearedContent
    <2>4. Begins("cleared", co)
      BY <1>1, <2>1, <2>3 DEF ClearLevel, Begins
    <2> QED
      BY <1>1, <2>2, <2>4 DEF ClearLevel, fileVars
  <1>2. ASSUME NEW f \in Fields, NEW v \in Options, SettingsUpdate(f, v)
        PROVE  /\ \E ch, co : Begins(ch, co)
               /\ phase = "waiting" /\ phase' = phase /\ level' = level /\ passed' = passed
               /\ path' = path /\ target' = target /\ data' = data
    <2>1. PICK co : co = [progress EXCEPT !.settings[f] = v]
      OBVIOUS
    <2>2. /\ co \in Content /\ co.cleared = progress.cleared
          /\ \A g \in Fields \ {f} : co.settings[g] = progress.settings[g]
      BY <2>1, TypedParts, SettingsContent
    <2>3. Begins(f, co)
      BY <1>2, <2>1, <2>2 DEF SettingsUpdate, Begins
    <2> QED
      BY <1>2, <2>3 DEF SettingsUpdate, gameVars, fileVars
  <1> QED
    BY <1>1, <1>2, TypedParts

LEMMA BeginStepTyped ==
  ASSUME ProgressTyped, ClearLevel \/ \E f \in Fields, v \in Options : SettingsUpdate(f, v)
  PROVE  ProgressTyped'
  <1>1. PICK ch, co : Begins(ch, co)
    BY WhatIsSaved
  <1>2. /\ count' \in 0..MaxSaves /\ progress' = progress /\ saves' \subseteq Save(count')
        /\ overlapped' \subseteq 1..count'
        /\ path \in [1..MaxSaves -> 0..count'] /\ target \in 0..count'
    BY <1>1, BeginTyped DEF Begins
  <1>3. phase' \in {"waiting", "levelSelect", "playing", "over", "stopping"}
    BY WhatIsSaved
  <1> QED
    BY <1>2, <1>3, WhatIsSaved, TypedParts, TypedNext

LEMMA ShutdownTyped ==
  ASSUME ProgressTyped, Shutdown
  PROVE  ProgressTyped'
  <1>1. /\ phase' = "stopping" /\ level' = 0 /\ passed' = FALSE /\ data' = [data EXCEPT ![0] = progress]
        /\ target' = 0 /\ progress' = progress /\ saves' = saves /\ count' = count /\ path' = path
        /\ overlapped' = overlapped
    BY DEF Shutdown, saveVars
  <1>2. data' \in [0..MaxSaves -> Content \cup {Torn, Empty}] /\ target' \in 0..count
    <2>1. 0 \in 0..MaxSaves /\ 0 \in 0..count
      BY TypedParts, Bounds
    <2> QED
      BY <1>1, <2>1, TypedParts
  <1> QED
    BY <1>1, <1>2, TypedParts, TypedNext, LevelBounds

LEMMA RestartTyped ==
  ASSUME ProgressTyped, ServerRestart
  PROVE  ProgressTyped'
  <1>1. /\ phase' = "waiting" /\ level' = 0 /\ passed' = FALSE /\ progress' = Load /\ saves' = {}
        /\ path' = [n \in 1..MaxSaves |-> 0] /\ count' = count /\ target' = target /\ data' = data
        /\ overlapped' = {}
    BY DEF ServerRestart
  <1>2. path' \in [1..MaxSaves -> 0..count]
    BY <1>1, TypedParts
  <1> QED
    BY <1>1, <1>2, TypedParts, TypedNext, LevelBounds, LoadContent

LEMMA InitTyped ==
  ASSUME ProgressInit
  PROVE  ProgressTyped
  <1>1. /\ phase = "waiting" /\ level = 0 /\ passed = FALSE /\ progress \in Content /\ saves = {}
        /\ count = 0 /\ count \in 0..MaxSaves /\ target \in 0..count /\ overlapped = {}
        /\ path \in [1..MaxSaves -> 0..count]
        /\ data \in [0..MaxSaves -> Content \cup {Torn, Empty}]
    BY Bounds, FallbackContent DEF ProgressInit
  <1> QED
    BY <1>1, LevelBounds, Zenon DEF ProgressTyped, ProgressTypeOK, Save, Stages

LEMMA TypedAfter ==
  ASSUME ProgressTyped, [ProgressNext]_progressVars
  PROVE  ProgressTyped'
  <1>1. CASE GameSteps
    BY <1>1, GameStepParts, TypedParts, TypedNext
  <1>2. CASE ClearLevel \/ \E f \in Fields, v \in Options : SettingsUpdate(f, v)
    BY <1>2, BeginStepTyped
  <1>3. CASE \E s \in saves : Open(s) \/ Write(s) \/ RenameSave(s) \/ Resume(s) \/ SaveFails(s)
    BY <1>3, SaveSteps
  <1>4. CASE Shutdown \/ ServerRestart
    BY <1>4, ShutdownTyped, RestartTyped
  <1>5. CASE UNCHANGED progressVars
    BY <1>5 DEF progressVars, gameVars, saveVars, fileVars, ProgressTyped, ProgressTypeOK
  <1> QED
    BY <1>1, <1>2, <1>3, <1>4, <1>5, Zenon DEF ProgressNext, GameSteps

-----------------------------------------------------------------------------
(* Progress: saves alone and saves beside each other. *)

\* A save that begins while no other one runs is alone.
LEMMA BeginAlone ==
  ASSUME ProgressInv, NEW ch, NEW co, Begins(ch, co), saves = {},
         path' = path, target' = target, data' = data
  PROVE  SavesInv'
  <1>1. ProgressTyped /\ SavesInv
    BY DEF ProgressInv
  <1>2. /\ count' = count + 1 /\ progress' = progress /\ overlapped' = overlapped
    BY DEF Begins, BeginSave
  <1>3. count \in Nat /\ count + 1 \in 1..MaxSaves
    BY <1>1, TypedParts, Bounds DEF Begins, BeginSave
  <1>4. PICK y : y = [id |-> count + 1, change |-> ch, content |-> co, name |-> count + 1,
                      stage |-> "opening", inode |-> 0]
    OBVIOUS
  <1>5. saves' = {y}
    BY <1>4 DEF Begins, BeginSave
  <1>6. /\ y.id = count' /\ y.name = count' /\ y.stage = "opening" /\ y.change = ch /\ y.content = co
    BY <1>2, <1>4
  <1>7. path[count + 1] = 0 /\ target # count + 1
    BY <1>1, <1>3, TypedParts DEF SavesInv
  <1>8. Placed(y)'
    BY <1>2, <1>6, <1>7 DEF Placed
  <1>9. Whole(y)'
    BY <1>2, <1>6 DEF Whole, Begins
  <1>10. Alone(y)'
    BY <1>1, <1>2, <1>3, <1>6, TypedParts DEF Alone
  <1>11. target \notin overlapped => Load' = progress'
    BY <1>1, <1>2 DEF SavesInv, Load
  <1>12. \A n \in 1..MaxSaves : n > count + 1 => path[n] = 0
    BY <1>1, <1>3 DEF SavesInv
  <1> QED
    BY <1>2, <1>5, <1>8, <1>9, <1>10, <1>11, <1>12 DEF SavesInv

\* A save that begins beside others: none of them is alone any more.
LEMMA BeginBeside ==
  ASSUME ProgressInv, NEW ch, NEW co, Begins(ch, co), saves # {}, phase # "stopping",
         path' = path, target' = target, data' = data
  PROVE  SavesInv'
  <1>1. ProgressTyped /\ SavesInv
    BY DEF ProgressInv
  <1>2. /\ count' = count + 1 /\ progress' = progress
        /\ overlapped' = overlapped \cup {count + 1} \cup {s.id : s \in saves}
    BY DEF Begins, BeginSave
  <1>3. count \in Nat /\ count + 1 \in 1..MaxSaves
    BY <1>1, TypedParts, Bounds DEF Begins, BeginSave
  <1>4. PICK name \in {count + 1} \cup {s.name : s \in {t \in saves : t.id = count}} :
          saves' = saves \cup {[id |-> count + 1, change |-> ch, content |-> co,
                                name |-> name, stage |-> "opening", inode |-> 0]}
    BY DEF Begins, BeginSave
  <1>5. PICK y : y = [id |-> count + 1, change |-> ch, content |-> co, name |-> name,
                      stage |-> "opening", inode |-> 0]
    OBVIOUS
  <1>6. saves' = saves \cup {y} /\ y.id = count + 1 /\ y.name = name /\ y.stage = "opening"
    BY <1>4, <1>5
  <1>7. \A s \in saves' : ~Alone(s)'
    BY <1>2, <1>6 DEF Alone
  <1>8. ASSUME NEW s \in saves
        PROVE  /\ path[s.name] \in overlapped' \cup {0}
               /\ s.stage = "writing" => s.inode \in overlapped'
               /\ s.stage = "renamed" => target \in overlapped'
    <2>1. CASE Alone(s)
      <3>1. Placed(s) /\ s.id = count /\ count \in overlapped'
        BY <1>1, <1>2, <2>1 DEF SavesInv, Placed
      <3> QED
        BY <3>1 DEF Placed
    <2>2. CASE ~Alone(s)
      BY <1>1, <1>2, <2>2 DEF SavesInv, Shared
    <2> QED
      BY <2>1, <2>2
  <1>9. path[name] \in overlapped' \cup {0}
    <2>1. CASE name = count + 1
      BY <1>1, <1>3, <2>1 DEF SavesInv
    <2>2. CASE name \in {s.name : s \in {t \in saves : t.id = count}}
      BY <1>8, <2>2
    <2> QED
      BY <1>4, <2>1, <2>2
  <1>10. \A s \in saves' : Shared(s)'
    BY <1>6, <1>8, <1>9 DEF Shared
  <1>11. target \notin overlapped' => Load' = progress'
    <2> SUFFICES ASSUME target \notin overlapped' PROVE Load = progress
      BY <1>2 DEF Load
    <2>1. ASSUME NEW s \in saves, Alone(s) PROVE s.stage # "renamed"
      BY <1>8
    <2> QED
      BY <1>1, <1>2, <2>1 DEF SavesInv
  <1>12. \A n \in 1..MaxSaves : n > count + 1 => path[n] = 0
    BY <1>1, <1>3 DEF SavesInv
  <1> QED
    BY <1>2, <1>7, <1>10, <1>11, <1>12 DEF SavesInv

LEMMA BeginSaves ==
  ASSUME ProgressInv, ClearLevel \/ \E f \in Fields, v \in Options : SettingsUpdate(f, v)
  PROVE  SavesInv'
  <1>1. /\ \E ch, co : Begins(ch, co)
        /\ path' = path /\ target' = target /\ data' = data /\ phase # "stopping"
    BY WhatIsSaved DEF ProgressInv
  <1> QED
    BY <1>1, BeginAlone, BeginBeside

\* What a step does to the file that is read.
LEMMA LoadKept ==
  ASSUME ProgressTyped, NEW i \in 0..MaxSaves, i # target, NEW d,
         data' = [data EXCEPT ![i] = d], target' = target
  PROVE  Load' = Load
  <1>1. target \in 0..MaxSaves
    BY TypedParts, Bounds
  <1>2. data'[target] = data[target]
    BY <1>1, TypedParts
  <1> QED
    BY <1>2 DEF Load

LEMMA StepsAlone ==
  ASSUME ProgressInv, NEW s \in saves, Alone(s),
         Open(s) \/ Write(s) \/ RenameSave(s) \/ Resume(s) \/ SaveFails(s)
  PROVE  SavesInv'
  <1>1. ProgressTyped /\ SavesInv
    BY DEF ProgressInv
  <1>2. saves = {s} /\ Placed(s) /\ Whole(s)
    BY <1>1 DEF SavesInv
  <1>3. s \in Save(count) /\ count \in Nat /\ s.content \in Content
    BY <1>1, TypedParts, SaveFields
  <1>4. /\ s.id = count /\ s.name = count /\ count > 0
        /\ count \in 1..MaxSaves /\ count \in 0..MaxSaves /\ target \in 0..MaxSaves
        /\ phase' = phase /\ count' = count /\ overlapped' = overlapped /\ count \notin overlapped
    <2>1. s.id = count /\ s.name = count /\ s.id \in 1..count
      BY <1>2, <1>3, SaveFields DEF Placed
    <2>2. count \in 1..MaxSaves /\ count \in 0..MaxSaves /\ target \in 0..MaxSaves
      BY <1>1, <1>3, <2>1, TypedParts, Bounds
    <2>3. phase' = phase /\ count' = count /\ overlapped' = overlapped
      BY DEF Open, Write, RenameSave, Resume, SaveFails, gameVars
    <2> QED
      BY <1>3, <2>1, <2>2, <2>3 DEF Alone
  <1>5. \A n \in 1..MaxSaves : n > count => path[n] = 0 /\ n # count
    BY <1>1, <1>3 DEF SavesInv
  <1>6. target \notin overlapped /\ s.stage # "renamed" => Load = progress
    BY <1>1, <1>2 DEF SavesInv
  <1>7. ASSUME NEW y, saves' = {y}, y.id = count, Placed(y)', Whole(y)',
               \A n \in 1..MaxSaves : n > count => path'[n] = 0,
               target' \notin overlapped /\ y.stage # "renamed" => Load' = progress'
        PROVE  SavesInv'
    <2>1. Alone(y)'
      BY <1>4, <1>7 DEF Alone
    <2> QED
      BY <1>4, <1>7, <2>1 DEF SavesInv
  <1>8. CASE Open(s)
    <2>1. path[count] = 0 /\ target # count /\ s.stage = "opening"
      BY <1>2, <1>8 DEF Open, Placed
    <2>2. PICK y : y = [s EXCEPT !.stage = "writing", !.inode = count]
      OBVIOUS
    <2>3. /\ saves' = {y} /\ data' = [data EXCEPT ![count] = Empty]
          /\ path' = [path EXCEPT ![count] = count] /\ progress' = progress /\ target' = target
      BY <1>2, <1>4, <1>8, <2>1, <2>2 DEF Open
    <2>4. /\ y.id = s.id /\ y.name = s.name /\ y.inode = count /\ y.change = s.change
          /\ y.content = s.content /\ y.stage = "writing"
      <3>1. count \in 0..count
        BY <1>3
      <3> QED
        BY Zenon, <1>3, <2>2, <3>1 DEF Save, Stages
    <2>5. /\ path'[count] = count /\ data'[count] = Empty
          /\ \A n \in 1..MaxSaves : n > count => path'[n] = 0
      BY <1>1, <1>4, <1>5, <2>1, <2>3, TypedParts
    <2>6. Placed(y)'
      BY <1>4, <2>1, <2>3, <2>4, <2>5 DEF Placed
    <2>7. Whole(y)'
      BY <1>2, <2>3, <2>4 DEF Whole
    <2>8. Load' = Load
      BY <1>1, <1>4, <2>1, <2>3, LoadKept
    <2> QED
      BY <1>4, <1>6, <1>7, <2>1, <2>3, <2>4, <2>5, <2>6, <2>7, <2>8
  <1>9. CASE Write(s)
    <2>1. /\ s.inode = count /\ path[count] = count /\ target # count /\ data[count] = Empty
          /\ s.stage = "writing"
      BY <1>2, <1>9 DEF Write, Placed
    <2>2. PICK y : y = [s EXCEPT !.stage = "renaming"]
      OBVIOUS
    <2>3. /\ saves' = {y} /\ data' = [data EXCEPT ![count] = s.content]
          /\ path' = path /\ progress' = progress /\ target' = target
      BY <1>2, <1>9, <2>1, <2>2 DEF Write
    <2>4. /\ y.id = s.id /\ y.name = s.name /\ y.inode = s.inode /\ y.change = s.change
          /\ y.content = s.content /\ y.stage = "renaming"
      BY <1>3, <2>2, StagedSave DEF Stages
    <2>5. data'[count] = s.content
      BY <1>1, <1>4, <2>1, <2>3, TypedParts
    <2>6. Placed(y)'
      BY <1>4, <2>1, <2>3, <2>4, <2>5 DEF Placed
    <2>7. Whole(y)'
      BY <1>2, <2>3, <2>4 DEF Whole
    <2>8. Load' = Load
      BY <1>1, <1>4, <2>1, <2>3, LoadKept
    <2> QED
      BY <1>4, <1>5, <1>6, <1>7, <2>1, <2>3, <2>4, <2>6, <2>7, <2>8
  <1>10. CASE RenameSave(s)
    <2>1. path[count] = count /\ data[count] = s.content
      BY <1>2, <1>10 DEF RenameSave, Placed
    <2>2. PICK y : y = [s EXCEPT !.stage = "renamed"]
      OBVIOUS
    <2>3. /\ saves' = {y} /\ data' = data /\ path' = [path EXCEPT ![count] = 0]
          /\ progress' = progress /\ target' = count
      BY <1>2, <1>4, <1>10, <2>1, <2>2 DEF RenameSave
    <2>4. /\ y.id = s.id /\ y.name = s.name /\ y.inode = s.inode /\ y.change = s.change
          /\ y.content = s.content /\ y.stage = "renamed"
      BY <1>3, <2>2, StagedSave DEF Stages
    <2>5. path'[count] = 0 /\ \A n \in 1..MaxSaves : n > count => path'[n] = 0
      BY <1>1, <1>4, <1>5, <2>3, TypedParts
    <2>6. Placed(y)'
      BY <1>4, <2>1, <2>3, <2>4, <2>5 DEF Placed
    <2>7. Whole(y)'
      BY <1>2, <2>3, <2>4 DEF Whole
    <2> QED
      BY <1>4, <1>7, <2>3, <2>4, <2>5, <2>6, <2>7
  <1>11. CASE Resume(s)
    <2>1. target = count /\ data[count] = s.content
      BY <1>2, <1>11 DEF Resume, Placed
    <2>2. saves' = {} /\ progress' = s.content /\ path' = path /\ target' = target /\ data' = data
      BY <1>2, <1>11 DEF Resume, fileVars
    <2>3. Load' = progress'
      BY <1>3, <2>1, <2>2 DEF Load
    <2> QED
      BY <1>4, <1>5, <2>2, <2>3 DEF SavesInv
  <1>12. CASE SaveFails(s)
    <2>1. saves' = {} /\ progress' = progress /\ path' = path /\ target' = target /\ data' = data
      BY <1>2, <1>12 DEF SaveFails, fileVars
    <2>2. s.stage # "renamed" /\ Load' = Load
      BY <1>12, <2>1 DEF SaveFails, Load
    <2> QED
      BY <1>4, <1>5, <1>6, <2>1, <2>2 DEF SavesInv
  <1> QED
    BY <1>8, <1>9, <1>10, <1>11, <1>12

LEMMA StepsBeside ==
  ASSUME ProgressInv, NEW s \in saves, ~Alone(s),
         Open(s) \/ Write(s) \/ RenameSave(s) \/ Resume(s) \/ SaveFails(s)
  PROVE  SavesInv'
  <1>1. ProgressTyped /\ SavesInv
    BY DEF ProgressInv
  <1>2. \A t \in saves : ~Alone(t) /\ Shared(t)
    BY <1>1 DEF SavesInv
  <1>3. /\ s \in Save(count) /\ s.name \in 1..count /\ s.id \in overlapped /\ count \in Nat
        /\ 1..count \subseteq 1..MaxSaves /\ overlapped \subseteq 0..MaxSaves
    <2>1. s \in Save(count) /\ s.name \in 1..count /\ s.id \in overlapped /\ count \in Nat
          /\ overlapped \subseteq 1..count
      BY <1>1, TypedParts, SaveFields DEF Alone
    <2>2. 1..count \subseteq 1..MaxSaves /\ 1..count \subseteq 0..MaxSaves
      BY <1>1, TypedParts, Bounds
    <2> QED
      BY <2>1, <2>2
  <1>4. phase' = phase /\ count' = count /\ overlapped' = overlapped
    BY DEF Open, Write, RenameSave, Resume, SaveFails, gameVars
  <1>5. target \notin overlapped => Load = progress
    BY <1>1, <1>2 DEF SavesInv
  <1>6. ASSUME \A t \in saves' : t.id \in overlapped /\ Shared(t)',
               \A n \in 1..MaxSaves : n > count => path'[n] = 0,
               target' \notin overlapped => Load' = progress'
        PROVE  SavesInv'
    BY <1>4, <1>6 DEF SavesInv, Alone
  <1>7. \A n \in 1..MaxSaves : n > count => path[n] = 0 /\ n # s.name
    BY <1>1, <1>3 DEF SavesInv
  <1>8. \A t \in saves : t.id \in overlapped /\ t.name \in 1..MaxSaves
    BY <1>1, <1>2, <1>3, TypedParts, SaveFields DEF Alone
  <1>9. CASE Open(s)
    <2>1. PICK i : i = IF path[s.name] = 0 THEN s.id ELSE path[s.name]
      OBVIOUS
    <2>2. i \in overlapped
      BY <1>2, <1>3, <2>1 DEF Shared
    <2>3. PICK y : y = [s EXCEPT !.stage = "writing", !.inode = i]
      OBVIOUS
    <2>4. /\ saves' = (saves \ {s}) \cup {y} /\ data' = [data EXCEPT ![i] = Empty]
          /\ path' = [path EXCEPT ![s.name] = i] /\ progress' = progress /\ target' = target
      BY <1>9, <2>1, <2>3 DEF Open
    <2>5. /\ y.id = s.id /\ y.name = s.name /\ y.inode = i /\ y.stage = "writing"
      <3>1. i \in 0..count
        BY <1>1, <2>2, TypedParts
      <3> QED
        BY Zenon, <1>3, <2>3, <3>1 DEF Save, Stages
    <2>6. \A n \in 1..MaxSaves : path'[n] = IF n = s.name THEN i ELSE path[n]
      BY <1>1, <2>4, TypedParts
    <2>7. \A t \in saves \ {s} : Shared(t)'
      BY <1>2, <1>4, <1>8, <2>2, <2>4, <2>6 DEF Shared
    <2>8. Shared(y)'
      BY <1>3, <1>4, <2>2, <2>5, <2>6 DEF Shared
    <2>9. target' \notin overlapped => Load' = progress'
      BY <1>1, <1>3, <1>5, <2>2, <2>4, LoadKept
    <2> QED
      BY <1>6, <1>7, <1>8, <2>4, <2>5, <2>6, <2>7, <2>8, <2>9
  <1>10. CASE Write(s)
    <2>1. PICK y : y = [s EXCEPT !.stage = "renaming"]
      OBVIOUS
    <2>2. PICK d : data' = [data EXCEPT ![s.inode] = d]
      BY <1>10 DEF Write
    <2>3. /\ saves' = (saves \ {s}) \cup {y} /\ path' = path /\ progress' = progress
          /\ target' = target /\ s.inode \in overlapped
      BY <1>2, <1>10, <2>1 DEF Write, Shared
    <2>4. y.id = s.id /\ y.name = s.name /\ y.stage = "renaming"
      BY <1>3, <2>1, StagedSave DEF Stages
    <2>5. \A t \in saves \ {s} : Shared(t)'
      BY <1>2, <1>4, <2>3 DEF Shared
    <2>6. Shared(y)'
      BY <1>2, <1>4, <2>3, <2>4 DEF Shared
    <2>7. target' \notin overlapped => Load' = progress'
      BY <1>1, <1>3, <1>5, <2>2, <2>3, LoadKept
    <2> QED
      BY <1>6, <1>7, <1>8, <2>3, <2>4, <2>5, <2>6, <2>7
  <1>11. CASE RenameSave(s)
    <2>1. PICK y : y = [s EXCEPT !.stage = "renamed"]
      OBVIOUS
    <2>2. /\ saves' = (saves \ {s}) \cup {y} /\ data' = data /\ path' = [path EXCEPT ![s.name] = 0]
          /\ progress' = progress /\ target' = path[s.name] /\ target' \in overlapped
      BY <1>2, <1>11, <2>1 DEF RenameSave, Shared
    <2>3. y.id = s.id /\ y.name = s.name /\ y.stage = "renamed"
      BY <1>3, <2>1, StagedSave DEF Stages
    <2>4. \A n \in 1..MaxSaves : path'[n] = IF n = s.name THEN 0 ELSE path[n]
      BY <1>1, <2>2, TypedParts
    <2>5. \A t \in saves \ {s} : Shared(t)'
      BY <1>2, <1>4, <1>8, <2>2, <2>4 DEF Shared
    <2>6. Shared(y)'
      BY <1>3, <1>4, <2>2, <2>3, <2>4 DEF Shared
    <2> QED
      BY <1>6, <1>7, <1>8, <2>2, <2>3, <2>4, <2>5, <2>6
  <1>12. CASE Resume(s)
    <2>1. saves' = saves \ {s} /\ path' = path /\ target' = target /\ target \in overlapped
      BY <1>2, <1>12 DEF Resume, fileVars, Shared
    <2>2. \A t \in saves \ {s} : Shared(t)'
      BY <1>2, <1>4, <2>1 DEF Shared
    <2> QED
      BY <1>6, <1>7, <1>8, <2>1, <2>2
  <1>13. CASE SaveFails(s)
    <2>1. /\ saves' = saves \ {s} /\ progress' = progress /\ path' = path /\ target' = target
          /\ data' = data
      BY <1>13 DEF SaveFails, fileVars
    <2>2. \A t \in saves \ {s} : Shared(t)'
      BY <1>2, <1>4, <2>1 DEF Shared
    <2>3. Load' = Load
      BY <2>1 DEF Load
    <2> QED
      BY <1>5, <1>6, <1>7, <1>8, <2>1, <2>2, <2>3
  <1> QED
    BY <1>9, <1>10, <1>11, <1>12, <1>13

\* The flush of a shutdown replaces the file; saves under way are left to run.
LEMMA ShutdownSaves ==
  ASSUME ProgressInv, Shutdown
  PROVE  SavesInv'
  <1>1. ProgressTyped /\ SavesInv
    BY DEF ProgressInv
  <1>2. /\ phase' = "stopping" /\ data' = [data EXCEPT ![0] = progress] /\ overlapped' = overlapped
        /\ target' = 0 /\ progress' = progress /\ saves' = saves /\ count' = count /\ path' = path
    BY DEF Shutdown, saveVars
  <1>3. data'[0] = progress /\ \A n \in 0..MaxSaves : n # 0 => data'[n] = data[n]
    BY <1>1, <1>2, TypedParts, Bounds
  <1>4. Load' = progress'
    BY <1>1, <1>2, <1>3, TypedParts DEF Load
  <1>5. ASSUME NEW s \in saves PROVE IF Alone(s)' THEN Placed(s)' /\ Whole(s)' ELSE Shared(s)'
    <2>1. CASE Alone(s)
      <3>1. Placed(s) /\ Whole(s)
        BY <1>1, <2>1 DEF SavesInv
      <3>2. s.id = count /\ s.id \in 1..count /\ count \in Nat
        BY <1>1, <3>1, TypedParts, SaveFields DEF Placed
      <3>3. count # 0 /\ count \in 0..MaxSaves
        BY <1>1, <3>2, TypedParts
      <3>4. Whole(s)' /\ Alone(s)'
        BY <1>2, <2>1, <3>1 DEF Whole, Alone
      <3> QED
        BY <1>2, <1>3, <1>4, <3>1, <3>3, <3>4 DEF Placed
    <2>2. CASE ~Alone(s)
      BY <1>1, <1>2, <2>2 DEF SavesInv, Shared, Alone
    <2> QED
      BY <2>1, <2>2
  <1> QED
    BY <1>1, <1>2, <1>4, <1>5 DEF SavesInv, Alone

\* A new process knows the file only, and nobody writes to it any more.
LEMMA RestartSaves ==
  ASSUME ProgressInv, ServerRestart
  PROVE  SavesInv'
  <1>1. /\ saves' = {} /\ progress' = Load /\ target' = target /\ data' = data
        /\ path' = [n \in 1..MaxSaves |-> 0]
    BY DEF ServerRestart
  <1>2. Load' = Load
    BY <1>1 DEF Load
  <1> QED
    BY <1>1, <1>2 DEF SavesInv

LEMMA ProgressInvNext ==
  ASSUME ProgressInv, [ProgressNext]_progressVars
  PROVE  ProgressInv'
  <1>1. ProgressTyped /\ SavesInv
    BY DEF ProgressInv
  <1>2. ProgressTyped'
    BY <1>1, TypedAfter
  <1>3. ASSUME phase' # "stopping" => phase # "stopping", phase = "stopping" => phase' = phase,
               progress' = progress, saves' = saves, overlapped' = overlapped,
               count' = count, path' = path, target' = target, data' = data
        PROVE  SavesInv'
    <2>1. Load' = Load
      BY <1>3 DEF Load
    <2>2. ASSUME NEW s \in saves PROVE IF Alone(s)' THEN Placed(s)' /\ Whole(s)' ELSE Shared(s)'
      BY <1>1, <1>3, <2>1 DEF SavesInv, Placed, Whole, Shared, Alone
    <2> QED
      BY <1>1, <1>3, <2>1, <2>2 DEF SavesInv, Alone
  <1>4. GameSteps => SavesInv'
    BY <1>1, <1>3, GameStepParts
  <1>5. ClearLevel \/ (\E f \in Fields, v \in Options : SettingsUpdate(f, v)) => SavesInv'
    BY BeginSaves
  <1>6. (\E s \in saves : Open(s) \/ Write(s) \/ RenameSave(s) \/ Resume(s) \/ SaveFails(s)) => SavesInv'
    BY StepsAlone, StepsBeside
  <1>7. Shutdown \/ ServerRestart => SavesInv'
    BY ShutdownSaves, RestartSaves
  <1>8. UNCHANGED progressVars => SavesInv'
    BY <1>3 DEF progressVars, gameVars, saveVars, fileVars
  <1>9. SavesInv'
    BY <1>4, <1>5, <1>6, <1>7, <1>8, Zenon DEF ProgressNext, GameSteps
  <1> QED
    BY <1>2, <1>9 DEF ProgressInv

LEMMA ProgressInvInitially ==
  ASSUME ProgressInit
  PROVE  ProgressInv
  <1>1. ProgressTyped
    BY InitTyped
  <1>2. data[target] = Fallback /\ progress = Fallback /\ saves = {}
    BY Bounds DEF ProgressInit
  <1>3. \A n \in 1..MaxSaves : path[n] = 0
    BY DEF ProgressInit
  <1>4. Load = progress
    BY <1>2 DEF Load
  <1> QED
    BY <1>1, <1>2, <1>3, <1>4 DEF ProgressInv, SavesInv

-----------------------------------------------------------------------------
(* Progress: what follows. *)

\* Whatever overlaps, the variables keep their types, among them that a name of
\* a temporary file is that of a save that was started.
THEOREM ProgressTypesHold == ProgressSpec => []ProgressTypeOK
  <1>1. ProgressInit => ProgressTyped
    BY InitTyped
  <1>2. ProgressTyped /\ [ProgressNext]_progressVars => ProgressTyped'
    BY TypedAfter
  <1>3. ProgressTyped => ProgressTypeOK
    BY DEF ProgressTyped
  <1> QED
    BY <1>1, <1>2, <1>3, PTL DEF ProgressSpec

\* The inductive invariant: what saves alone and saves beside each other hold,
\* and which files they write (progressStore.ts save).
THEOREM ProgressInvAlways == ProgressSpec => []ProgressInv
  <1>1. ProgressInit => ProgressInv
    BY ProgressInvInitially
  <1>2. ProgressInv /\ [ProgressNext]_progressVars => ProgressInv'
    BY ProgressInvNext
  <1> QED
    BY <1>1, <1>2, PTL DEF ProgressSpec

\* What a new process finds in a file that no overlapping save left.
LEMMA Loaded ==
  ASSUME ProgressInv, target \notin overlapped
  PROVE  \/ Load = progress
         \/ \E s \in saves : Alone(s) /\ Whole(s) /\ s.stage = "renamed" /\ s.content = Load
  <1>1. ProgressTyped /\ SavesInv
    BY DEF ProgressInv
  <1>2. CASE \E s \in saves : Alone(s) /\ s.stage = "renamed"
    <2>1. PICK s \in saves : Alone(s) /\ s.stage = "renamed"
      BY <1>2
    <2>2. Placed(s) /\ Whole(s) /\ s.content \in Content
      BY <1>1, <2>1, TypedParts, SaveFields DEF SavesInv
    <2> QED
      BY <2>1, <2>2 DEF Placed, Load
  <1>3. CASE ~\E s \in saves : Alone(s) /\ s.stage = "renamed"
    BY <1>1, <1>3 DEF SavesInv
  <1> QED
    BY <1>2, <1>3

\* A process that dies at any instant, in a save or in a shutdown, and starts
\* again finds the progress the room had or the one the save was about to tell
\* it (CrashLosesNothing; progressStore.ts save, flushSync and load), unless the
\* file was left by a save that another one ran beside.
THEOREM CrashesLoseNothing == ProgressSpec => []CrashLosesNothing
  <1>1. ProgressInv => CrashLosesNothing
    BY Loaded DEF ProgressInv, ProgressTyped, CrashLosesNothing
  <1> QED
    BY <1>1, ProgressInvAlways, PTL

\* What the room was told stays: a level that was shown as cleared whatever
\* happens, a setting until it is changed itself (KeepsWhatItTold; the handlers
\* that go on after their save).  Only saves that ran beside each other undo it.
THEOREM WhatWasToldIsKept == ProgressSpec => KeepsWhatItTold
  <1> DEFINE Kept == \/ progress.cleared \subseteq progress'.cleared
                     \/ \E s \in saves : s.id \in overlapped /\ Resume(s)
                     \/ target \in overlapped /\ ServerRestart
  <1>1. ASSUME ProgressInv, ProgressNext PROVE Kept
    <2>1. ProgressTyped /\ SavesInv
      BY <1>1 DEF ProgressInv
    <2>2. ASSUME NEW s \in saves, Open(s) \/ Write(s) \/ RenameSave(s) \/ SaveFails(s)
          PROVE  Kept
      BY <2>2 DEF Open, Write, RenameSave, SaveFails
    <2>3. ASSUME NEW s \in saves, Resume(s) PROVE Kept
      <3>1. CASE Alone(s)
        BY <2>1, <2>3, <3>1 DEF SavesInv, Whole, Resume
      <3>2. CASE ~Alone(s)
        BY <2>3, <3>2 DEF Alone
      <3> QED
        BY <3>1, <3>2
    <2>4. CASE ServerRestart
      <3>1. progress' = Load
        BY <2>4 DEF ServerRestart
      <3>2. target \notin overlapped => progress.cleared \subseteq Load.cleared
        BY <1>1, Loaded DEF Whole
      <3> QED
        BY <2>4, <3>1, <3>2
    <2>5. CASE GameSteps \/ Shutdown \/ ClearLevel \/ \E f \in Fields, v \in Options : SettingsUpdate(f, v)
      <3>1. progress' = progress
        BY <2>1, <2>5, GameStepParts DEF Shutdown, ClearLevel, SettingsUpdate, BeginSave
      <3> QED
        BY <3>1
    <2> QED
      BY <1>1, <2>2, <2>3, <2>4, <2>5, Zenon DEF ProgressNext, GameSteps
  <1>2. ASSUME ProgressInv, NEW s \in saves, s.id \notin overlapped, Resume(s)
        PROVE  /\ s.change # "cleared" => progress'.cleared = progress.cleared
               /\ \A f \in Fields \ {s.change} : progress'.settings[f] = progress.settings[f]
    BY <1>2 DEF ProgressInv, SavesInv, Alone, Whole, Resume
  <1>3. ProgressInv /\ [ProgressNext]_progressVars => [Kept]_progressVars
    BY <1>1
  <1>4. ProgressInv /\ [ProgressNext]_progressVars =>
          [\A s \in saves : s.id \notin overlapped /\ Resume(s) =>
             /\ s.change # "cleared" => progress'.cleared = progress.cleared
             /\ \A f \in Fields \ {s.change} : progress'.settings[f] = progress.settings[f]]_progressVars
    BY <1>2
  <1>5. ProgressSpec => ClearedStaysCleared
    BY <1>3, ProgressInvAlways, PTL DEF ProgressSpec, ClearedStaysCleared
  <1>6. ProgressSpec => OnlyItsOwnChange
    BY <1>4, ProgressInvAlways, PTL DEF ProgressSpec, OnlyItsOwnChange
  <1> QED
    BY <1>5, <1>6 DEF KeepsWhatItTold

=============================================================================
