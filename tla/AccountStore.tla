----------------------------- MODULE AccountStore -----------------------------
(***************************************************************************)
(* The account store as it is built (server/src/auth/accountStore.ts): the *)
(* book in memory, one JSON file and its backup, a promise queue through   *)
(* which every change goes, passwords hashed while other calls go on, and  *)
(* a store that closes itself when a write or the load fails.              *)
(*                                                                         *)
(* A commit writes a temporary file, replaces the backup, renames the      *)
(* temporary file onto the accounts file and then changes the memory.  It  *)
(* runs without an await, so that only a failure or the end of the process *)
(* comes between its steps.  Temporary files have random names; they and   *)
(* the avatars are left out.                                               *)
(***************************************************************************)
EXTENDS Accounts, Sequences, FiniteSets

CONSTANTS
  Callers,   \* places for calls under way
  MaxCalls   \* bound on the changes called for

\* A commit on its way to the disk: next is the book it writes.
Commits ==
  [caller : Callers, at : {"backup", "rename", "index"}, player : Players,
   next : Books, redact : BOOLEAN]

ASSUME StoreAssumption == MaxCalls \in Nat /\ None \notin Commits

VARIABLES
  file,      \* accounts.json; EmptyBook as long as there is none
  backup,    \* accounts.json.bak
  degraded,  \* the store is closed until the next start
  key,       \* ACCOUNT_EMAIL_KEY of this process, None if unset or malformed
  call,      \* the calls under way
  queue,     \* mutationQueue: callers in the order of serial
  commit,    \* the commit that runs, or None
  made       \* changes called for so far

vars == <<book, file, backup, degraded, key, call, queue, commit, made>>

\* replaceAccount and register: the book with one account changed.
Replaced(p, a) == [book EXCEPT ![p] = a]

\* stage: "hashing" before the queue, "queued", "running" over an await inside
\* the queue, "idle" when there is no call.  seen is the account as it was read.
Idle == [stage |-> "idle", op |-> "none"]

Request(op, p, e, n, w, old, s) ==
  [stage |-> IF op = "register" THEN "hashing" ELSE "queued", op |-> op, player |-> p,
   email |-> e, nick |-> n, password |-> w, old |-> old, status |-> s, seen |-> Absent]

Requests ==
  [stage : {"hashing", "queued", "running"},
   op : {"register", "profile", "password", "email", "status", "delete"},
   player : Players \cup {None}, email : Emails \cup {None}, nick : Nicknames \cup {None},
   password : Passwords \cup {None}, old : Passwords \cup {None},
   status : {"active", "disabled", None}, seen : Account \cup {Absent}]

\* load: every live account must decrypt under the key, or none is loaded.
Loads(b, k) == k # None /\ \A p \in Players : Live(b, p) => b[p].lock = k

StoreInit ==
  /\ book = EmptyBook /\ file = EmptyBook /\ backup = EmptyBook
  /\ key \in Keys
  /\ degraded = FALSE
  /\ call = [c \in Callers |-> Idle]
  /\ queue = <<>>
  /\ commit = None
  /\ made = 0

-----------------------------------------------------------------------------
(* Calls, the hash before the queue, and the queue. *)

Calls(c, request) ==
  /\ call[c] = Idle /\ commit = None /\ made < MaxCalls
  /\ ~degraded
  /\ made' = made + 1
  /\ call' = [call EXCEPT ![c] = request]
  /\ queue' = IF request.stage = "queued" THEN Append(queue, c) ELSE queue
  /\ UNCHANGED <<book, file, backup, degraded, key, commit>>

CallRegister(c) ==
  /\ Cardinality({d \in Callers : call[d].op = "register"})
       < Cardinality({p \in Players : book[p] = Absent})
  /\ \E e \in Emails, n \in Nicknames, w \in Passwords :
    Calls(c, Request("register", None, e, n, w, None, None))

CallChange(c, p) ==
  \/ \E n \in Nicknames : Calls(c, Request("profile", p, None, n, None, None, None))
  \/ \E old, w \in Passwords : Calls(c, Request("password", p, None, None, w, old, None))
  \/ \E old \in Passwords, e \in Emails : Calls(c, Request("email", p, e, None, None, old, None))
  \/ \E s \in {"active", "disabled"} : Calls(c, Request("status", p, None, None, None, None, s))
  \/ Calls(c, Request("delete", p, None, None, None, None, None))

\* hashPassword of register is done; only now the call joins the queue.
Hashed(c) ==
  /\ call[c].stage = "hashing" /\ commit = None
  /\ call' = [call EXCEPT ![c].stage = "queued"]
  /\ queue' = Append(queue, c)
  /\ UNCHANGED <<book, file, backup, degraded, key, commit, made>>

\* The operation is over without a change and the next one may run.
Refuse(c) ==
  /\ call' = [call EXCEPT ![c] = Idle]
  /\ queue' = Tail(queue)
  /\ UNCHANGED <<book, file, backup, degraded, key, commit, made>>

Commit(c, p, account) ==
  /\ commit' = [caller |-> c, at |-> "backup", player |-> p, next |-> Replaced(p, account),
                redact |-> call[c].op = "delete"]
  /\ UNCHANGED <<book, file, backup, degraded, key, call, queue, made>>

\* Fault: changes do not wait for each other.
AnyTurn(c) == call[c].stage = "queued" /\ commit = None

\* The call at the head of the queue begins.
Turn(c) == call[c].stage = "queued" /\ Head(queue) = c /\ commit = None

\* A player id of 128 random bits is nobody's.  degraded and both indexes are
\* looked up in the queue, after the hash.
RunRegister(c) ==
  LET r == call[c]
  IN  /\ r.op = "register" /\ Turn(c)
      /\ \/ /\ ~degraded
            /\ \E p \in Players :
                 /\ book[p] = Absent
                 /\ EmailFree(book, p, r.email) /\ NickFree(book, p, r.nick)
                 /\ Commit(c, p, Registered(r.email, r.nick, r.password, key))
         \/ /\ \/ degraded
               \/ \E p \in Players : /\ Live(book, p)
                                     /\ book[p].email = r.email \/ book[p].nick = r.nick
            /\ Refuse(c)

RunProfile(c) ==
  LET r == call[c]
      possible == ~degraded /\ book[r.player].status = "active"
                            /\ NickFree(book, r.player, r.nick)
                            /\ book[r.player].nick # r.nick
  IN  /\ r.op = "profile" /\ Turn(c)
      /\ \/ possible /\ Commit(c, r.player, [book[r.player] EXCEPT !.nick = r.nick])
         \/ ~possible /\ Refuse(c)

RunStatus(c) ==
  LET r == call[c]
      possible == ~degraded /\ Live(book, r.player) /\ book[r.player].status # r.status
  IN  /\ r.op = "status" /\ Turn(c)
      /\ \/ possible /\ Commit(c, r.player, WithStatus(book[r.player], r.status))
         \/ ~possible /\ Refuse(c)

RunDelete(c) ==
  LET r == call[c]
      possible == ~degraded /\ Live(book, r.player)
  IN  /\ r.op = "delete" /\ Turn(c)
      /\ \/ possible /\ Commit(c, r.player, Tombstone(book[r.player]))
         \/ ~possible /\ Refuse(c)

\* changePassword and changeEmail read the account and hash, inside the queue.
RunChecked(c) ==
  LET r == call[c]
  IN  /\ r.op \in {"password", "email"} /\ Turn(c)
      /\ \/ /\ ~degraded /\ book[r.player].status = "active"
            /\ call' = [call EXCEPT ![c].stage = "running", ![c].seen = book[r.player]]
            /\ UNCHANGED <<book, file, backup, degraded, key, queue, commit, made>>
         \/ (degraded \/ book[r.player].status # "active") /\ Refuse(c)

\* Hashing is over; the account that was read before it is changed.
EndPassword(c) ==
  LET r == call[c]
  IN  /\ r.op = "password" /\ r.stage = "running" /\ commit = None
      /\ \/ r.old = r.seen.password /\ Commit(c, r.player, Repassworded(r.seen, r.password))
         \/ r.old # r.seen.password /\ Refuse(c)

\* The index of addresses is looked up after the await.
EndEmail(c) ==
  LET r == call[c]
      possible == r.old = r.seen.password /\ EmailFree(book, r.player, r.email)
  IN  /\ r.op = "email" /\ r.stage = "running" /\ commit = None
      /\ \/ possible /\ Commit(c, r.player, Readdressed(r.seen, r.email, key))
         \/ ~possible /\ Refuse(c)

-----------------------------------------------------------------------------
(* persist and commit, one step of the disk after the other. *)

\* Fault: the backup of a deletion is a copy like any other.
CopyBackUp ==
  /\ commit # None /\ commit.at = "backup"
  /\ backup' = file
  /\ commit' = [commit EXCEPT !.at = "rename"]
  /\ UNCHANGED <<book, file, degraded, key, call, queue, made>>

\* A deletion replaces the backup by what is about to be the file.
BackUp ==
  /\ commit # None /\ commit.at = "backup"
  /\ backup' = IF commit.redact THEN commit.next ELSE file
  /\ commit' = [commit EXCEPT !.at = "rename"]
  /\ UNCHANGED <<book, file, degraded, key, call, queue, made>>

Rename ==
  /\ commit # None /\ commit.at = "rename"
  /\ file' = commit.next
  /\ commit' = [commit EXCEPT !.at = "index"]
  /\ UNCHANGED <<book, backup, degraded, key, call, queue, made>>

\* rebuildIndexes; the caller is told.
RebuildIndexes ==
  /\ commit # None /\ commit.at = "index"
  /\ book' = commit.next
  /\ commit' = None
  /\ call' = [call EXCEPT ![commit.caller] = Idle]
  /\ queue' = Tail(queue)
  /\ UNCHANGED <<file, backup, degraded, key, made>>

\* Fault: a failed write is told the caller and forgotten, with the new
\* account in memory.
WriteFailsInMemory ==
  /\ commit # None /\ commit.at # "index"
  /\ book' = commit.next
  /\ commit' = None
  /\ call' = [call EXCEPT ![commit.caller] = Idle]
  /\ queue' = Tail(queue)
  /\ UNCHANGED <<file, backup, degraded, key, made>>

\* A step of the disk throws: the store is closed.
WriteFails ==
  /\ commit # None /\ commit.at # "index"
  /\ degraded' = TRUE
  /\ commit' = None
  /\ call' = [call EXCEPT ![commit.caller] = Idle]
  /\ queue' = Tail(queue)
  /\ UNCHANGED <<book, file, backup, key, made>>

\* The process ends at any point; the next one may have another key.
Restart(k) ==
  /\ key' = k
  /\ degraded' = ~Loads(file, k)
  /\ book' = IF Loads(file, k) THEN file ELSE EmptyBook
  /\ call' = [c \in Callers |-> Idle] /\ queue' = <<>> /\ commit' = None
  /\ UNCHANGED <<file, backup, made>>

CallerStep(c) ==
  \/ CallRegister(c)
  \/ \E p \in Players : CallChange(c, p)
  \/ Hashed(c)
  \/ RunRegister(c) \/ RunProfile(c) \/ RunStatus(c) \/ RunDelete(c) \/ RunChecked(c)
  \/ EndPassword(c) \/ EndEmail(c)

StoreNext ==
  \/ \E c \in Callers : CallerStep(c)
  \/ BackUp \/ Rename \/ RebuildIndexes \/ WriteFails
  \/ \E k \in Keys \cup {None} : Restart(k)

StoreSpec == StoreInit /\ [][StoreNext]_vars

-----------------------------------------------------------------------------
(* Properties. *)

\* Types of the variables.
StoreTypeOK ==
  /\ book \in Books /\ file \in Books /\ backup \in Books
  /\ degraded \in BOOLEAN
  /\ key \in Keys \cup {None}
  /\ call \in [Callers -> Requests \cup {Idle}]
  /\ queue \in Seq(Callers)
  /\ commit \in Commits \cup {None}
  /\ made \in 0..MaxCalls

\* Between two commits memory and file agree, also after a write that failed
\* half way, as persist promises by renaming the main file last; only a store
\* that could not be loaded is empty.  What lies in an open store can be
\* decrypted with its key.
MemoryIsFile ==
  /\ commit = None => book = file \/ (degraded /\ book = EmptyBook)
  /\ ~degraded => Loads(book, key)

StoreInv == StoreTypeOK /\ Identifiers /\ MemoryIsFile

\* Neither file nor backup keeps an address or a password of an account that
\* was deleted, whatever was copied to the backup before.
DeletedIsErased ==
  commit = None =>
    \A p \in Players : file[p].status = "deleted" => backup[p].email = None /\ backup[p].password = None

\* The file changes as the book of module Accounts does, one account and one
\* whole change at a time: no queued, hashing, failing or interrupted call
\* takes back what another one wrote, and a store that could not read its
\* file never writes it.
Promised == INSTANCE Accounts WITH book <- file
ImplementsAccounts == Promised!Spec

=============================================================================
