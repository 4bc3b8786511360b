------------------------------- MODULE Accounts -------------------------------
(***************************************************************************)
(* What the account store promises (server/src/auth/accountStore.ts, the   *)
(* interface AccountStore): a book of accounts that changes one account at *)
(* a time, keeps e-mail addresses and nicknames unique among the accounts  *)
(* that are not deleted, and counts up an account's credential version     *)
(* with every change of what its sessions rest on.  Queue, files, hashing  *)
(* and failures are those of module AccountStore, which implements this    *)
(* one; module Identity has the sessions.                                  *)
(***************************************************************************)
EXTENDS Naturals

CONSTANTS
  Players,    \* player ids
  Emails,     \* normalised e-mail addresses
  Nicknames,  \* normalised nicknames
  Passwords,
  Keys,       \* values of ACCOUNT_EMAIL_KEY
  None        \* null

ASSUME AccountsAssumption == None \notin Emails \cup Nicknames \cup Passwords \cup Keys

VARIABLE book  \* the record of every player id; Absent for ids not given out

\* A PlayerAccountV2; lock is the key its e-mail address is encrypted with.
Account ==
  [status : {"active", "disabled", "deleted"}, email : Emails \cup {None},
   nick : Nicknames \cup {None}, password : Passwords \cup {None},
   lock : Keys \cup {None}, version : Nat]

Absent == [status |-> "absent", email |-> None, nick |-> None, password |-> None,
           lock |-> None, version |-> 0]

Books == [Players -> Account \cup {Absent}]
EmptyBook == [p \in Players |-> Absent]

Live(b, p) == b[p].status \in {"active", "disabled"}

\* byEmailHash and byNickname: no live account but p has the value.
EmailFree(b, p, e) == \A q \in Players \ {p} : Live(b, q) => b[q].email # e
NickFree(b, p, n) == \A q \in Players \ {p} : Live(b, q) => b[q].nick # n

Registered(e, n, w, k) ==
  [status |-> "active", email |-> e, nick |-> n, password |-> w, lock |-> k,
   version |-> 1]

Repassworded(a, w) == [a EXCEPT !.password = w, !.version = @ + 1]
Readdressed(a, e, k) == [a EXCEPT !.email = e, !.lock = k, !.version = @ + 1]

\* Fault ("Fault" marks plausible bugs of the definition that follows; no
\* specification uses them): an account that is disabled and enabled again keeps its sessions.
WithStatusSameVersion(a, s) == [a EXCEPT !.status = s]

WithStatus(a, s) == [a EXCEPT !.status = s, !.version = @ + 1]

\* The tombstone of softDelete.
Tombstone(a) ==
  [a EXCEPT !.status = "deleted", !.email = None, !.nick = None, !.password = None,
            !.lock = None, !.version = @ + 1]

Init == book = EmptyBook

Register(p, e, n, w, k) ==
  /\ book[p] = Absent
  /\ EmailFree(book, p, e) /\ NickFree(book, p, n)
  /\ book' = [book EXCEPT ![p] = Registered(e, n, w, k)]

UpdateProfile(p, n) ==
  /\ book[p].status = "active"
  /\ NickFree(book, p, n)
  /\ book' = [book EXCEPT ![p].nick = n]

ChangePassword(p, w) ==
  /\ book[p].status = "active"
  /\ book' = [book EXCEPT ![p] = Repassworded(book[p], w)]

ChangeEmail(p, e, k) ==
  /\ book[p].status = "active"
  /\ EmailFree(book, p, e)
  /\ book' = [book EXCEPT ![p] = Readdressed(book[p], e, k)]

SetStatus(p, s) ==
  /\ Live(book, p) /\ book[p].status # s
  /\ book' = [book EXCEPT ![p] = WithStatus(book[p], s)]

SoftDelete(p) ==
  /\ Live(book, p)
  /\ book' = [book EXCEPT ![p] = Tombstone(book[p])]

Next ==
  \E p \in Players :
    \/ \E e \in Emails, n \in Nicknames, w \in Passwords, k \in Keys : Register(p, e, n, w, k)
    \/ \E n \in Nicknames : UpdateProfile(p, n)
    \/ \E w \in Passwords : ChangePassword(p, w)
    \/ \E e \in Emails, k \in Keys : ChangeEmail(p, e, k)
    \/ \E s \in {"active", "disabled"} : SetStatus(p, s)
    \/ SoftDelete(p)

Spec == Init /\ [][Next]_book

-----------------------------------------------------------------------------
(* Properties. *)

\* Types of the variables.
TypeOK == book \in Books

\* Two accounts that are not deleted share neither address nor nickname, a
\* disabled one keeps both (what rebuildIndexes would throw about after the
\* file is written), and a deleted one keeps nothing that identifies a person.
Identified(b) ==
  \A p \in Players :
    /\ Live(b, p) => /\ b[p].email \in Emails /\ EmailFree(b, p, b[p].email)
                     /\ b[p].nick \in Nicknames /\ NickFree(b, p, b[p].nick)
    /\ ~Live(b, p) => b[p].email = None /\ b[p].password = None

Identifiers == Identified(book)

\* Whatever a session rests on, status, password and address, changes only
\* together with a higher version, and a player id is never given out twice.
VersionsCount ==
  [][\A p \in Players :
       /\ book'[p].version >= book[p].version
       /\ book[p].status = "deleted" => book'[p] = book[p]
       /\ <<book'[p].status, book'[p].password, book'[p].email>>
            # <<book[p].status, book[p].password, book[p].email>>
          => book'[p].version > book[p].version]_book

=============================================================================
