------------------------------ MODULE Accounts ------------------------------
(***************************************************************************)
(* Login accounts of students and teachers.  Brothers and sisters share    *)
(* one account, found by its email or telephone.  A request reads, decides, *)
(* and then writes an account and a row in statements of their own, without *)
(* a transaction.                                                          *)
(***************************************************************************)
EXTENDS Integers, FiniteSets

CONSTANTS
  Child,     \* students
  Tutor,     \* teachers
  Login,     \* emails and telephone numbers
  AccountId,
  Editor,    \* requests under way
  NoOne      \* NULL, or no row

VARIABLES
  account,   \* users.email by id
  person,    \* students and teachers: NoOne, or [user]
  editor,    \* what each request has still to do; NoOne when it is free
  mixed      \* a request wrote, or failed, on what another one had changed
             \* since it read

accountVars == <<account, person, editor, mixed>>

Person == Child \union Tutor

\* Rows of students and teachers, and the locals of a request: what it does
\* next, for whom, with which login, and the accounts it read and will link
PersonRow == [user : AccountId \union {NoOne}]

Task ==
  [do : {"create", "save", "rename", "delete", "remove", "count"}, of : Person,
   login : Login \union {NoOne}, old : AccountId \union {NoOne},
   user : AccountId \union {NoOne}, stale : BOOLEAN]

ASSUME AccountConstants ==
  /\ IsFiniteSet(Child)
  /\ NoOne \notin Login /\ NoOne \notin AccountId
  /\ NoOne \notin PersonRow /\ NoOne \notin Task

AccountInit ==
  /\ account = [u \in AccountId |-> NoOne]
  /\ person = [p \in Person |-> NoOne]
  /\ editor = [e \in Editor |-> NoOne] /\ mixed = FALSE

\* findByEmail: at most one account (users.email is unique)
AccountsOf(login) == {u \in AccountId : account[u] = login}

\* Mutant: nobody is counted.
Sharing_Nobody(u) == {}

\* The students of an account; teachers are not counted.
Sharing(u) == {c \in Child : person[c] # NoOne /\ person[c].user = u}

Reads(e, todo) ==
  /\ editor[e] = NoOne
  /\ editor' = [editor EXCEPT ![e] = todo]
  /\ UNCHANGED <<account, person, mixed>>

\* What a request will do: create, rename or delete an account, then save the
\* row of p with the account `user`.
Plan(todo, p, login, old, user) ==
  [do |-> todo, of |-> p, login |-> login, old |-> old, user |-> user, stale |-> FALSE]

-----------------------------------------------------------------------------
(* Requests.                                                                *)

\* A new student takes the account of the telephone, or a new one.
AddStudent(e, c, mobile) ==
  /\ person[c] = NoOne
  /\ Reads(e, IF AccountsOf(mobile) = {} THEN Plan("create", c, mobile, NoOne, NoOne)
              ELSE Plan("save", c, mobile, NoOne, CHOOSE u \in AccountsOf(mobile) : TRUE))

\* Account splitting: who shares an account leaves it; who does not takes the
\* account along, or gives it up for one that exists.
UpdateStudent(e, c, login) ==
  /\ person[c] # NoOne
  /\ LET old == person[c].user
         found == CHOOSE u \in AccountsOf(login) : TRUE
     IN Reads(e,
          IF old # NoOne /\ account[old] = login THEN Plan("save", c, login, NoOne, old)
          ELSE IF AccountsOf(login) # {}
          THEN IF old # NoOne /\ Cardinality(Sharing(old)) <= 1
               THEN Plan("delete", c, login, old, found)
               ELSE Plan("save", c, login, NoOne, found)
          ELSE IF old # NoOne /\ Cardinality(Sharing(old)) <= 1
          THEN Plan("rename", c, login, old, old)
          ELSE Plan("create", c, login, NoOne, NoOne))

\* A teacher's login must be free.
AddTeacher(e, t, login) ==
  /\ person[t] = NoOne /\ AccountsOf(login) = {}
  /\ Reads(e, Plan("create", t, login, NoOne, NoOne))

UpdateTeacher(e, t, login) ==
  /\ person[t] # NoOne
  /\ LET old == person[t].user
     IN /\ AccountsOf(login) \subseteq {old}
        /\ Reads(e, IF old = NoOne THEN Plan("create", t, login, NoOne, NoOne)
                    ELSE IF account[old] = login THEN Plan("save", t, login, NoOne, old)
                    ELSE Plan("rename", t, login, old, old))

\* A student without attendance
RemoveStudent(e, c) ==
  /\ person[c] # NoOne
  /\ Reads(e, Plan("remove", c, NoOne, person[c].user, NoOne))

-----------------------------------------------------------------------------
(* Their statements.                                                        *)

\* The request goes on as `todo`; the others have read what is old now.
Wrote(e, todo) ==
  /\ mixed' = (mixed \/ editor[e].stale)
  /\ editor' = [d \in Editor |-> IF d = e THEN todo
                                 ELSE IF editor[d] = NoOne THEN NoOne
                                 ELSE [editor[d] EXCEPT !.stale = TRUE]]

Fails(e) ==
  /\ mixed' = (mixed \/ editor[e].stale)
  /\ editor' = [editor EXCEPT ![e] = NoOne]
  /\ UNCHANGED <<account, person>>

Doing(e, what) == editor[e] # NoOne /\ editor[e].do = what

\* ids of new accounts are random
Unused(u) ==
  /\ account[u] = NoOne
  /\ \A d \in Editor : editor[d] # NoOne => u \notin {editor[d].old, editor[d].user}

CreateAccount(e) ==
  /\ Doing(e, "create")
  /\ IF AccountsOf(editor[e].login) # {} THEN Fails(e)
     ELSE \E u \in AccountId :
            /\ Unused(u)
            /\ account' = [account EXCEPT ![u] = editor[e].login]
            /\ Wrote(e, [editor[e] EXCEPT !.do = "save", !.user = u])
            /\ UNCHANGED person

\* save inserts the account again where another request deleted it.
RenameAccount(e) ==
  /\ Doing(e, "rename")
  /\ IF AccountsOf(editor[e].login) \ {editor[e].old} # {} THEN Fails(e)
     ELSE /\ account' = [account EXCEPT ![editor[e].old] = editor[e].login]
          /\ Wrote(e, [editor[e] EXCEPT !.do = "save"])
          /\ UNCHANGED person

\* ON DELETE SET NULL
Unlinked(u) ==
  [p \in Person |-> IF person[p] # NoOne /\ person[p].user = u THEN [user |-> NoOne] ELSE person[p]]

DeleteAccount(e) ==
  /\ Doing(e, "delete")
  /\ account' = [account EXCEPT ![editor[e].old] = NoOne]
  /\ person' = Unlinked(editor[e].old)
  /\ Wrote(e, IF editor[e].user = NoOne THEN NoOne ELSE [editor[e] EXCEPT !.do = "save"])

\* The account must still exist; the code of a new row, one more than the
\* greatest, may have been taken by another request since it was read.
SaveRow(e) ==
  /\ Doing(e, "save")
  /\ LET p == editor[e].of
         u == editor[e].user
     IN \/ /\ account[u] # NoOne
           /\ person' = [person EXCEPT ![p] = [user |-> u]]
           /\ Wrote(e, NoOne)
           /\ UNCHANGED account
        \/ /\ account[u] = NoOne \/ (person[p] = NoOne /\ editor[e].stale)
           /\ Fails(e)

DeleteRow(e) ==
  /\ Doing(e, "remove")
  /\ person' = [person EXCEPT ![editor[e].of] = NoOne]
  /\ Wrote(e, IF editor[e].old = NoOne THEN NoOne ELSE [editor[e] EXCEPT !.do = "count"])
  /\ UNCHANGED account

CountOthers(e) ==
  /\ Doing(e, "count")
  /\ editor' = [editor EXCEPT ![e] =
                  IF Sharing(@.old) = {} THEN [@ EXCEPT !.do = "delete", !.stale = FALSE]
                  ELSE NoOne]
  /\ UNCHANGED <<account, person, mixed>>

AccountNext ==
  \E e \in Editor :
    \/ \E login \in Login :
         \/ \E c \in Child : AddStudent(e, c, login) \/ UpdateStudent(e, c, login)
         \/ \E t \in Tutor : AddTeacher(e, t, login) \/ UpdateTeacher(e, t, login)
    \/ \E c \in Child : RemoveStudent(e, c)
    \/ CreateAccount(e) \/ RenameAccount(e) \/ DeleteAccount(e)
    \/ SaveRow(e) \/ DeleteRow(e) \/ CountOthers(e)

AccountSpec == AccountInit /\ [][AccountNext]_accountVars

-----------------------------------------------------------------------------
\* When no request is under way, and none wrote or failed on what another had
\* changed since it read, every student has an account, whatever happened to brothers
\* and sisters.
LoginKept ==
  (~mixed /\ \A e \in Editor : editor[e] = NoOne) =>
    \A c \in Child : person[c] # NoOne => person[c].user # NoOne
=============================================================================
