------------------------------- MODULE Accounts -------------------------------
(***************************************************************************)
(* Passwords: the sign-in of AuthService as the login page uses it, and    *)
(* changes of passwords.                                                   *)
(*                                                                         *)
(* Both read the user, await bcrypt, and go on with what they have read;   *)
(* a change awaits a second time before it writes.  The sessions that      *)
(* sign-ins begin are AuthSession's.                                       *)
(***************************************************************************)
EXTENDS Integers

CONSTANTS
  Users,
  TwoFactorUsers,   \* twoFactorEnabled
  Passwords,
  StrongPasswords,  \* validatePasswordStrength takes them
  SeededPassword,   \* all users are seeded with the same one
  Changes           \* calls of updatePassword

ASSUME AccountConstants ==
  /\ TwoFactorUsers \subseteq Users
  /\ StrongPasswords \subseteq Passwords
  /\ SeededPassword \in Passwords

VARIABLES
  passwords,        \* users, by the password their hash is of
  changes,
  signin,           \* the login page's call
  twoFactorRequired \* ... and whether it asks for a code

accountVars == <<passwords, changes, signin, twoFactorRequired>>

Codes == {"none", "wrong", "right"}

\* hash is what the call has read; overlap is history: another change of this user's
\* password was out.
Change == [stage : {"idle", "comparing", "hashing", "ended"}, user : Users,
           currentPassword : Passwords, newPassword : Passwords, hash : Passwords,
           overlap : BOOLEAN]
Signin == [stage : {"idle", "comparing"}, user : Users, password : Passwords, code : Codes,
           hash : Passwords, accepted : BOOLEAN, overlap : BOOLEAN]

AccountsTypeOK ==
  /\ passwords \in [Users -> Passwords]
  /\ changes \in [Changes -> Change]
  /\ signin \in Signin
  /\ twoFactorRequired \in BOOLEAN

NoSignin(u) == [stage |-> "idle", user |-> u, password |-> SeededPassword, code |-> "none",
                hash |-> SeededPassword, accepted |-> FALSE, overlap |-> FALSE]

AccountsInit ==
  /\ passwords = [u \in Users |-> SeededPassword]
  /\ \E u \in Users :
       /\ changes = [c \in Changes |->
            [stage |-> "idle", user |-> u, currentPassword |-> SeededPassword,
             newPassword |-> SeededPassword, hash |-> SeededPassword, overlap |-> FALSE]]
       /\ signin = NoSignin(u)
  /\ twoFactorRequired = FALSE

Changing(u) == {c \in Changes : changes[c].stage \in {"comparing", "hashing"} /\ changes[c].user = u}

----------------------------------------------------------------------------
(* Signing in. *)

\* handleSubmit of the login page, login up to the comparison: a page that asks for
\* a code sends one.
StartSignin(u, password, code) ==
  /\ signin.stage = "idle"
  /\ twoFactorRequired => code # "none"
  /\ signin' = [stage |-> "comparing", user |-> u, password |-> password, code |-> code,
                hash |-> passwords[u], accepted |-> FALSE, overlap |-> Changing(u) # {}]
  /\ UNCHANGED <<passwords, changes, twoFactorRequired>>

PasswordMatches(call) == call.password = call.hash

\* Users without second factor may send a code; nobody looks at it.
CodeIsValid(call) == call.user \in TwoFactorUsers => call.code = "right"

\* The answer, and what the page does with it: an error about the second factor
\* makes it ask for a code, whoever signs in next.
SigninAnswered ==
  /\ signin.stage = "comparing"
  /\ signin' = [NoSignin(signin.user) EXCEPT
                   !.accepted = PasswordMatches(signin) /\ CodeIsValid(signin)]
  /\ twoFactorRequired' = \/ twoFactorRequired /\ ~signin'.accepted
                          \/ PasswordMatches(signin) /\ ~CodeIsValid(signin)
  /\ UNCHANGED <<passwords, changes>>

----------------------------------------------------------------------------
(* Changing a password. *)

\* updatePassword up to the comparison.
StartChange(c, u, currentPassword, newPassword) ==
  /\ changes[c].stage = "idle"
  /\ changes' = [d \in Changes |->
       IF d = c
       THEN [stage |-> "comparing", user |-> u, currentPassword |-> currentPassword,
             newPassword |-> newPassword, hash |-> passwords[u], overlap |-> Changing(u) # {}]
       ELSE [changes[d] EXCEPT !.overlap = @ \/ d \in Changing(u)]]
  /\ signin' = [signin EXCEPT !.overlap = @ \/ (signin.stage = "comparing" /\ signin.user = u)]
  /\ UNCHANGED <<passwords, twoFactorRequired>>

\* Mutant of MayChange: the current password is not compared.
MayChange_Unproven(change) ==
  /\ change.newPassword # change.currentPassword
  /\ change.newPassword \in StrongPasswords

MayChange(change) ==
  /\ change.currentPassword = change.hash
  /\ change.newPassword # change.currentPassword
  /\ change.newPassword \in StrongPasswords

\* The comparison has come back: the call is refused, or awaits the new hash.
ChangeCompared(c) ==
  /\ changes[c].stage = "comparing"
  /\ changes' = [changes EXCEPT ![c].stage = IF MayChange(changes[c]) THEN "hashing" ELSE "ended"]
  /\ UNCHANGED <<passwords, signin, twoFactorRequired>>

\* updateUserPassword: whatever the password has become meanwhile.
ChangeHashed(c) ==
  /\ changes[c].stage = "hashing"
  /\ passwords' = [passwords EXCEPT ![changes[c].user] = changes[c].newPassword]
  /\ changes' = [changes EXCEPT ![c].stage = "ended"]
  /\ UNCHANGED <<signin, twoFactorRequired>>

AccountsNext ==
  \/ \E u \in Users, password \in Passwords, code \in Codes : StartSignin(u, password, code)
  \/ SigninAnswered
  \/ \E c \in Changes, u \in Users, currentPassword, newPassword \in Passwords :
       StartChange(c, u, currentPassword, newPassword)
  \/ \E c \in Changes : ChangeCompared(c) \/ ChangeHashed(c)

----------------------------------------------------------------------------

\* A password is replaced only by a call that has proved the very password it
\* replaces, unless two changes of it overlapped, and a sign-in beside which no
\* change ran is judged by the password as it is (login, updatePassword).
PasswordsAreProven ==
  [][/\ \A u \in Users : passwords'[u] # passwords[u] =>
          \E c \in Changing(u) : changes[c].currentPassword = passwords[u] \/ changes[c].overlap
     /\ signin.stage = "comparing" /\ signin'.stage = "idle" /\ ~signin.overlap =>
          (signin'.accepted <=>
             /\ signin.password = passwords[signin.user]
             /\ signin.user \in TwoFactorUsers => signin.code = "right")]_accountVars

=============================================================================
