------------------------------ MODULE Accounts ------------------------------
(***************************************************************************)
(* User accounts and login tokens (backend/src/auth/auth.cpp).  Every      *)
(* method of Auth holds mMu from its first look at a member to its last    *)
(* change, the save of users.json included, so each is one step.  A save   *)
(* rewrites the file from memory; when it fails the change stays in memory *)
(* and the caller is told.  Passwords, their hashes and the spelling of    *)
(* names are left out: a registration may be refused for them.             *)
(***************************************************************************)
EXTENDS Naturals, FiniteSets

CONSTANTS Names, Tokens,
          Domains, DefaultDomain

VARIABLES users,      \* mUsers: the account of every name
          tokens,     \* mTokens: whom a token was issued to
          usersFile   \* users.json

auth == <<users, tokens, usersFile>>

(* What roleOf() and infoOf() answer for a name without an account. *)
Absent == [role |-> "", domain |-> ""]
Unissued == "unissued"
Revoked == "revoked"

Accounts == [role : {"admin", "user"}, domain : Domains]

ASSUME AccountsAssumption ==
    /\ DefaultDomain \in Domains /\ "" \notin Domains
    /\ Unissued \notin Names /\ Revoked \notin Names
    /\ Absent \notin Accounts

AuthTypeOK ==
    /\ users \in [Names -> Accounts \cup {Absent}]
    /\ usersFile \in [Names -> Accounts \cup {Absent}]
    /\ tokens \in [Tokens -> Names \cup {Unissued, Revoked}]

Account(role, domain) == [role |-> role, domain |-> domain]

Admins(u) == {n \in Names : u[n].role = "admin"}

HasAdmin == Admins(users) # {}

(* Mutant: the file is written before memory is changed. *)
SaveBefore(u, ok) ==
    /\ users' = u
    /\ usersFile' = IF ok THEN users ELSE usersFile

Save(u, ok) ==
    /\ users' = u
    /\ usersFile' = IF ok THEN u ELSE usersFile

(* Refused: the name is taken or invalid, or hashing the password failed. *)
RegisterUser(n, role, domain, ok) ==
    /\ \/ users[n] = Absent /\ Save([users EXCEPT ![n] = Account(role, domain)], ok)
       \/ ~ok /\ UNCHANGED <<users, usersFile>>
    /\ UNCHANGED tokens

SetDomain(n, domain, ok) ==
    /\ \/ users[n] # Absent /\ Save([users EXCEPT ![n].domain = domain], ok)
       \/ users[n] = Absent /\ ~ok /\ UNCHANGED <<users, usersFile>>
    /\ UNCHANGED tokens

(* Mutant: the last administrator may go. *)
MayGoAlways(n) == users[n] # Absent

MayGo(n) == users[n] # Absent /\ Admins(users) # {n}

(* Mutant: the tokens of the account stay. *)
KeepTokens(n) == tokens' = tokens

RevokeAll(n) ==
    tokens' = [t \in Tokens |-> IF tokens[t] = n THEN Revoked ELSE tokens[t]]

DeleteUser(n, ok) ==
    \/ MayGo(n) /\ Save([users EXCEPT ![n] = Absent], ok) /\ RevokeAll(n)
    \/ ~MayGo(n) /\ ~ok /\ UNCHANGED auth

Login(n, t, ok) ==
    \/ /\ ok
       /\ users[n] # Absent
       /\ tokens[t] = Unissued
       /\ tokens' = [tokens EXCEPT ![t] = n]
       /\ UNCHANGED <<users, usersFile>>
    \/ ~ok /\ UNCHANGED auth

Logout(t) ==
    /\ tokens' = [tokens EXCEPT ![t] = Revoked]
    /\ UNCHANGED <<users, usersFile>>

(* AVB_ADMIN_USER at every start: an existing account is promoted. *)
EnsureAdmin(n, ok) ==
    \/ /\ users[n].role = "user"
       /\ Save([users EXCEPT ![n].role = "admin"], ok)
       /\ UNCHANGED tokens
    \/ users[n].role = "admin" /\ ok /\ UNCHANGED auth
    \/ users[n] = Absent /\ RegisterUser(n, "admin", DefaultDomain, ok)

(* A new process knows what the file says and no token. *)
Load ==
    /\ users' = usersFile
    /\ tokens' = [t \in Tokens |->
                      IF tokens[t] = Unissued THEN Unissued ELSE Revoked]
    /\ UNCHANGED usersFile
=============================================================================
